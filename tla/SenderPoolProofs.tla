-------------------------- MODULE SenderPoolProofs --------------------------
(* Theorems about SenderPool, for any number of calls, datacenters and setups *)
EXTENDS SenderPool, SequenceTheorems, FunctionTheorems, FiniteSetTheorems, TLAPS

-----------------------------------------------------------------------------
(* The inductive invariant *)

(* Setups get their numbers in order, and one that is pending for a datacenter is
   a setup of that datacenter *)
Numbered ==
    /\ \A s \in Ids : s > started => setups[s] = NoSetup
    /\ \A s \in Ids : setups[s].state # "none" => setups[s].dc \in Dcs
    /\ \A k \in Ids : conns[k].state # "none" => setups[k].state # "none"
    /\ listed \subseteq 1 .. started
    /\ \A d \in Dcs : pending[d] # Nothing => pending[d] \in 1 .. started /\ setups[pending[d]].dc = d
    /\ \A d \in Dcs : old[d] \subseteq 1 .. started
    /\ \A c \in Calls : call[c].barred \subseteq 1 .. started

(* A pool that stops has no routes *)
Stopping ==
    /\ routes.stopping => \A d \in Dcs : routes.entries[d] = Nothing
    /\ phase \in {"draining", "joining", "dropping", "stopped"} => routes.stopping

(* OneConnection without cardinalities *)
UsableAt(d) == {k \in listed : setups[k].dc = d /\ IsOpen(k)}
Single ==
    \A d \in Dcs :
        /\ \A j, k \in UsableAt(d) : j = k
        /\ pending[d] # Nothing => UsableAt(d) = {}
        /\ routes.entries[d] # Nothing =>
             routes.entries[d] \in listed /\ setups[routes.entries[d]].dc = d

(* Only a call that is being given up has the result of a setup, the one it waited for *)
ResultOwned ==
    \A c \in Calls : call[c].by # Nothing => call[c].by = call[c].at /\ call[c].where \in {"doomed", "released"}

(* An invocation is at most once in the queue of the runner *)
Invokes(i, c) == requests[i].kind = "invoke" /\ requests[i].call = c
Enqueued ==
    \A i \in DOMAIN requests : \A c \in Calls : Invokes(i, c) =>
        /\ call[c].where = "pool"
        /\ \A j \in DOMAIN requests : Invokes(j, c) => i = j

(* The route cache counts the disconnects that are under way, and publishes no
   route of their datacenter *)
DisconnectsIn(q, d) == {i \in DOMAIN q : q[i].kind = "disconnect" /\ q[i].dc = d}
Disconnects(d) == DisconnectsIn(requests, d)
Counted ==
    \A d \in Dcs :
        /\ routes.disconnecting[d] >= control.begun[d] + Cardinality(Disconnects(d))
        /\ routes.entries[d] # Nothing => routes.disconnecting[d] = 0

(* The setups and connections that calls to datacenter d can be given *)
Reach(d) == {k \in listed : setups[k].dc = d} \cup ({pending[d]} \ {Nothing})

(* Setups that are older than a disconnect are out of reach once the runner has
   seen it; calls that were made after it are behind it in the queue *)
OutOfReach ==
    /\ \A d \in Dcs : Disconnects(d) # {} \/ Reach(d) \cap old[d] = {}
    /\ \A c \in Calls : call[c].where \in {"new", "counted", "admitted", "routed", "fallback"} =>
          call[c].barred \subseteq old[Dc[c]]
    /\ \A c \in Calls : call[c].where = "routed" => call[c].at \notin call[c].barred
    /\ \A i \in DOMAIN requests : \A c \in Calls : Invokes(i, c) =>
          \/ \E j \in Disconnects(Dc[c]) : j < i
          \/ Reach(Dc[c]) \cap call[c].barred = {}
    /\ FreshAfterDisconnect

(* The delay that is left covers what the failures demand *)
Waited ==
    /\ \A d \in Dcs : pacing[d].wait + since[d] >= RetryDelay(pacing[d].failures)
    /\ \A s \in Ids : setups[s].state = "pacing" => setups[s].owed <= setups[s].wait
    /\ Paced

(* Permits are taken and given back in turn *)
Permits ==
    /\ PermitsAccounted
    /\ \A c \in Calls :
          /\ call[c].weight <= ByteLimit
          /\ call[c].where \in {"new", "released", "over"} => ~call[c].slot
          /\ call[c].where \in {"new", "counted", "released", "over"} => call[c].weight = 0
          /\ call[c].where = "counted" => call[c].size <= ByteLimit
          /\ call[c].told => call[c].where = "over"

Inv == /\ TypeOK /\ Numbered /\ Stopping /\ Single /\ ResultOwned /\ Enqueued
       /\ Counted /\ OutOfReach /\ Waited /\ Permits

-----------------------------------------------------------------------------
(* Operators of the pool *)

(* What giving up the requests C does to each call *)
LEMMA DoomedCalls ==
    ASSUME NEW f \in [Calls -> CallRecord], NEW C
    PROVE  /\ Doomed(f, C) \in [Calls -> CallRecord]
           /\ \A c \in Calls :
                 /\ Doomed(f, C)[c].where = IF c \in C THEN "doomed" ELSE f[c].where
                 /\ c \notin C => Doomed(f, C)[c] = f[c]
                 /\ Doomed(f, C)[c].at = f[c].at /\ Doomed(f, C)[c].by = f[c].by
                 /\ Doomed(f, C)[c].alive = f[c].alive /\ Doomed(f, C)[c].told = f[c].told
                 /\ Doomed(f, C)[c].slot = f[c].slot /\ Doomed(f, C)[c].weight = f[c].weight
                 /\ Doomed(f, C)[c].size = f[c].size /\ Doomed(f, C)[c].barred = f[c].barred
BY DEF Doomed, CallRecord, Places

(* The constants, one by one *)
LEMMA Limits ==
    /\ SlotLimit \in Nat /\ ByteLimit \in Nat /\ Stable \in Nat /\ DelayLimit \in Nat
    /\ MaxSetups \in Nat /\ Ids = 1 .. MaxSetups /\ Nothing = 0 /\ Nothing \notin Dcs
    /\ IsFiniteSet(Calls) /\ Dc \in [Calls -> Dcs] /\ Sizes \subseteq Nat /\ Never = -1
BY PoolAssumption DEF Ids, Nothing, Never

(* A delay is within its limit *)
LEMMA DelayBounded == ASSUME NEW n \in Nat PROVE RetryDelay(n) \in 0 .. DelayLimit
<1>1. CASE n <= 1
  BY <1>1, PoolAssumption DEF RetryDelay
<1>2. CASE n > 1
  <2>1. Min2(n - 2, 5) + 1 \in 1 .. 6
    BY <1>2 DEF Min2
  <2>2. <<1, 2, 4, 8, 16, 32>>[Min2(n - 2, 5) + 1] \in Nat
    BY <2>1
  <2> QED BY <1>2, <2>2, PoolAssumption DEF RetryDelay, Min2
<1> QED BY <1>1, <1>2

(* Failures are noted and forgotten within the types *)
PacingType == [Dcs -> [failures : Nat, wait : Nat, up : Never .. Stable]]
LEMMA PacingTyped ==
    ASSUME TypeOK, NEW d \in Dcs
    PROVE  Forgotten(d) \in PacingType /\ FailureNoted(d) \in PacingType
<1>1. Never \in Never .. Stable
  BY Limits
<1>2. pacing \in PacingType
  BY DEF TypeOK, PacingType
<1>3. pacing[d].failures + 1 \in Nat
  BY <1>2 DEF PacingType
<1>4. RetryDelay(pacing[d].failures + 1) \in Nat
  <2>1. RetryDelay(pacing[d].failures + 1) \in 0 .. DelayLimit
    BY ONLY <1>3, DelayBounded
  <2> QED BY <2>1, Limits
<1>5. Forgotten(d) \in PacingType
  BY <1>2 DEF Forgotten, PacingType
<1>6. FailureNoted(d) \in PacingType
  BY <1>1, <1>2, <1>3, <1>4 DEF FailureNoted, PacingType
<1> QED BY <1>5, <1>6

(* Aborting setups and connections changes nothing else about them *)
LEMMA AbortedSetups ==
    ASSUME setups \in [Ids -> SetupRecord], NEW S
    PROVE  /\ Aborted(S) \in [Ids -> SetupRecord]
           /\ \A s \in Ids :
                 /\ Aborted(S)[s].dc = setups[s].dc /\ Aborted(S)[s].state = setups[s].state
                 /\ Aborted(S)[s].wait = setups[s].wait /\ Aborted(S)[s].owed = setups[s].owed
                 /\ setups[s] = NoSetup => Aborted(S)[s] = NoSetup
<1>1. \A s \in Ids : [setups[s] EXCEPT !.aborted = TRUE] \in SetupRecord
  BY DEF SetupRecord
<1>2. Aborted(S) \in [Ids -> SetupRecord]
  BY <1>1 DEF Aborted
<1>3. \A s \in Ids : setups[s] \in SetupRecord
  OBVIOUS
<1>4. \A s \in Ids : setups[s] = NoSetup => Aborted(S)[s] = NoSetup
  <2>1. ASSUME NEW s \in Ids, setups[s] = NoSetup PROVE ~Live(s)
    BY <2>1 DEF Live, NoSetup
  <2> QED BY <2>1 DEF Aborted
<1>5. \A s \in Ids : /\ Aborted(S)[s].dc = setups[s].dc /\ Aborted(S)[s].state = setups[s].state
                     /\ Aborted(S)[s].wait = setups[s].wait /\ Aborted(S)[s].owed = setups[s].owed
  BY <1>3 DEF Aborted, SetupRecord
<1> QED BY <1>2, <1>4, <1>5
LEMMA AbortedConnections ==
    ASSUME conns \in [Ids -> ConnRecord], NEW K
    PROVE  /\ Abort(K) \in [Ids -> ConnRecord]
           /\ \A k \in Ids : Abort(K)[k].state = conns[k].state
<1>1. \A k \in Ids : [conns[k] EXCEPT !.aborted = TRUE] \in ConnRecord
  BY DEF ConnRecord
<1>2. \A k \in Ids : conns[k] \in ConnRecord
  OBVIOUS
<1>3. Abort(K) \in [Ids -> ConnRecord]
  BY <1>1 DEF Abort
<1>4. \A k \in Ids : Abort(K)[k].state = conns[k].state
  BY <1>2 DEF Abort, ConnRecord
<1> QED BY <1>3, <1>4

-----------------------------------------------------------------------------
(* Types *)

RoutesType == [entries : [Dcs -> Ids \cup {Nothing}], disconnecting : [Dcs -> Nat],
               stopping : BOOLEAN, parked : BOOLEAN]
ControlType == [calls : Nat, begun : [Dcs -> Nat], quit : {"no", "begun", "sent"}]

(* What is in the queue *)
LEMMA QueueTyped ==
    ASSUME TypeOK
    PROVE  /\ \A i \in DOMAIN requests : requests[i] \in Request
           /\ requests # <<>> => /\ Head(requests) \in Request /\ Head(requests) = requests[1]
                                 /\ Tail(requests) \in Seq(Request) /\ 1 \in DOMAIN requests
           /\ \A i \in DOMAIN requests : requests[i].kind = "invoke" => requests[i].call \in Calls
           /\ \A i \in DOMAIN requests : requests[i].kind = "disconnect" => requests[i].dc \in Dcs
           /\ IsFiniteSet(DOMAIN requests)
<1>1. requests \in Seq(Request)
  BY DEF TypeOK
<1>2. \A i \in DOMAIN requests : requests[i] \in Request
  BY <1>1
<1>3. requests # <<>> => /\ Head(requests) \in Request /\ Head(requests) = requests[1]
                         /\ Tail(requests) \in Seq(Request) /\ 1 \in DOMAIN requests
  BY <1>1
<1>4. \A i \in DOMAIN requests : requests[i].kind = "invoke" => requests[i].call \in Calls
  BY <1>2 DEF Request
<1>5. \A i \in DOMAIN requests : requests[i].kind = "disconnect" => requests[i].dc \in Dcs
  BY <1>2 DEF Request
<1>6. IsFiniteSet(DOMAIN requests)
  BY <1>1, FS_Interval
<1> QED BY <1>2, <1>3, <1>4, <1>5, <1>6

(* A disconnect that the runner handles was counted *)
LEMMA DisconnectCounted ==
    ASSUME TypeOK, Counted, Popped("disconnect")
    PROVE  LET d == Head(requests).dc
           IN  d \in Dcs /\ routes.disconnecting[d] > 0 /\ 1 \in Disconnects(d)
<1> DEFINE d == Head(requests).dc
<1>1. 1 \in DOMAIN requests /\ requests[1].kind = "disconnect" /\ requests[1].dc = d
  BY QueueTyped DEF Popped
<1>2. d \in Dcs /\ 1 \in Disconnects(d)
  BY <1>1, QueueTyped DEF Disconnects, DisconnectsIn
<1>3. IsFiniteSet(Disconnects(d))
  BY QueueTyped, FS_Subset DEF Disconnects, DisconnectsIn
<1>4. Cardinality(Disconnects(d)) \in Nat /\ Cardinality(Disconnects(d)) # 0
  BY <1>2, <1>3, FS_CardinalityType, FS_EmptySet
<1>5. control.begun[d] \in Nat /\ routes.disconnecting[d] \in Nat
  BY <1>2 DEF TypeOK
<1>6. routes.disconnecting[d] > 0
  BY <1>2, <1>4, <1>5 DEF Counted
<1> QED BY <1>2, <1>6

(* The types survive every step of a caller *)
LEMMA CallerTypes ==
    ASSUME TypeOK, NEW c \in Calls,
           Admit(c) \/ Submit(c) \/ Cancel(c) \/ Retire(c) \/ Receive(c) \/ Answer(c)
    PROVE  TypeOK'
<1>0. /\ call \in [Calls -> CallRecord] /\ call[c] \in CallRecord /\ Dc[c] \in Dcs /\ slots \in Nat /\ bytes \in Nat
      /\ \A C : Doomed(call, C) \in [Calls -> CallRecord]
  <2>1. call \in [Calls -> CallRecord] /\ slots \in Nat /\ bytes \in Nat
    BY DEF TypeOK
  <2>2. call[c] \in CallRecord /\ Dc[c] \in Dcs
    BY <2>1, Limits
  <2>3. \A C : Doomed(call, C) \in [Calls -> CallRecord]
    BY <2>1, DoomedCalls
  <2> QED BY <2>1, <2>2, <2>3
<1>1. CASE Admit(c)
  <2>1. call' \in [Calls -> CallRecord] /\ slots' \in Nat
    <3>1. PICK size \in Sizes :
             \/ /\ size <= ByteLimit /\ slots > 0 /\ slots' = slots - 1
                /\ call' = [call EXCEPT ![c].where = "counted", ![c].slot = TRUE, ![c].size = size,
                                        ![c].barred = old[Dc[c]]]
             \/ call' = Doomed(call, {c}) /\ slots' = slots
      BY <1>1 DEF Admit
    <3>2. old[Dc[c]] \in SUBSET Ids /\ size \in Nat
      BY <1>0, Limits DEF TypeOK
    <3> QED BY <1>0, <3>1, <3>2 DEF CallRecord, Places
  <2> QED BY <1>1, <2>1 DEF Admit, TypeOK, callVars, queueVars, taskVars
<1>2. CASE AdmitBytes(c)
  <2>1. call' \in [Calls -> CallRecord] /\ bytes' \in Nat
    BY <1>0, <1>2 DEF AdmitBytes, CallRecord, Places
  <2> QED BY <1>2, <2>1 DEF AdmitBytes, TypeOK, queueVars, taskVars
<1>3. CASE TryRoute(c)
  <2>1. routes.entries[Dc[c]] \in Ids \cup {Nothing}
    BY <1>0 DEF TypeOK
  <2>2. call' \in [Calls -> CallRecord]
    BY <1>0, <1>3, <2>1 DEF TryRoute, CallRecord, Places
  <2> QED BY <1>3, <2>2 DEF TryRoute, TypeOK, queueVars, taskVars
<1>4. CASE SendRoute(c)
  <2>1. call' \in [Calls -> CallRecord]
    BY <1>0, <1>4 DEF SendRoute, CallRecord, Places
  <2> QED BY <1>4, <2>1 DEF SendRoute, TypeOK, queueVars, taskVars
<1>5. CASE SendPool(c)
  <2>1. call' \in [Calls -> CallRecord]
    <3>1. [call EXCEPT ![c].where = "pool"] \in [Calls -> CallRecord]
      BY <1>0 DEF CallRecord, Places
    <3> QED BY <1>0, <1>5, <3>1 DEF SendPool
  <2>2. [kind |-> "invoke", call |-> c] \in Request
    BY DEF Request
  <2>3. requests \in Seq(Request)
    BY DEF TypeOK
  <2>4. requests' \in Seq(Request)
    BY <1>5, <2>2, <2>3 DEF SendPool
  <2> QED BY <1>5, <2>1, <2>4 DEF SendPool, TypeOK, taskVars
<1>6. CASE Cancel(c)
  <2>1. call' \in [Calls -> CallRecord]
    BY <1>0, <1>6 DEF Cancel, CallRecord, Places
  <2> QED BY <1>6, <2>1 DEF Cancel, TypeOK, queueVars, taskVars
<1>7. CASE DropPermit(c)
  <2>1. call' \in [Calls -> CallRecord] /\ slots' \in Nat /\ bytes' \in Nat
    <3>1. call' \in [Calls -> CallRecord]
      BY <1>0, <1>7 DEF DropPermit, CallRecord, Places
    <3>2. call[c].weight \in Nat
      BY <1>0 DEF CallRecord
    <3> QED BY <1>0, <1>7, <3>1, <3>2 DEF DropPermit
  <2> QED BY <1>7, <2>1 DEF DropPermit, TypeOK, queueVars, taskVars
<1>8. CASE Respond(c)
  <2>1. call' \in [Calls -> CallRecord]
    BY <1>0, <1>8 DEF Respond, CallRecord, Places, NewCall
  <2> QED BY <1>8, <2>1 DEF Respond, TypeOK, queueVars, taskVars
<1>9. CASE Receive(c)
  <2>1. call' \in [Calls -> CallRecord]
    BY <1>0, <1>9 DEF Receive, CallRecord, Places
  <2> QED BY <1>9, <2>1 DEF Receive, TypeOK, queueVars, taskVars
<1>10. CASE Answer(c)
  BY <1>0, <1>10 DEF Answer, TypeOK, queueVars, taskVars
<1> QED
  BY <1>1, <1>2, <1>3, <1>4, <1>5, <1>6, <1>7, <1>8, <1>9, <1>10 DEF Submit, Retire

(* ... of disconnect, quit and the loss of the runner *)
LEMMA ControlTypes ==
    ASSUME TypeOK, Control
    PROVE  TypeOK'
<1>0. /\ routes \in RoutesType /\ control \in ControlType /\ requests \in Seq(Request)
      /\ started \in Nat /\ control.calls + 1 \in Nat /\ control.begun \in [Dcs -> Nat]
      /\ routes.entries \in [Dcs -> Ids \cup {Nothing}] /\ routes.disconnecting \in [Dcs -> Nat]
  BY Limits DEF TypeOK, RoutesType, ControlType
<1>1. CloseRoutes(routes) \in RoutesType
  BY <1>0 DEF CloseRoutes, RoutesType
<1>2. CASE Activate
  <2>1. routes' \in RoutesType
    BY <1>0, <1>2 DEF Activate, RoutesType
  <2> QED BY <1>2, <2>1 DEF Activate, TypeOK, callVars, queueVars, taskVars, RoutesType
<1>3. ASSUME NEW d \in Dcs, BeginDisconnect(d) PROVE TypeOK'
  <2>1. [routes.entries EXCEPT ![d] = Nothing] \in [Dcs -> Ids \cup {Nothing}]
    BY <1>0
  <2>2. [routes.disconnecting EXCEPT ![d] = @ + 1] \in [Dcs -> Nat]
    BY <1>0
  <2>3. routes' = [entries |-> [routes.entries EXCEPT ![d] = Nothing],
                   disconnecting |-> [routes.disconnecting EXCEPT ![d] = @ + 1],
                   stopping |-> routes.stopping, parked |-> routes.parked]
    BY <1>0, <1>3 DEF BeginDisconnect, RoutesType
  <2>4. routes' \in RoutesType
    BY <1>0, <2>1, <2>2, <2>3 DEF RoutesType
  <2>5. [control.begun EXCEPT ![d] = @ + 1] \in [Dcs -> Nat]
    BY <1>0
  <2>6. control' \in ControlType
    BY <1>0, <1>3, <2>5 DEF BeginDisconnect, ControlType
  <2> QED BY <1>3, <2>4, <2>6 DEF BeginDisconnect, TypeOK, callVars, queueVars, taskVars,
                                  RoutesType, ControlType
<1>4. ASSUME NEW d \in Dcs, SendDisconnect(d) PROVE TypeOK'
  <2>1. [control.begun EXCEPT ![d] = @ - 1] \in [Dcs -> Nat]
    BY <1>0, <1>4 DEF SendDisconnect
  <2>2. control' \in ControlType
    BY <1>0, <1>4, <2>1 DEF SendDisconnect, ControlType
  <2>3. [kind |-> "disconnect", dc |-> d] \in Request
    BY DEF Request
  <2>4. requests' \in Seq(Request)
    BY <1>0, <1>4, <2>3 DEF SendDisconnect
  <2>5. 1 .. started \in SUBSET Ids
    BY Limits DEF TypeOK
  <2>6. old' \in [Dcs -> SUBSET Ids]
    BY <1>4, <2>5 DEF SendDisconnect, TypeOK
  <2> QED BY <1>4, <2>2, <2>4, <2>6 DEF SendDisconnect, TypeOK, callVars, taskVars, ControlType
<1>5. CASE BeginQuit
  <2>1. control' \in ControlType
    BY <1>0, <1>5 DEF BeginQuit, ControlType
  <2> QED BY <1>1, <1>5, <2>1 DEF BeginQuit, TypeOK, callVars, queueVars, taskVars,
                                  RoutesType, ControlType
<1>6. CASE SendQuit
  <2>1. control' \in ControlType
    BY <1>0, <1>6 DEF SendQuit, ControlType
  <2>2. [kind |-> "quit"] \in Request
    BY DEF Request
  <2>3. requests' \in Seq(Request)
    BY <1>0, <1>6, <2>2 DEF SendQuit
  <2> QED BY <1>6, <2>1, <2>3 DEF SendQuit, TypeOK, callVars, taskVars, ControlType
<1>7. CASE DropRunner
  <2>1. control' \in ControlType
    BY <1>0, <1>7 DEF DropRunner, ControlType
  <2> QED BY <1>1, <1>7, <2>1 DEF DropRunner, TypeOK, callVars, queueVars, taskVars,
                                  RoutesType, ControlType
<1> QED BY <1>2, <1>3, <1>4, <1>5, <1>6, <1>7 DEF Control

(* ... of time *)
LEMMA TickTypes == ASSUME TypeOK, Tick PROVE TypeOK'
<1>1. pacing' \in PacingType
  <2>1. ASSUME NEW d \in Dcs
        PROVE  [pacing[d] EXCEPT !.wait = Max2(@ - 1, 0), !.up = IF @ \in 0 .. Stable - 1 THEN @ + 1 ELSE @]
               \in [failures : Nat, wait : Nat, up : Never .. Stable]
    <3>1. pacing[d] \in [failures : Nat, wait : Nat, up : Never .. Stable]
      BY DEF TypeOK
    <3>2. Max2(pacing[d].wait - 1, 0) \in Nat
      BY <3>1 DEF Max2
    <3>3. (IF pacing[d].up \in 0 .. Stable - 1 THEN pacing[d].up + 1 ELSE pacing[d].up) \in Never .. Stable
      BY <3>1, Limits
    <3> QED BY <3>1, <3>2, <3>3
  <2> QED BY <2>1 DEF Tick, PacingType
<1>2. setups' \in [Ids -> SetupRecord]
  <2>1. ASSUME NEW s \in Ids
        PROVE  [setups[s] EXCEPT !.wait = Max2(@ - 1, 0), !.owed = Max2(@ - 1, 0)] \in SetupRecord
    <3>1. setups[s] \in SetupRecord
      BY DEF TypeOK
    <3>2. Max2(setups[s].wait - 1, 0) \in Nat /\ Max2(setups[s].owed - 1, 0) \in Nat
      BY <3>1 DEF Max2, SetupRecord
    <3> QED BY <3>1, <3>2 DEF SetupRecord
  <2> QED BY <2>1 DEF Tick
<1>3. since' \in [Dcs -> 0 .. DelayLimit]
  <2>1. ASSUME NEW d \in Dcs PROVE Min2(since[d] + 1, DelayLimit) \in 0 .. DelayLimit
    BY Limits DEF Min2, TypeOK
  <2> QED BY <2>1 DEF Tick
<1> QED BY <1>1, <1>2, <1>3 DEF Tick, TypeOK, callVars, queueVars, PacingType

(* ... of the tasks *)
LEMMA SetupTypes ==
    ASSUME TypeOK, NEW s \in Ids, Setup(s) \/ PanicConnect(s)
    PROVE  TypeOK'
<1>0. setups \in [Ids -> SetupRecord] /\ setups[s] \in SetupRecord
  BY DEF TypeOK
<1>1. Joined(s) \in SetupRecord
  BY <1>0 DEF Joined, NoSetup, SetupRecord
<1>2. CASE Connect(s)
  <2>1. setups' \in [Ids -> SetupRecord]
    BY <1>0, <1>2 DEF Connect, SetupRecord
  <2> QED BY <1>2, <2>1 DEF Connect, TypeOK, callVars, queueVars
<1>3. CASE EndConnect(s)
  <2>1. setups' \in [Ids -> SetupRecord]
    BY <1>0, <1>3 DEF EndConnect, SetupRecord
  <2> QED BY <1>3, <2>1 DEF EndConnect, TypeOK, callVars, queueVars
<1>4. CASE CancelConnect(s)
  <2>1. setups' \in [Ids -> SetupRecord]
    BY <1>0, <1>4 DEF CancelConnect, SetupRecord
  <2> QED BY <1>4, <2>1 DEF CancelConnect, TypeOK, callVars, queueVars
<1>5. CASE AbortConnect(s)
  <2>1. setups' \in [Ids -> SetupRecord]
    BY <1>0, <1>1, <1>5 DEF AbortConnect
  <2> QED BY <1>5, <2>1 DEF AbortConnect, TypeOK, callVars, queueVars
<1>6. CASE PanicConnect(s)
  <2>1. setups' \in [Ids -> SetupRecord]
    BY <1>0, <1>6 DEF PanicConnect, SetupRecord
  <2> QED BY <1>6, <2>1 DEF PanicConnect, TypeOK, callVars, queueVars
<1> QED BY <1>2, <1>3, <1>4, <1>5, <1>6 DEF Setup

LEMMA ConnectionTypes ==
    ASSUME TypeOK, NEW k \in Ids, Break(k) \/ EndTask(k)
    PROVE  TypeOK'
<1>0. conns \in [Ids -> ConnRecord] /\ conns[k] \in ConnRecord /\ call \in [Calls -> CallRecord]
  BY DEF TypeOK
<1>1. Doomed(call, On(k)) \in [Calls -> CallRecord]
  BY <1>0, DoomedCalls
<1>2. CASE Break(k)
  <2>1. conns' \in [Ids -> ConnRecord]
    BY <1>0, <1>2 DEF Break, ConnRecord
  <2> QED BY <1>1, <1>2, <2>1 DEF Break, TypeOK, callVars, queueVars
<1>3. CASE EndTask(k)
  <2>1. PICK how \in {"broken", "ended", "cancelled", "panicked"} : conns' = [conns EXCEPT ![k].state = how]
    BY <1>3 DEF EndTask
  <2>2. conns' \in [Ids -> ConnRecord]
    BY <1>0, <2>1 DEF ConnRecord
  <2> QED BY <1>1, <1>3, <2>2 DEF EndTask, TypeOK, callVars, queueVars
<1> QED BY <1>2, <1>3


(* ... and of the runner *)
LEMMA CancelTypes ==
    ASSUME TypeOK, NEW d \in Dcs, CancelSetup(d, call)
    PROVE  /\ call' \in [Calls -> CallRecord] /\ setups' \in [Ids -> SetupRecord]
           /\ pending' \in [Dcs -> Ids \cup {Nothing}]
<1>1. call \in [Calls -> CallRecord] /\ setups \in [Ids -> SetupRecord] /\ pending \in [Dcs -> Ids \cup {Nothing}]
  BY DEF TypeOK
<1>2. call' \in [Calls -> CallRecord]
  BY <1>1, DoomedCalls DEF CancelSetup
<1>3. setups' \in [Ids -> SetupRecord]
  BY <1>1, AbortedSetups DEF CancelSetup
<1>4. pending' \in [Dcs -> Ids \cup {Nothing}]
  BY <1>1 DEF CancelSetup
<1> QED BY <1>2, <1>3, <1>4

LEMMA FinishTypes ==
    ASSUME Inv, NEW s \in Ids, FinishFailed(s) \/ FinishConnected(s)
    PROVE  TypeOK' /\ setups[s].dc \in Dcs
<1> DEFINE d == setups[s].dc
<1>0. /\ setups \in [Ids -> SetupRecord] /\ setups[s] \in SetupRecord /\ call \in [Calls -> CallRecord]
      /\ pending \in [Dcs -> Ids \cup {Nothing}] /\ conns \in [Ids -> ConnRecord] /\ conns[s] \in ConnRecord
      /\ since \in [Dcs -> 0 .. DelayLimit] /\ 0 \in 0 .. DelayLimit /\ pacing \in PacingType
      /\ routes \in RoutesType /\ routes.entries \in [Dcs -> Ids \cup {Nothing}]
  BY Limits DEF Inv, TypeOK, PacingType, RoutesType
<1>1. Joined(s) \in SetupRecord
  BY <1>0 DEF Joined, NoSetup, SetupRecord
<1>2. setups[s].state # "none"
  BY DEF FinishFailed, FinishConnected
<1>3. d \in Dcs
  BY <1>2 DEF Inv, Numbered
<1>4. setups' \in [Ids -> SetupRecord]
  BY <1>0, <1>1 DEF FinishFailed, FinishConnected
<1>5. CASE FinishFailed(s)
  <2>1. CASE Superseded(s)
    <3>1. UNCHANGED <<call, slots, bytes, routes, control, requests, open, phase, failed, conns, listed,
                      pending, pacing, started, since, old>>
      BY <1>5, <2>1 DEF FinishFailed, queueVars
    <3>2. TypeOK
      BY DEF Inv
    <3> QED BY <1>3, <1>4, <3>1, <3>2 DEF TypeOK
  <2>2. CASE ~Superseded(s)
    <3> DEFINE F == [c \in Calls |-> IF call[c].where = "group" /\ call[c].at = pending[d]
                                     THEN [call[c] EXCEPT !.by = s] ELSE call[c]]
    <3>1. F \in [Calls -> CallRecord]
      <4>1. ASSUME NEW c \in Calls PROVE call[c] \in CallRecord /\ [call[c] EXCEPT !.by = s] \in CallRecord
        <5>1. call[c] \in CallRecord
          BY <1>0
        <5> QED BY ONLY <5>1, s \in Ids DEF CallRecord
      <4> QED BY <4>1
    <3>2. call' \in [Calls -> CallRecord]
      <4>1. call' = Doomed(F, Waiting(pending[d]))
        BY <1>5, <2>2 DEF FinishFailed
      <4> HIDE DEF F
      <4>2. Doomed(F, Waiting(pending[d])) \in [Calls -> CallRecord]
        BY ONLY <3>1, DoomedCalls
      <4> QED BY <4>1, <4>2
    <3>3. pending' \in [Dcs -> Ids \cup {Nothing}]
      BY <1>0, <1>5, <2>2 DEF FinishFailed
    <3>4. pacing' \in PacingType
      <4>1. FailureNoted(d) \in PacingType
        BY <1>3, PacingTyped DEF Inv
      <4> QED BY <1>0, <1>5, <2>2, <4>1 DEF FinishFailed
    <3>5. since' \in [Dcs -> 0 .. DelayLimit]
      BY <1>0, <1>5, <2>2 DEF FinishFailed
    <3>6. UNCHANGED <<slots, bytes, routes, control, requests, open, phase, failed, conns, listed, started, old>>
      BY <1>5 DEF FinishFailed, queueVars
    <3>7. TypeOK
      BY DEF Inv
    <3> QED BY <1>3, <1>4, <3>2, <3>3, <3>4, <3>5, <3>6, <3>7 DEF TypeOK, PacingType
  <2> QED BY <2>1, <2>2
<1>6. CASE FinishConnected(s)
  <2>1. call' \in [Calls -> CallRecord]
    <3>1. \A c \in Calls : /\ [call[c] EXCEPT !.where = "queued", !.at = s] \in CallRecord
                           /\ [call[c] EXCEPT !.where = "doomed"] \in CallRecord
      BY <1>0, ZenonT(40) DEF CallRecord, Places
    <3> QED BY <1>0, <1>6, <3>1 DEF FinishConnected
  <2>2. pending' \in [Dcs -> Ids \cup {Nothing}]
    BY <1>0, <1>6 DEF FinishConnected
  <2>3. pacing' \in PacingType
    <3>1. 0 \in Never .. Stable
      BY Limits
    <3> QED BY <1>0, <1>6, <3>1, ZenonT(40) DEF FinishConnected, PacingType
  <2>4. conns' \in [Ids -> ConnRecord]
    BY <1>0, <1>6 DEF FinishConnected, ConnRecord
  <2>5. routes' \in RoutesType
    <3>1. [routes.entries EXCEPT ![d] = s] \in [Dcs -> Ids \cup {Nothing}]
      BY <1>0
    <3>2. [routes EXCEPT !.entries[d] = s] = [routes EXCEPT !.entries = [routes.entries EXCEPT ![d] = s]]
      BY <1>0 DEF RoutesType
    <3>3. [routes EXCEPT !.entries[d] = s] \in RoutesType
      BY <1>0, <3>1, <3>2 DEF RoutesType
    <3> QED BY <1>0, <1>6, <3>3 DEF FinishConnected, Publish
  <2>6. listed' \subseteq Ids
    BY <1>6 DEF FinishConnected, Inv, TypeOK
  <2>7. UNCHANGED <<slots, bytes, control, requests, open, phase, failed, started, since, old>>
    BY <1>6 DEF FinishConnected, queueVars
  <2>8. TypeOK
    BY DEF Inv
  <2> QED BY <1>3, <1>4, <2>1, <2>2, <2>3, <2>4, <2>5, <2>6, <2>7, <2>8 DEF TypeOK, PacingType, RoutesType
<1> QED BY <1>3, <1>5, <1>6

LEMMA CompletionTypes ==
    ASSUME Inv, NEW k \in Ids, RecordCompletion(k)
    PROVE  TypeOK' /\ setups[k].dc \in Dcs
<1> DEFINE d == setups[k].dc
<1>d. d \in Dcs
  BY DEF Inv, Numbered, RecordCompletion, Ended
<1>0. /\ conns \in [Ids -> ConnRecord] /\ conns[k] \in ConnRecord
      /\ since \in [Dcs -> 0 .. DelayLimit] /\ 0 \in 0 .. DelayLimit /\ pacing \in PacingType
      /\ routes \in RoutesType /\ routes.entries \in [Dcs -> Ids \cup {Nothing}]
  BY Limits DEF Inv, TypeOK, PacingType, RoutesType
<1>1. conns' \in [Ids -> ConnRecord]
  BY <1>0 DEF RecordCompletion, NoConn, ConnRecord
<1>2. routes' \in RoutesType
  <2>1. [e \in Dcs |-> IF routes.entries[e] # Nothing /\ IsOpen(routes.entries[e]) THEN routes.entries[e]
                      ELSE Nothing] \in [Dcs -> Ids \cup {Nothing}]
    BY <1>0
  <2> QED BY <1>0, <2>1 DEF RecordCompletion, RoutesType
<1>3. pacing' \in PacingType
  <2>1. FailureNoted(d) \in PacingType /\ Forgotten(d) \in PacingType
    BY <1>d, PacingTyped DEF Inv
  <2> QED BY <1>0, <2>1 DEF RecordCompletion
<1>4. since' \in [Dcs -> 0 .. DelayLimit]
  BY <1>0 DEF RecordCompletion
<1>5. listed' \subseteq Ids /\ failed' \in BOOLEAN
  BY DEF RecordCompletion, Inv, TypeOK
<1>6. phase' \in {"driving", "closing", "draining", "joining", "dropping", "stopped"}
  BY DEF RecordCompletion, Inv, TypeOK
<1> QED BY <1>d, <1>1, <1>2, <1>3, <1>4, <1>5, <1>6
           DEF RecordCompletion, Inv, TypeOK, callVars, queueVars, PacingType, RoutesType

LEMMA InvokeTypes ==
    ASSUME Inv, ProcessInvoke
    PROVE  TypeOK' /\ Head(requests).call \in Calls
<1> DEFINE c == Head(requests).call
           d == Dc[c]
<1>0. /\ setups \in [Ids -> SetupRecord] /\ call \in [Calls -> CallRecord] /\ started \in Nat
      /\ pending \in [Dcs -> Ids \cup {Nothing}] /\ pacing \in PacingType /\ since \in [Dcs -> 0 .. DelayLimit]
      /\ listed \subseteq Ids /\ requests # <<>> /\ MaxSetups \in Nat /\ started <= MaxSetups
  <2>1. TypeOK /\ MaxSetups \in Nat
    BY Limits DEF Inv
  <2>2. requests # <<>>
    BY DEF ProcessInvoke, Popped
  <2>3. started \in Nat /\ started <= MaxSetups
    BY <2>1 DEF TypeOK
  <2> QED BY ONLY <2>1, <2>2, <2>3 DEF TypeOK, PacingType
<1>1. c \in Calls /\ requests' \in Seq(Request)
  <2>1. requests[1].kind = "invoke" /\ c = requests[1].call /\ 1 \in DOMAIN requests
    BY QueueTyped DEF Inv, ProcessInvoke, Popped
  <2> QED BY <2>1, <1>0, QueueTyped DEF Inv, ProcessInvoke
<1>2. d \in Dcs /\ call[c] \in CallRecord
  BY <1>0, <1>1, Limits
<1>3. CASE call' = Doomed(call, {c}) /\ UNCHANGED <<pending, setups, started>>
  <2>1. call' \in [Calls -> CallRecord]
    BY <1>0, <1>3, DoomedCalls
  <2> QED BY <1>1, <1>3, <2>1 DEF ProcessInvoke, Inv, TypeOK
<1>4. ASSUME NEW k \in Usable(d), call' = [call EXCEPT ![c].where = "queued", ![c].at = k],
             UNCHANGED <<pending, setups, started>>
      PROVE  TypeOK'
  <2>1. k \in Ids
    BY <1>0 DEF Usable
  <2>2. call' \in [Calls -> CallRecord]
    BY <1>0, <1>2, <1>4, <2>1 DEF CallRecord, Places
  <2> QED BY <1>1, <1>4, <2>2 DEF ProcessInvoke, Inv, TypeOK
<1>5. CASE StartSetup(c)
  <2> DEFINE s == IF pending[d] = Nothing THEN started + 1 ELSE pending[d]
  <2>1. s \in Ids /\ s \in Nat
    BY <1>5, Limits, SMTT(30) DEF StartSetup
  <2>2. call' \in [Calls -> CallRecord]
    BY <1>0, <1>2, <1>5, <2>1 DEF StartSetup, CallRecord, Places
  <2>3. pending' \in [Dcs -> Ids \cup {Nothing}]
    BY <1>0, <1>2, <1>5, <2>1 DEF StartSetup
  <2>4. started' \in 0 .. MaxSetups
    <3>1. started' = Max2(started, s)
      BY <1>5 DEF StartSetup
    <3> QED BY <1>0, <2>1, <3>1, Limits DEF Max2
  <2>5. setups' \in [Ids -> SetupRecord]
    <3>1. pacing[d].failures \in Nat /\ pacing[d].wait \in Nat /\ since[d] \in Int
      BY <1>0, <1>2, Limits DEF PacingType
    <3>2. RetryDelay(pacing[d].failures) \in Int
      BY <3>1, DelayBounded
    <3>3. Max2(RetryDelay(pacing[d].failures) - since[d], 0) \in Nat
      BY <3>1, <3>2 DEF Max2
    <3>4. [dc |-> d, state |-> "pacing", wait |-> pacing[d].wait, aborted |-> FALSE,
           owed |-> Max2(RetryDelay(pacing[d].failures) - since[d], 0)] \in SetupRecord
      BY <1>2, <3>1, <3>3 DEF SetupRecord
    <3> QED BY <1>0, <1>5, <2>1, <3>4 DEF StartSetup
  <2> QED BY <1>1, <2>2, <2>3, <2>4, <2>5 DEF ProcessInvoke, Inv, TypeOK
<1> QED BY <1>1, <1>3, <1>4, <1>5 DEF ProcessInvoke

LEMMA DisconnectTypes ==
    ASSUME Inv, ProcessDisconnect
    PROVE  TypeOK'
<1> DEFINE d == Head(requests).dc
           K == {k \in listed : setups[k].dc = d}
<1>0. /\ routes \in RoutesType /\ routes.entries \in [Dcs -> Ids \cup {Nothing}]
      /\ routes.disconnecting \in [Dcs -> Nat] /\ conns \in [Ids -> ConnRecord]
  BY DEF Inv, TypeOK, RoutesType
<1>1. d \in Dcs /\ routes.disconnecting[d] > 0
  BY DisconnectCounted DEF Inv, ProcessDisconnect
<1>2. requests' \in Seq(Request)
  BY QueueTyped DEF Inv, ProcessDisconnect, Popped
<1>3. /\ call' \in [Calls -> CallRecord] /\ setups' \in [Ids -> SetupRecord]
      /\ pending' \in [Dcs -> Ids \cup {Nothing}]
  BY <1>1, CancelTypes DEF Inv, ProcessDisconnect
<1>4. pacing' \in PacingType
  BY <1>1, PacingTyped DEF Inv, ProcessDisconnect
<1>5. conns' \in [Ids -> ConnRecord]
  BY <1>0, AbortedConnections DEF ProcessDisconnect
<1>6. routes' \in RoutesType
  <2>1. [routes.entries EXCEPT ![d] = Nothing] \in [Dcs -> Ids \cup {Nothing}]
    BY <1>0
  <2>2. [routes.disconnecting EXCEPT ![d] = @ - 1] \in [Dcs -> Nat]
    BY <1>0, <1>1
  <2>3. routes' = [entries |-> [routes.entries EXCEPT ![d] = Nothing],
                   disconnecting |-> [routes.disconnecting EXCEPT ![d] = @ - 1],
                   stopping |-> routes.stopping, parked |-> routes.parked]
    BY <1>0 DEF ProcessDisconnect, RoutesType
  <2> QED BY <1>0, <2>1, <2>2, <2>3 DEF RoutesType
<1>7. listed' \subseteq Ids
  BY DEF ProcessDisconnect, Inv, TypeOK
<1> QED BY <1>2, <1>3, <1>4, <1>5, <1>6, <1>7
           DEF ProcessDisconnect, Inv, TypeOK, PacingType, RoutesType

LEMMA StopTypes ==
    ASSUME TypeOK, Drain \/ DropFields
    PROVE  TypeOK'
<1>1. call \in [Calls -> CallRecord] /\ setups \in [Ids -> SetupRecord] /\ conns \in [Ids -> ConnRecord]
  BY DEF TypeOK
<1>2. call' \in [Calls -> CallRecord]
  BY <1>1, DoomedCalls DEF Drain, DropFields
<1>3. setups' \in [Ids -> SetupRecord]
  BY <1>1, AbortedSetups DEF Drain, DropFields
<1>4. conns' \in [Ids -> ConnRecord]
  BY <1>1, AbortedConnections DEF Drain, DropFields
<1>5. requests' = <<>> /\ listed' = {}
  BY DEF Drain, DropFields
<1>6. pending' \in [Dcs -> Ids \cup {Nothing}]
  BY DEF Drain, DropFields
<1>7. requests' \in Seq(Request) /\ listed' \subseteq Ids
  BY <1>5
<1>8. open' = FALSE /\ phase' \in {"joining", "stopped"}
  BY DEF Drain, DropFields
<1>9. UNCHANGED <<slots, bytes, routes, control, failed, pacing, started, since, old>>
  BY DEF Drain, DropFields
<1> QED BY <1>2, <1>3, <1>4, <1>6, <1>7, <1>8, <1>9 DEF TypeOK


LEMMA PollTypes == ASSUME TypeOK, NEW d \in Dcs, PollClosed(d) PROVE TypeOK'
<1> DEFINE gone == Waiting(pending[d]) \cap Gone
<1>1. CASE CancelSetup(d, call)
  <2>1. /\ call' \in [Calls -> CallRecord] /\ setups' \in [Ids -> SetupRecord]
        /\ pending' \in [Dcs -> Ids \cup {Nothing}]
    BY <1>1, CancelTypes
  <2> QED BY <2>1 DEF PollClosed, TypeOK, queueVars
<1>2. CASE call' = Doomed(call, gone) /\ UNCHANGED <<setups, pending>>
  <2>1. call' \in [Calls -> CallRecord]
    <3>1. \A C : Doomed(call, C) \in [Calls -> CallRecord]
      BY DoomedCalls DEF TypeOK
    <3> QED BY <1>2, <3>1
  <2>2. UNCHANGED <<setups, pending, slots, bytes, routes, control, requests, open, phase, failed, conns,
                    listed, pacing, started, since, old>>
    BY <1>2 DEF PollClosed, queueVars
  <2> QED BY <2>1, <2>2 DEF TypeOK
<1> QED BY <1>1, <1>2 DEF PollClosed

(* The types survive every step *)
LEMMA NextTypes == ASSUME Inv, Next PROVE TypeOK'
<1>0. TypeOK
  BY DEF Inv
<1>1. ASSUME NEW c \in Calls, Admit(c) \/ Submit(c) \/ Cancel(c) \/ Retire(c) \/ Receive(c) \/ Answer(c)
      PROVE  TypeOK'
  BY <1>0, <1>1, CallerTypes
<1>2. ASSUME NEW s \in Ids, Setup(s) \/ PanicConnect(s) PROVE TypeOK'
  BY <1>0, <1>2, SetupTypes
<1>3. CASE Runner
  <2>1. ASSUME NEW s \in Ids, FinishFailed(s) \/ FinishConnected(s) PROVE TypeOK'
    BY <2>1, FinishTypes
  <2>2. ASSUME NEW s \in Ids, JoinPanicked(s) PROVE TypeOK'
    BY <1>0, <2>2 DEF JoinPanicked, TypeOK, callVars, queueVars, taskVars
  <2>3. ASSUME NEW k \in Ids, RecordCompletion(k) PROVE TypeOK'
    BY <2>3, CompletionTypes
  <2>4. ASSUME NEW d \in Dcs, PollClosed(d) PROVE TypeOK'
    BY <1>0, <2>4, PollTypes
  <2>5. CASE ProcessQuit
    BY <1>0, <2>5 DEF ProcessQuit, TypeOK, callVars, queueVars, taskVars
  <2>6. CASE CloseAfterDrive
    <3>1. CloseRoutes(routes) \in RoutesType
      BY <1>0 DEF CloseRoutes, RoutesType, TypeOK
    <3> QED BY <1>0, <2>6, <3>1 DEF CloseAfterDrive, TypeOK, callVars, queueVars, taskVars, RoutesType
  <2>7. CASE FinishRun
    BY <1>0, <2>7 DEF FinishRun, TypeOK, callVars, queueVars, taskVars
  <2> QED BY <1>0, <1>3, <2>1, <2>2, <2>3, <2>4, <2>5, <2>6, <2>7, InvokeTypes, DisconnectTypes,
             StopTypes DEF Runner
<1>4. CASE Connection
  BY <1>0, <1>4, ConnectionTypes DEF Connection
<1>5. CASE Control
  BY <1>0, <1>5, ControlTypes
<1>6. CASE Tick
  BY <1>0, <1>6, TickTypes
<1> QED BY <1>1, <1>2, <1>3, <1>4, <1>5, <1>6 DEF Next


-----------------------------------------------------------------------------
(* What a step may do to a call and to a setup *)

(* Requests that whoever has them can give up; those of the queue go when they
   are taken out of it *)
Held(c) ==
    /\ call[c].where \notin {"doomed", "released", "over"}
    /\ call[c].where = "pool" => (ProcessInvoke /\ Head(requests).call = c) \/ requests' = <<>>
MovesTo(c, w) == call'[c] = [call[c] EXCEPT !.where = w]
MovesAt(c, w, k) == call'[c] = [call[c] EXCEPT !.where = w, !.at = k]

(* A call is admitted, routed or queued, waits for a setup, is carried by a
   connection and given up, in this order *)
Moves(c) ==
    \/ call'[c] = call[c]
    \/ call'[c] = [call[c] EXCEPT !.alive = FALSE]
    \/ Held(c) /\ MovesTo(c, "doomed")
    \/ call[c].where = "group" /\ call'[c] = [call[c] EXCEPT !.where = "doomed", !.by = call[c].at]
    \/ /\ call[c].where = "new" /\ Admit(c)
       /\ \E n \in Nat : /\ n <= ByteLimit
                         /\ call'[c] = [call[c] EXCEPT !.where = "counted", !.slot = TRUE, !.size = n,
                                                       !.barred = old[Dc[c]]]
    \/ /\ call[c].where = "counted" /\ AdmitBytes(c)
       /\ call'[c] = [call[c] EXCEPT !.where = "admitted", !.weight = call[c].size]
    \/ /\ call[c].where = "admitted"
       /\ \/ MovesAt(c, "fallback", Nothing)
          \/ routes.entries[Dc[c]] # Nothing /\ MovesAt(c, "routed", routes.entries[Dc[c]])
    \/ call[c].where = "routed" /\ (MovesTo(c, "queued") \/ MovesAt(c, "fallback", Nothing))
    \/ call[c].where = "fallback" /\ MovesTo(c, "pool")
    \/ /\ call[c].where = "pool" /\ ProcessInvoke /\ Head(requests).call = c
       /\ \/ \E k \in Usable(Dc[c]) : MovesAt(c, "queued", k)
          \/ MovesAt(c, "group", pending'[Dc[c]]) /\ pending'[Dc[c]] \in {pending[Dc[c]], started + 1}
    \/ call[c].where = "group" /\ MovesTo(c, "queued")
    \/ call[c].where = "queued" /\ MovesTo(c, "flight")
    \/ /\ call[c].where = "doomed" /\ DropPermit(c)
       /\ call'[c] = [call[c] EXCEPT !.where = "released", !.slot = FALSE, !.weight = 0]
    \/ /\ call[c].where = "released"
       /\ call'[c] = [NewCall EXCEPT !.where = "over", !.told = call[c].alive,
                                     !.slot = call[c].slot, !.weight = call[c].weight]

LEMMA DoomMoves ==
    ASSUME call \in [Calls -> CallRecord], NEW C, call' = Doomed(call, C), \A b \in C : Held(b)
    PROVE  \A c \in Calls : Moves(c)
<1>1. ASSUME NEW c \in Calls, c \in C PROVE Held(c) /\ MovesTo(c, "doomed")
  BY <1>1 DEF Doomed, MovesTo
<1>2. ASSUME NEW c \in Calls, c \notin C PROVE call'[c] = call[c]
  BY <1>2 DEF Doomed
<1> QED BY <1>1, <1>2 DEF Moves

LEMMA CallerMoves ==
    ASSUME TypeOK, NEW b \in Calls,
           Admit(b) \/ Submit(b) \/ Cancel(b) \/ Retire(b) \/ Receive(b) \/ Answer(b)
    PROVE  \A c \in Calls : Moves(c)
<1>0. call \in [Calls -> CallRecord] /\ Sizes \subseteq Nat
  BY Limits DEF TypeOK
<1>1. CASE call' = Doomed(call, {b}) /\ Held(b)
  BY <1>0, <1>1, DoomMoves
<1>2. ASSUME \A c \in Calls : c # b => call'[c] = call[c], Moves(b) PROVE \A c \in Calls : Moves(c)
  <2>1. ASSUME NEW c \in Calls, c # b PROVE Moves(c)
    BY <1>2, <2>1 DEF Moves
  <2> QED BY <1>2, <2>1
<1>3. CASE Admit(b)
  <2>1. CASE call' = Doomed(call, {b})
    BY <1>1, <1>3, <2>1 DEF Admit, Held
  <2>2. ASSUME NEW n \in Sizes, n <= ByteLimit,
               call' = [call EXCEPT ![b].where = "counted", ![b].slot = TRUE, ![b].size = n,
                                    ![b].barred = old[Dc[b]]]
        PROVE  \A c \in Calls : Moves(c)
    <3>1. call'[b] = [call[b] EXCEPT !.where = "counted", !.slot = TRUE, !.size = n, !.barred = old[Dc[b]]]
      BY <1>0, <2>2
    <3>2. call[b].where = "new" /\ n \in Nat
      BY <1>0, <1>3 DEF Admit
    <3>3. Moves(b)
      BY <1>3, <2>2, <3>1, <3>2 DEF Moves
    <3> QED BY <1>0, <1>2, <2>2, <3>3
  <2> QED BY <1>3, <2>1, <2>2 DEF Admit
<1>4. CASE AdmitBytes(b)
  <2>1. CASE call' = Doomed(call, {b})
    BY <1>1, <1>4, <2>1 DEF AdmitBytes, Held
  <2>2. CASE call' = [call EXCEPT ![b].where = "admitted", ![b].weight = call[b].size]
    <3>1. call[b].where = "counted" /\ call'[b] = [call[b] EXCEPT !.where = "admitted", !.weight = call[b].size]
      BY <1>0, <1>4, <2>2 DEF AdmitBytes
    <3>2. Moves(b)
      BY <1>4, <3>1 DEF Moves
    <3> QED BY <1>0, <1>2, <2>2, <3>2
  <2> QED BY <1>4, <2>1, <2>2 DEF AdmitBytes
<1>5. CASE TryRoute(b)
  <2> DEFINE k == routes.entries[Dc[b]]
  <2>1. CASE call' = Doomed(call, {b})
    BY <1>1, <1>5, <2>1 DEF TryRoute, Held
  <2>2. CASE k = Nothing /\ call' = [call EXCEPT ![b].where = "fallback", ![b].at = k]
    <3>1. Moves(b)
      BY <1>0, <1>5, <2>2 DEF TryRoute, Moves, MovesAt
    <3> QED BY <1>0, <1>2, <2>2, <3>1
  <2>3. CASE k # Nothing /\ call' = [call EXCEPT ![b].where = "routed", ![b].at = k]
    <3>1. Moves(b)
      BY <1>0, <1>5, <2>3 DEF TryRoute, Moves, MovesAt
    <3> QED BY <1>0, <1>2, <2>3, <3>1
  <2> QED BY <1>5, <2>1, <2>2, <2>3 DEF TryRoute
<1>6. CASE SendRoute(b)
  <2>1. CASE call' = [call EXCEPT ![b].where = "queued", ![b].at = call[b].at]
    <3>1. call[b] \in CallRecord /\ call'[b] = [call[b] EXCEPT !.where = "queued", !.at = call[b].at]
      BY <1>0, <2>1
    <3>2. MovesTo(b, "queued")
      BY <3>1 DEF CallRecord, MovesTo
    <3>3. Moves(b)
      BY <1>6, <3>2 DEF SendRoute, Moves
    <3> QED BY <1>0, <1>2, <2>1, <3>3
  <2>2. CASE call' = [call EXCEPT ![b].where = "fallback", ![b].at = Nothing]
    <3>1. Moves(b)
      BY <1>0, <1>6, <2>2 DEF SendRoute, Moves, MovesAt
    <3> QED BY <1>0, <1>2, <2>2, <3>1
  <2> QED BY <1>6, <2>1, <2>2 DEF SendRoute
<1>7. CASE SendPool(b)
  <2>1. CASE call' = Doomed(call, {b})
    BY <1>1, <1>7, <2>1 DEF SendPool, Held
  <2>2. CASE call' = [call EXCEPT ![b].where = "pool"]
    <3>1. Moves(b)
      BY <1>0, <1>7, <2>2 DEF SendPool, Moves, MovesTo
    <3> QED BY <1>0, <1>2, <2>2, <3>1
  <2> QED BY <1>7, <2>1, <2>2 DEF SendPool
<1>8. CASE Cancel(b)
  <2>1. Moves(b)
    BY <1>0, <1>8 DEF Cancel, Moves
  <2> QED BY <1>0, <1>2, <1>8, <2>1 DEF Cancel
<1>9. CASE DropPermit(b)
  <2>1. /\ call[b].where = "doomed"
        /\ call'[b] = [call[b] EXCEPT !.where = "released", !.slot = FALSE, !.weight = 0]
    BY <1>0, <1>9 DEF DropPermit
  <2>2. Moves(b)
    BY <1>9, <2>1 DEF Moves
  <2> QED BY <1>0, <1>2, <1>9, <2>2 DEF DropPermit
<1>10. CASE Respond(b)
  <2>1. Moves(b)
    BY <1>0, <1>10 DEF Respond, Moves
  <2> QED BY <1>0, <1>2, <1>10, <2>1 DEF Respond
<1>11. CASE Receive(b)
  <2>1. Moves(b)
    BY <1>0, <1>11 DEF Receive, Moves, MovesTo
  <2> QED BY <1>0, <1>2, <1>11, <2>1 DEF Receive
<1>12. CASE Answer(b)
  BY <1>1, <1>12 DEF Answer, Held
<1> QED BY <1>3, <1>4, <1>5, <1>6, <1>7, <1>8, <1>9, <1>10, <1>11, <1>12 DEF Submit, Retire


LEMMA FinishMoves ==
    ASSUME Inv, NEW s \in Ids, FinishFailed(s) \/ FinishConnected(s)
    PROVE  \A c \in Calls : Moves(c)
<1> DEFINE d == setups[s].dc
<1>0. call \in [Calls -> CallRecord]
  BY DEF Inv, TypeOK
<1>1. CASE FinishFailed(s)
  <2>1. CASE Superseded(s)
    BY <1>1, <2>1 DEF FinishFailed, Moves
  <2>2. CASE ~Superseded(s)
    <3> DEFINE F == [c \in Calls |-> IF call[c].where = "group" /\ call[c].at = pending[d]
                                     THEN [call[c] EXCEPT !.by = s] ELSE call[c]]
    <3>1. call' = Doomed(F, Waiting(pending[d])) /\ pending[d] = s
      BY <1>1, <2>2 DEF FinishFailed, Superseded
    <3>2. SUFFICES ASSUME NEW c \in Calls PROVE Moves(c)
      OBVIOUS
    <3>3. CASE c \in Waiting(pending[d])
      <4>1. call[c].where = "group" /\ call[c].at = s
        BY <3>1, <3>3 DEF Waiting, At
      <4>2. call'[c] = [[call[c] EXCEPT !.by = s] EXCEPT !.where = "doomed"]
        BY <3>1, <3>3, <4>1 DEF Doomed
      <4>3. call'[c] = [call[c] EXCEPT !.where = "doomed", !.by = call[c].at]
        BY <1>0, <4>1, <4>2 DEF CallRecord
      <4> QED BY <4>1, <4>3 DEF Moves
    <3>4. CASE c \notin Waiting(pending[d])
      <4>1. call'[c] = F[c]
        BY <3>1, <3>4 DEF Doomed
      <4>2. F[c] = call[c]
        BY <3>4 DEF Waiting, At
      <4> QED BY <4>1, <4>2 DEF Moves
    <3> QED BY <3>3, <3>4
  <2> QED BY <2>1, <2>2
<1>2. CASE FinishConnected(s)
  <2>1. SUFFICES ASSUME NEW c \in Calls PROVE Moves(c)
    OBVIOUS
  <2>2. CASE c \notin Waiting(pending[d])
    <3>1. call'[c] = call[c]
      BY <1>2, <2>2 DEF FinishConnected
    <3> QED BY <3>1 DEF Moves
  <2>3. CASE c \in Waiting(pending[d])
    <3>1. pending[d] = s /\ call[c].where = "group" /\ call[c].at = s
      BY <1>2, <2>3 DEF FinishConnected, Superseded, Waiting, At
    <3>2. CASE call[c].alive
      <4>1. call'[c] = [call[c] EXCEPT !.where = "queued", !.at = s]
        BY <1>2, <2>3, <3>2 DEF FinishConnected
      <4>2. MovesTo(c, "queued")
        BY <1>0, <3>1, <4>1 DEF CallRecord, MovesTo
      <4> QED BY <3>1, <4>2 DEF Moves
    <3>3. CASE ~call[c].alive
      <4>1. call'[c] = [call[c] EXCEPT !.where = "doomed"]
        BY <1>2, <2>3, <3>3 DEF FinishConnected
      <4> QED BY <3>1, <4>1 DEF Moves, MovesTo, Held
    <3> QED BY <3>2, <3>3
  <2> QED BY <2>2, <2>3
<1> QED BY <1>1, <1>2

LEMMA CancelMoves ==
    ASSUME TypeOK, NEW d \in Dcs, CancelSetup(d, call)
    PROVE  \A c \in Calls : Moves(c)
<1> DEFINE C == IF pending[d] = Nothing THEN {} ELSE Waiting(pending[d])
<1>1. call \in [Calls -> CallRecord] /\ call' = Doomed(call, C)
  BY DEF TypeOK, CancelSetup
<1>2. \A b \in C : Held(b)
  BY DEF Waiting, At, Held
<1> HIDE DEF C
<1> QED BY ONLY <1>1, <1>2, DoomMoves

LEMMA InvokeMoves ==
    ASSUME Inv, ProcessInvoke
    PROVE  /\ \A c \in Calls : Moves(c)
           /\ call[Head(requests).call].where = "pool"
<1> DEFINE b == Head(requests).call
<1>0. call \in [Calls -> CallRecord] /\ b \in Calls
  BY InvokeTypes DEF Inv, TypeOK
<1>1. Invokes(1, b) /\ 1 \in DOMAIN requests
  BY QueueTyped DEF Inv, ProcessInvoke, Popped, Invokes
<1>2. call[b].where = "pool"
  BY <1>0, <1>1 DEF Inv, Enqueued
<1>3. CASE call' = Doomed(call, {b})
  <2>1. \A c \in {b} : Held(c)
    BY <1>2 DEF Held
  <2>2. \A c \in Calls : Moves(c)
    BY ONLY <1>0, <1>3, <2>1, DoomMoves
  <2> QED BY <1>2, <2>2
<1>4. ASSUME NEW w, NEW k, call' = [call EXCEPT ![b].where = w, ![b].at = k], Moves(b) PROVE \A c \in Calls : Moves(c)
  <2>1. ASSUME NEW c \in Calls, c # b PROVE Moves(c)
    BY <1>0, <1>4, <2>1 DEF Moves
  <2> QED BY <1>4, <2>1
<1>5. ASSUME NEW k \in Usable(Dc[b]), call' = [call EXCEPT ![b].where = "queued", ![b].at = k]
      PROVE  \A c \in Calls : Moves(c)
  <2>1. MovesAt(b, "queued", k)
    BY <1>0, <1>5 DEF MovesAt
  <2>2. Moves(b)
    BY <1>2, <2>1 DEF Moves
  <2> QED BY <1>4, <1>5, <2>2
<1>6. CASE StartSetup(b)
  <2> DEFINE s == IF pending[Dc[b]] = Nothing THEN started + 1 ELSE pending[Dc[b]]
  <2>1. call' = [call EXCEPT ![b].where = "group", ![b].at = s] /\ pending' = [pending EXCEPT ![Dc[b]] = s]
    BY <1>6 DEF StartSetup
  <2>2. pending'[Dc[b]] = s
    BY <1>0, <2>1, Limits DEF Inv, TypeOK
  <2>3. MovesAt(b, "group", pending'[Dc[b]]) /\ pending'[Dc[b]] \in {pending[Dc[b]], started + 1}
    BY <1>0, <2>1, <2>2 DEF MovesAt
  <2>4. Moves(b)
    BY <1>2, <2>3 DEF Moves
  <2> QED BY <1>2, <1>4, <2>1, <2>4
<1> QED BY <1>2, <1>3, <1>5, <1>6 DEF ProcessInvoke

LEMMA CallMoves == ASSUME Inv, Next PROVE \A c \in Calls : Moves(c)
<1>0. TypeOK /\ call \in [Calls -> CallRecord]
  BY DEF Inv, TypeOK
<1>1. CASE UNCHANGED call
  BY <1>1 DEF Moves
<1>2. ASSUME NEW C, call' = Doomed(call, C), \A b \in C : Held(b) PROVE \A c \in Calls : Moves(c)
  BY <1>0, <1>2, DoomMoves
<1>3. ASSUME NEW c \in Calls, Admit(c) \/ Submit(c) \/ Cancel(c) \/ Retire(c) \/ Receive(c) \/ Answer(c)
      PROVE  \A b \in Calls : Moves(b)
  BY <1>0, <1>3, CallerMoves
<1>4. ASSUME NEW s \in Ids, Setup(s) \/ PanicConnect(s) PROVE UNCHANGED call
  BY <1>4 DEF Setup, Connect, EndConnect, CancelConnect, AbortConnect, PanicConnect, callVars
<1>5. CASE Runner
  <2>1. ASSUME NEW s \in Ids, FinishFailed(s) \/ FinishConnected(s) PROVE \A b \in Calls : Moves(b)
    BY <2>1, FinishMoves
  <2>2. ASSUME NEW s \in Ids, JoinPanicked(s) \/ RecordCompletion(s) PROVE UNCHANGED call
    BY <2>2 DEF JoinPanicked, RecordCompletion, callVars
  <2>3. ASSUME NEW d \in Dcs, PollClosed(d) PROVE \A b \in Calls : Moves(b)
    <3> DEFINE gone == Waiting(pending[d]) \cap Gone
    <3>1. CASE CancelSetup(d, call)
      BY <1>0, <3>1, CancelMoves
    <3>2. CASE call' = Doomed(call, gone)
      <4>1. \A b \in gone : Held(b)
        BY DEF Waiting, At, Held
      <4> HIDE DEF gone
      <4> QED BY <1>2, <3>2, <4>1
    <3> QED BY <2>3, <3>1, <3>2 DEF PollClosed
  <2>4. CASE ProcessDisconnect
    <3>1. Head(requests).dc \in Dcs /\ CancelSetup(Head(requests).dc, call)
      BY <2>4, DisconnectCounted DEF Inv, ProcessDisconnect
    <3> QED BY <1>0, <3>1, CancelMoves
  <2>5. CASE Drain \/ DropFields
    <3> DEFINE C == At("pool") \cup At("group")
    <3>1. call' = Doomed(call, C)
      BY <2>5 DEF Drain, DropFields
    <3>2. \A b \in C : Held(b)
      BY <2>5 DEF At, Held, Drain, DropFields
    <3> HIDE DEF C
    <3> QED BY <1>2, <3>1, <3>2
  <2>6. CASE ProcessQuit \/ CloseAfterDrive \/ FinishRun
    BY <1>1, <2>6 DEF ProcessQuit, CloseAfterDrive, FinishRun, callVars
  <2> QED BY <1>1, <1>5, <2>1, <2>2, <2>3, <2>4, <2>5, <2>6, InvokeMoves DEF Runner
<1>6. ASSUME NEW k \in Ids, Break(k) \/ EndTask(k) PROVE \A c \in Calls : Moves(c)
  <2>1. call' = Doomed(call, On(k))
    BY <1>6 DEF Break, EndTask
  <2>2. \A b \in On(k) : Held(b)
    BY DEF On, At, Held
  <2> QED BY <1>2, <2>1, <2>2
<1>7. CASE Control \/ Tick
  <2>1. UNCHANGED call
    BY <1>7 DEF Control, Activate, BeginQuit, SendQuit, DropRunner, BeginDisconnect, SendDisconnect, Tick, callVars
  <2> QED BY <1>1, <2>1
<1> QED BY <1>1, <1>3, <1>4, <1>5, <1>6, <1>7 DEF Next, Connection


(* A setup keeps its datacenter, and a new one has the next number *)
SetupMoves(s) ==
    /\ setups'[s].dc = setups[s].dc
    /\ setups[s].state = "none" <=> setups'[s].state = "none"
    /\ setups[s] = NoSetup => setups'[s] = NoSetup
SetupStarts(c) ==
    /\ c = Head(requests).call /\ Usable(Dc[c]) = {}
    /\ pending[Dc[c]] = Nothing /\ started' = started + 1 /\ started + 1 \in Ids
    /\ setups' = [setups EXCEPT ![started + 1] =
                    [dc |-> Dc[c], state |-> "pacing", wait |-> pacing[Dc[c]].wait, aborted |-> FALSE,
                     owed |-> Max2(RetryDelay(pacing[Dc[c]].failures) - since[Dc[c]], 0)]]
    /\ pending' = [pending EXCEPT ![Dc[c]] = started + 1]

LEMMA SetupsMove ==
    ASSUME Inv, Next
    PROVE  \/ started' = started /\ \A s \in Ids : SetupMoves(s)
           \/ \E c \in Calls : ProcessInvoke /\ SetupStarts(c)
<1>0. TypeOK /\ setups \in [Ids -> SetupRecord] /\ started \in Nat /\ \A s \in Ids : setups[s] \in SetupRecord
  BY Limits DEF Inv, TypeOK
<1>1. ASSUME UNCHANGED <<setups, started>> PROVE started' = started /\ \A s \in Ids : SetupMoves(s)
  BY <1>1 DEF SetupMoves
<1>2. ASSUME NEW S, setups' = Aborted(S) PROVE \A s \in Ids : SetupMoves(s)
  <2>1. SUFFICES ASSUME NEW s \in Ids PROVE SetupMoves(s)
    OBVIOUS
  <2>2. /\ Aborted(S)[s].dc = setups[s].dc /\ Aborted(S)[s].state = setups[s].state
        /\ setups[s] = NoSetup => Aborted(S)[s] = NoSetup
    BY <1>0, AbortedSetups
  <2> QED BY <1>2, <2>2 DEF SetupMoves
<1>3. ASSUME NEW t \in Ids, setups[t].state # "none", NEW r \in SetupRecord, r.dc = setups[t].dc, r.state # "none",
             setups' = [setups EXCEPT ![t] = r]
      PROVE  \A s \in Ids : SetupMoves(s)
  <2>1. SUFFICES ASSUME NEW s \in Ids PROVE SetupMoves(s)
    OBVIOUS
  <2>2. CASE s = t
    <3>1. setups'[s] = r /\ setups[s] # NoSetup
      BY <1>0, <1>3, <2>2 DEF NoSetup
    <3> QED BY <1>3, <2>2, <3>1 DEF SetupMoves
  <2>3. CASE s # t
    <3>1. setups'[s] = setups[s]
      BY <1>0, <1>3, <2>3
    <3> QED BY <3>1 DEF SetupMoves
  <2> QED BY <2>2, <2>3
<1>4. ASSUME NEW t \in Ids, setups[t].state # "none", setups' = [setups EXCEPT ![t] = Joined(t)]
      PROVE  \A s \in Ids : SetupMoves(s)
  <2>1. Joined(t) \in SetupRecord /\ Joined(t).dc = setups[t].dc /\ Joined(t).state # "none"
    BY <1>0 DEF Joined, NoSetup, SetupRecord
  <2> QED BY <1>3, <1>4, <2>1
<1>5. ASSUME NEW t \in Ids, setups[t].state # "none",
             NEW w \in {"connecting", "connected", "failed", "invalid", "dropped", "panicked"},
             setups' = [setups EXCEPT ![t].state = w]
      PROVE  \A s \in Ids : SetupMoves(s)
  <2> DEFINE r == [setups[t] EXCEPT !.state = w]
  <2>1. r \in SetupRecord /\ r.dc = setups[t].dc /\ r.state # "none"
    BY <1>0 DEF SetupRecord
  <2>2. setups' = [setups EXCEPT ![t] = r]
    BY <1>0, <1>5
  <2> HIDE DEF r
  <2> QED BY <1>3, <1>5, <2>1, <2>2
<1>6. ASSUME NEW s \in Ids, Setup(s) \/ PanicConnect(s)
      PROVE  started' = started /\ \A t \in Ids : SetupMoves(t)
  <2>1. started' = started
    BY <1>6 DEF Setup, Connect, EndConnect, CancelConnect, AbortConnect, PanicConnect
  <2>2. setups[s].state # "none"
    BY <1>6 DEF Setup, Connect, EndConnect, CancelConnect, AbortConnect, PanicConnect, Live
  <2>3. \/ setups' = [setups EXCEPT ![s] = Joined(s)]
        \/ \E w \in {"connecting", "connected", "failed", "invalid", "dropped", "panicked"} :
              setups' = [setups EXCEPT ![s].state = w]
    BY <1>6 DEF Setup, Connect, EndConnect, CancelConnect, AbortConnect, PanicConnect
  <2> QED BY <1>4, <1>5, <2>1, <2>2, <2>3
<1>7. ASSUME NEW s \in Ids, FinishFailed(s) \/ FinishConnected(s)
      PROVE  started' = started /\ \A t \in Ids : SetupMoves(t)
  <2>1. started' = started /\ setups[s].state # "none" /\ setups' = [setups EXCEPT ![s] = Joined(s)]
    BY <1>7 DEF FinishFailed, FinishConnected
  <2> QED BY <1>4, <2>1
<1>8. CASE Tick
  <2>1. started' = started
    BY <1>8 DEF Tick
  <2>2. SUFFICES ASSUME NEW s \in Ids PROVE SetupMoves(s)
    BY <2>1
  <2>3. setups'[s] = [setups[s] EXCEPT !.wait = Max2(@ - 1, 0), !.owed = Max2(@ - 1, 0)]
    BY <1>8 DEF Tick
  <2>4. setups'[s].dc = setups[s].dc /\ setups'[s].state = setups[s].state
    BY <1>0, <2>3 DEF SetupRecord
  <2>5. setups[s] = NoSetup => setups'[s] = NoSetup
    <3>1. SUFFICES ASSUME setups[s] = NoSetup PROVE setups'[s] = NoSetup
      OBVIOUS
    <3>2. setups[s].wait = 0 /\ setups[s].owed = 0
      BY <3>1 DEF NoSetup
    <3>3. Max2(setups[s].wait - 1, 0) = 0 /\ Max2(setups[s].owed - 1, 0) = 0
      BY <3>2 DEF Max2
    <3>4. setups'[s] = [NoSetup EXCEPT !.wait = 0, !.owed = 0]
      BY <2>3, <3>1, <3>3
    <3> QED BY <3>4 DEF NoSetup
  <2> QED BY <2>4, <2>5 DEF SetupMoves
<1>9. CASE ProcessInvoke
  <2> DEFINE c == Head(requests).call
             d == Dc[c]
  <2>1. c \in Calls /\ d \in Dcs /\ pending \in [Dcs -> Ids \cup {Nothing}]
    BY <1>9, InvokeTypes, Limits DEF Inv, TypeOK
  <2>2. CASE UNCHANGED <<setups, started>>
    BY <1>1, <2>2
  <2>3. CASE StartSetup(c) /\ pending[d] # Nothing
    <3>1. pending[d] \in Nat /\ pending[d] <= started
      BY <2>1, <2>3, <1>0 DEF Inv, Numbered
    <3>2. UNCHANGED <<setups, started>>
      BY <1>0, <2>3, <3>1 DEF StartSetup, Max2
    <3> QED BY <1>1, <3>2
  <2>4. CASE StartSetup(c) /\ Usable(d) = {} /\ pending[d] = Nothing
    <3>1. started + 1 \in Ids /\ started' = Max2(started, started + 1)
      BY <2>4 DEF StartSetup
    <3>2. started' = started + 1
      BY <1>0, <3>1 DEF Max2
    <3>3. SetupStarts(c)
      BY <2>4, <3>1, <3>2 DEF StartSetup, SetupStarts
    <3> QED BY <1>9, <2>1, <3>3
  <2> QED BY <1>9, <2>2, <2>3, <2>4 DEF ProcessInvoke
<1>10. CASE ProcessDisconnect
  <2>1. started' = started /\ setups' = Aborted({pending[Head(requests).dc]} \cap Ids)
    BY <1>10 DEF ProcessDisconnect, CancelSetup
  <2> QED BY <1>2, <2>1
<1>11. ASSUME NEW d \in Dcs, PollClosed(d) PROVE started' = started /\ \A s \in Ids : SetupMoves(s)
  <2>1. started' = started /\ (setups' = Aborted({pending[d]} \cap Ids) \/ UNCHANGED setups)
    BY <1>11 DEF PollClosed, CancelSetup
  <2> QED BY <1>1, <1>2, <2>1
<1>12. CASE Drain \/ DropFields
  <2>1. started' = started /\ setups' = Aborted(Ids)
    BY <1>12 DEF Drain, DropFields
  <2> QED BY <1>2, <2>1
<1>13. ASSUME NEW s \in Ids, JoinPanicked(s) \/ RecordCompletion(s) PROVE UNCHANGED <<setups, started>>
  BY <1>13 DEF JoinPanicked, RecordCompletion, taskVars
<1>14. CASE ProcessQuit \/ CloseAfterDrive \/ FinishRun
  BY <1>1, <1>14 DEF ProcessQuit, CloseAfterDrive, FinishRun, taskVars
<1>15. ASSUME NEW k \in Ids, Break(k) \/ EndTask(k) PROVE UNCHANGED <<setups, started>>
  BY <1>15 DEF Break, EndTask
<1>16. CASE Control
  <2>1. UNCHANGED <<setups, started>>
    BY <1>16 DEF Control, Activate, BeginQuit, SendQuit, DropRunner, BeginDisconnect, SendDisconnect, taskVars
  <2> QED BY <1>1, <2>1
<1>17. ASSUME NEW c \in Calls, Admit(c) \/ Submit(c) \/ Cancel(c) \/ Retire(c) \/ Receive(c) \/ Answer(c)
       PROVE  UNCHANGED <<setups, started>>
  BY <1>17 DEF Admit, Submit, AdmitBytes, TryRoute, SendRoute, SendPool, Cancel, Retire, DropPermit, Respond,
               Receive, Answer, taskVars
<1>18. CASE Runner
  BY <1>1, <1>7, <1>9, <1>10, <1>11, <1>12, <1>13, <1>14, <1>18 DEF Runner
<1> QED BY <1>1, <1>6, <1>8, <1>15, <1>16, <1>17, <1>18 DEF Next, Connection


(* Connections, setups that are waited for and routes only go, unless a setup is
   started or has connected *)
Shrinks ==
    /\ started' = started /\ listed' \subseteq listed
    /\ \A s \in Ids : SetupMoves(s)
    /\ \A k \in Ids : /\ conns'[k].state = "open" => conns[k].state = "open"
                      /\ conns[k].state = "none" => conns'[k].state = "none"
    /\ \A d \in Dcs : pending'[d] \in {pending[d], Nothing}
    /\ \A d \in Dcs : routes'.entries[d] # Nothing =>
                         routes'.entries[d] = routes.entries[d] /\ routes.entries[d] \in listed'

LEMMA TasksMove ==
    ASSUME Inv, Next
    PROVE  \/ Shrinks
           \/ \E s \in Ids : FinishConnected(s) /\ started' = started /\ \A t \in Ids : SetupMoves(t)
           \/ \E c \in Calls : ProcessInvoke /\ SetupStarts(c)
<1>1. SUFFICES ASSUME started' = started, \A t \in Ids : SetupMoves(t)
               PROVE  Shrinks \/ \E s \in Ids : FinishConnected(s)
  BY SetupsMove
<1>0. /\ routes \in RoutesType /\ routes.entries \in [Dcs -> Ids \cup {Nothing}] /\ pending \in [Dcs -> Ids \cup {Nothing}]
      /\ conns \in [Ids -> ConnRecord] /\ listed \subseteq Ids
      /\ \A d \in Dcs : routes.entries[d] # Nothing =>
            routes.entries[d] \in listed /\ setups[routes.entries[d]].dc = d
  BY DEF Inv, TypeOK, RoutesType, Single
<1> DEFINE SameConns == \A k \in Ids : /\ conns'[k].state = "open" => conns[k].state = "open"
                                       /\ conns[k].state = "none" => conns'[k].state = "none"
           SamePending == \A d \in Dcs : pending'[d] \in {pending[d], Nothing}
           SameRoutes == \A d \in Dcs : routes'.entries[d] # Nothing =>
                         routes'.entries[d] = routes.entries[d] /\ routes.entries[d] \in listed'
<1>2. ASSUME SameConns, SamePending, SameRoutes, listed' \subseteq listed PROVE Shrinks
  BY <1>1, <1>2 DEF Shrinks
<1>3. UNCHANGED conns => SameConns
  OBVIOUS
<1>4. UNCHANGED pending => SamePending
  OBVIOUS
<1>5. UNCHANGED <<routes, listed>> => SameRoutes
  BY <1>0
<1>6. ASSUME UNCHANGED <<conns, pending, routes, listed>> PROVE Shrinks
  BY <1>2, <1>3, <1>4, <1>5, <1>6
<1>7. ASSUME UNCHANGED <<conns, pending, listed>>,
             \A d \in Dcs : routes'.entries[d] \in {routes.entries[d], Nothing}
      PROVE  Shrinks
  <2>1. SameRoutes
    BY <1>0, <1>7
  <2> QED BY <1>2, <1>3, <1>4, <1>7, <2>1
<1>8. \A d \in Dcs : CloseRoutes(routes).entries[d] = Nothing
  BY <1>0 DEF CloseRoutes, RoutesType
<1> HIDE DEF SameConns, SamePending, SameRoutes
<1>9. ASSUME NEW c \in Calls, Admit(c) \/ Submit(c) \/ Cancel(c) \/ Retire(c) \/ Receive(c) \/ Answer(c)
      PROVE  Shrinks
  <2>1. UNCHANGED <<conns, pending, routes, listed>>
    BY <1>9 DEF Admit, Submit, AdmitBytes, TryRoute, SendRoute, SendPool, Cancel, Retire, DropPermit, Respond,
                Receive, Answer, taskVars
  <2> QED BY <1>6, <2>1
<1>10. ASSUME NEW s \in Ids, Setup(s) \/ PanicConnect(s) \/ JoinPanicked(s) PROVE Shrinks
  <2>1. UNCHANGED <<conns, pending, routes, listed>>
    BY <1>10 DEF Setup, Connect, EndConnect, CancelConnect, AbortConnect, PanicConnect, JoinPanicked, taskVars
  <2> QED BY <1>6, <2>1
<1>11. CASE Tick \/ ProcessQuit \/ FinishRun
  <2>1. UNCHANGED <<conns, pending, routes, listed>>
    BY <1>11 DEF Tick, ProcessQuit, FinishRun, taskVars
  <2> QED BY <1>6, <2>1
<1>12. CASE Control
  <2>1. UNCHANGED <<conns, pending, listed>>
    BY <1>12 DEF Control, Activate, BeginQuit, SendQuit, DropRunner, BeginDisconnect, SendDisconnect, taskVars
  <2>2. ASSUME NEW e \in Dcs, BeginDisconnect(e) PROVE \A d \in Dcs : routes'.entries[d] \in {routes.entries[d], Nothing}
    BY <1>0, <2>2 DEF BeginDisconnect, RoutesType
  <2>3. Activate => \A d \in Dcs : routes'.entries[d] \in {routes.entries[d], Nothing}
    BY <1>0 DEF Activate, RoutesType
  <2>4. BeginQuit \/ DropRunner => \A d \in Dcs : routes'.entries[d] \in {routes.entries[d], Nothing}
    BY <1>8 DEF BeginQuit, DropRunner
  <2>5. SendQuit => UNCHANGED routes
    BY DEF SendQuit
  <2>6. \A d \in Dcs : SendDisconnect(d) => UNCHANGED routes
    BY DEF SendDisconnect
  <2>7. \A d \in Dcs : routes'.entries[d] \in {routes.entries[d], Nothing}
    BY <1>12, <2>2, <2>3, <2>4, <2>5, <2>6 DEF Control
  <2> QED BY <1>7, <2>1, <2>7
<1>13. CASE CloseAfterDrive
  <2>1. UNCHANGED <<conns, pending, listed>> /\ routes' = CloseRoutes(routes)
    BY <1>13 DEF CloseAfterDrive, taskVars
  <2>2. \A d \in Dcs : routes'.entries[d] \in {routes.entries[d], Nothing}
    BY <1>8, <2>1
  <2> QED BY <1>7, <2>1, <2>2
<1>14. ASSUME NEW s \in Ids, FinishFailed(s) PROVE Shrinks
  <2>1. UNCHANGED <<conns, routes, listed>>
    BY <1>14 DEF FinishFailed
  <2>2. pending' = pending \/ pending' = [pending EXCEPT ![setups[s].dc] = Nothing]
    BY <1>14 DEF FinishFailed
  <2>3. SamePending
    BY <1>0, <2>2 DEF SamePending
  <2> QED BY <1>2, <1>3, <1>5, <2>1, <2>3
<1>15. ASSUME NEW k \in Ids, RecordCompletion(k) PROVE Shrinks
  <2>1. UNCHANGED pending /\ listed' = {j \in listed : ~Ended(j)}
    BY <1>15 DEF RecordCompletion
  <2>2. SameConns
    <3>1. conns' = [conns EXCEPT ![k] = [NoConn EXCEPT !.state = "joined"]] /\ conns[k].state # "none"
      BY <1>15 DEF RecordCompletion, Ended
    <3> QED BY <1>0, <3>1 DEF SameConns, NoConn
  <2>3. SameRoutes
    <3>1. routes' = [routes EXCEPT !.entries = [e \in Dcs |->
                        IF routes.entries[e] # Nothing /\ IsOpen(routes.entries[e]) THEN routes.entries[e] ELSE Nothing]]
      BY <1>15 DEF RecordCompletion
    <3>2. \A d \in Dcs : routes'.entries[d] =
             IF routes.entries[d] # Nothing /\ IsOpen(routes.entries[d]) THEN routes.entries[d] ELSE Nothing
      BY <1>0, <3>1 DEF RoutesType
    <3>3. ASSUME NEW d \in Dcs, routes.entries[d] # Nothing, IsOpen(routes.entries[d])
          PROVE  routes.entries[d] \in listed'
      BY <1>0, <2>1, <3>3 DEF IsOpen, Ended
    <3> QED BY <3>2, <3>3 DEF SameRoutes
  <2> QED BY <1>2, <1>4, <2>1, <2>2, <2>3
<1>16. ASSUME NEW d \in Dcs, PollClosed(d) PROVE Shrinks
  <2>1. UNCHANGED <<conns, routes, listed>>
    BY <1>16 DEF PollClosed
  <2>2. pending' = pending \/ pending' = [pending EXCEPT ![d] = Nothing]
    BY <1>16 DEF PollClosed, CancelSetup
  <2>3. SamePending
    BY <1>0, <2>2 DEF SamePending
  <2> QED BY <1>2, <1>3, <1>5, <2>1, <2>3
<1>17. CASE ProcessInvoke
  <2> DEFINE d == Dc[Head(requests).call]
  <2>1. UNCHANGED <<conns, routes, listed>> /\ started \in Nat
    BY <1>17 DEF ProcessInvoke, Inv, TypeOK
  <2>2. d \in Dcs
    BY <1>17, InvokeTypes, Limits
  <2>3. CASE UNCHANGED pending
    BY <1>6, <2>1, <2>3
  <2>4. CASE StartSetup(Head(requests).call)
    <3>1. pending[d] # Nothing
      <4>1. pending[d] = Nothing => started' = Max2(started, started + 1)
        BY <2>4 DEF StartSetup
      <4>2. Max2(started, started + 1) # started
        BY <2>1 DEF Max2
      <4> QED BY <1>1, <4>1, <4>2
    <3>2. pending' = [pending EXCEPT ![d] = pending[d]]
      BY <2>4, <3>1 DEF StartSetup
    <3>3. SamePending
      BY <1>0, <2>2, <3>2 DEF SamePending
    <3> QED BY <1>2, <1>3, <1>5, <2>1, <3>3
  <2> QED BY <1>17, <2>3, <2>4 DEF ProcessInvoke
<1>18. CASE ProcessDisconnect
  <2> DEFINE d == Head(requests).dc
             K == {k \in listed : setups[k].dc = d}
  <2>1. d \in Dcs /\ pending' = [pending EXCEPT ![d] = Nothing] /\ listed' = listed \ K /\ conns' = Abort(K)
    BY <1>18, DisconnectCounted DEF Inv, ProcessDisconnect, CancelSetup
  <2>2. SamePending
    BY <1>0, <2>1 DEF SamePending
  <2>3. SameConns
    BY <1>0, <2>1, AbortedConnections DEF SameConns
  <2>4. routes' = [routes EXCEPT !.entries[d] = Nothing, !.disconnecting[d] = @ - 1]
    BY <1>18 DEF ProcessDisconnect
  <2>5. \A e \in Dcs : routes'.entries[e] = IF e = d THEN Nothing ELSE routes.entries[e]
    BY <1>0, <2>1, <2>4 DEF RoutesType
  <2>6. SameRoutes
    BY <1>0, <2>1, <2>5 DEF SameRoutes
  <2> QED BY <1>2, <2>1, <2>2, <2>3, <2>6
<1>19. CASE Drain \/ DropFields
  <2>1. listed' = {} /\ UNCHANGED routes /\ routes.stopping
    BY <1>19 DEF Drain, DropFields, Inv, Stopping
  <2>2. \A d \in Dcs : routes.entries[d] = Nothing
    BY <2>1 DEF Inv, Stopping
  <2>3. SameRoutes
    BY <2>1, <2>2 DEF SameRoutes
  <2>4. SamePending
    BY <1>19 DEF Drain, DropFields, SamePending
  <2>5. SameConns
    BY <1>0, <1>3, <1>19, AbortedConnections DEF Drain, DropFields, SameConns
  <2> QED BY <1>2, <2>1, <2>3, <2>4, <2>5
<1>20. ASSUME NEW k \in Ids, Break(k) \/ EndTask(k) PROVE Shrinks
  <2>1. UNCHANGED <<pending, routes, listed>>
    BY <1>20 DEF Break, EndTask
  <2>2. SameConns
    <3>1. PICK how \in {"closed", "broken", "ended", "cancelled", "panicked"} : conns' = [conns EXCEPT ![k].state = how]
      BY <1>20 DEF Break, EndTask
    <3>2. conns[k].state # "none"
      BY <1>20 DEF Break, EndTask, IsOpen
    <3> QED BY <1>0, <3>1, <3>2 DEF SameConns, ConnRecord
  <2> QED BY <1>2, <1>4, <1>5, <2>1, <2>2
<1>21. CASE Runner
  BY <1>10, <1>11, <1>13, <1>14, <1>15, <1>16, <1>17, <1>18, <1>19, <1>21 DEF Runner
<1> QED BY <1>9, <1>10, <1>11, <1>12, <1>20, <1>21 DEF Next, Connection


(* Only a disconnect that returns makes setups old *)
LEMMA OldMoves ==
    ASSUME Inv, Next
    PROVE  \A d \in Dcs : old'[d] = old[d] \/ (SendDisconnect(d) /\ old'[d] = 1 .. started /\ open)
<1>1. ASSUME UNCHANGED old PROVE \A d \in Dcs : old'[d] = old[d]
  BY <1>1
<1>2. ASSUME NEW c \in Calls, Admit(c) \/ Submit(c) \/ Cancel(c) \/ Retire(c) \/ Receive(c) \/ Answer(c)
      PROVE  UNCHANGED old
  BY <1>2 DEF Admit, Submit, AdmitBytes, TryRoute, SendRoute, SendPool, Cancel, Retire, DropPermit, Respond,
              Receive, Answer
<1>3. ASSUME NEW s \in Ids, Setup(s) \/ PanicConnect(s) \/ Break(s) \/ EndTask(s) PROVE UNCHANGED old
  BY <1>3 DEF Setup, Connect, EndConnect, CancelConnect, AbortConnect, PanicConnect, Break, EndTask
<1>4. CASE Runner
  BY <1>1, <1>4 DEF Runner, FinishFailed, FinishConnected, JoinPanicked, RecordCompletion, PollClosed, ProcessInvoke,
              ProcessDisconnect, ProcessQuit, CloseAfterDrive, Drain, FinishRun, DropFields
<1>5. CASE Tick \/ Activate \/ BeginQuit \/ SendQuit \/ DropRunner \/ \E d \in Dcs : BeginDisconnect(d)
  BY <1>1, <1>5 DEF Tick, Activate, BeginQuit, SendQuit, DropRunner, BeginDisconnect
<1>6. ASSUME NEW e \in Dcs, SendDisconnect(e), NEW d \in Dcs
      PROVE  old'[d] = old[d] \/ (SendDisconnect(d) /\ old'[d] = 1 .. started /\ open)
  <2>1. old' = [old EXCEPT ![e] = IF open THEN 1 .. started ELSE old[e]] /\ old \in [Dcs -> SUBSET Ids]
    BY <1>6 DEF SendDisconnect, Inv, TypeOK
  <2>2. CASE d # e
    BY <2>1, <2>2
  <2>3. CASE d = e
    <3>1. old'[d] = IF open THEN 1 .. started ELSE old[d]
      BY <2>1, <2>3
    <3> QED BY <1>6, <2>3, <3>1
  <2> QED BY <2>2, <2>3
<1>7. CASE Control
  BY <1>5, <1>6, <1>7 DEF Control
<1> QED BY <1>1, <1>2, <1>3, <1>4, <1>5, <1>7 DEF Next, Connection

-----------------------------------------------------------------------------
(* The parts of the invariant, one by one *)

LEMMA NextNumbered == ASSUME Inv, Next PROVE Numbered'
<1>0. /\ started \in Nat /\ setups \in [Ids -> SetupRecord] /\ conns \in [Ids -> ConnRecord] /\ Ids \subseteq Nat
      /\ pending \in [Dcs -> Ids \cup {Nothing}] /\ Nothing = 0
  BY Limits DEF Inv, TypeOK
<1>1. started' \in Nat /\ started' >= started
  <2>1. started' \in {started, started + 1}
    BY TasksMove DEF Shrinks, SetupStarts
  <2> QED BY <1>0, <2>1
<1>2. /\ \A s \in Ids : s > started => setups[s] = NoSetup
      /\ \A s \in Ids : setups[s].state # "none" => setups[s].dc \in Dcs
      /\ \A k \in Ids : conns[k].state # "none" => setups[k].state # "none"
      /\ listed \subseteq 1 .. started
      /\ \A d \in Dcs : pending[d] # Nothing => pending[d] \in 1 .. started /\ setups[pending[d]].dc = d
      /\ \A d \in Dcs : old[d] \subseteq 1 .. started
      /\ \A c \in Calls : call[c].barred \subseteq 1 .. started
  BY DEF Inv, Numbered
<1>3. \A d \in Dcs : old'[d] \subseteq 1 .. started'
  BY <1>0, <1>1, <1>2, OldMoves
<1>4. \A c \in Calls : call'[c].barred \subseteq 1 .. started'
  <2>1. SUFFICES ASSUME NEW c \in Calls PROVE call'[c].barred \subseteq 1 .. started
    BY <1>0, <1>1
  <2>2. call[c] \in CallRecord /\ Dc[c] \in Dcs
    BY Limits DEF Inv, TypeOK
  <2>3. call'[c].barred \in {call[c].barred, old[Dc[c]], {}}
    <3>1. Moves(c)
      BY CallMoves
    <3> QED BY <2>2, <3>1 DEF Moves, MovesTo, MovesAt, CallRecord, NewCall
  <2> QED BY <1>2, <2>2, <2>3
<1>5. CASE Shrinks
  <2>1. \A s \in Ids : SetupMoves(s)
    BY <1>5 DEF Shrinks
  <2>2. /\ \A s \in Ids : s > started' => setups'[s] = NoSetup
        /\ \A s \in Ids : setups'[s].state # "none" => setups'[s].dc \in Dcs
        /\ \A k \in Ids : conns'[k].state # "none" => setups'[k].state # "none"
    BY <1>2, <1>5, <2>1 DEF Shrinks, SetupMoves
  <2>3. listed' \subseteq 1 .. started'
    BY <1>2, <1>5 DEF Shrinks
  <2>4. \A d \in Dcs : pending'[d] # Nothing => pending'[d] \in 1 .. started' /\ setups'[pending'[d]].dc = d
    BY <1>0, <1>2, <1>5, <2>1 DEF Shrinks, SetupMoves
  <2> QED BY <1>3, <1>4, <2>2, <2>3, <2>4 DEF Numbered
<1>6. ASSUME NEW t \in Ids, FinishConnected(t), started' = started, \A s \in Ids : SetupMoves(s) PROVE Numbered'
  <2>1. setups[t].state = "connected" /\ setups[t].dc \in Dcs
    BY <1>2, <1>6 DEF FinishConnected
  <2>2. t \in 1 .. started
    BY <1>0, <1>2, <2>1, Limits DEF NoSetup
  <2>3. /\ \A s \in Ids : s > started' => setups'[s] = NoSetup
        /\ \A s \in Ids : setups'[s].state # "none" => setups'[s].dc \in Dcs
    BY <1>2, <1>6 DEF SetupMoves
  <2>4. \A k \in Ids : conns'[k].state # "none" => setups'[k].state # "none"
    <3>1. conns' = [conns EXCEPT ![t].state = "open"]
      BY <1>6 DEF FinishConnected
    <3>2. \A k \in Ids : k # t => conns'[k] = conns[k]
      BY <1>0, <3>1
    <3> QED BY <1>2, <1>6, <2>1, <3>2 DEF SetupMoves
  <2>5. listed' \subseteq 1 .. started'
    BY <1>2, <1>6, <2>2 DEF FinishConnected
  <2>6. \A d \in Dcs : pending'[d] # Nothing => pending'[d] \in 1 .. started' /\ setups'[pending'[d]].dc = d
    <3>1. \A d \in Dcs : pending'[d] \in {pending[d], Nothing}
      BY <1>0, <1>6 DEF FinishConnected
    <3> QED BY <1>0, <1>2, <1>6, <3>1 DEF SetupMoves
  <2> QED BY <1>3, <1>4, <2>3, <2>4, <2>5, <2>6 DEF Numbered
<1>7. ASSUME NEW c \in Calls, ProcessInvoke, SetupStarts(c) PROVE Numbered'
  <2>1. UNCHANGED <<conns, listed>> /\ Dc[c] \in Dcs
    BY <1>7, Limits DEF ProcessInvoke
  <2>2. started' = started + 1 /\ started + 1 \in Ids
    BY <1>7 DEF SetupStarts
  <2>3. setups'[started + 1].dc = Dc[c] /\ setups'[started + 1].state = "pacing"
    BY <1>0, <1>7, <2>2 DEF SetupStarts
  <2>4. \A s \in Ids : s # started + 1 => setups'[s] = setups[s]
    BY <1>0, <1>7 DEF SetupStarts
  <2>5. /\ \A s \in Ids : s > started' => setups'[s] = NoSetup
        /\ \A s \in Ids : setups'[s].state # "none" => setups'[s].dc \in Dcs
        /\ \A k \in Ids : conns'[k].state # "none" => setups'[k].state # "none"
    <3>1. ASSUME NEW s \in Ids, s > started' PROVE setups'[s] = NoSetup
      <4>1. s > started /\ s # started + 1
        BY <1>0, <2>2, <3>1
      <4> QED BY <1>2, <2>4, <4>1
    <3>2. \A s \in Ids : setups'[s].state # "none" => setups'[s].dc \in Dcs
      BY <1>2, <2>1, <2>3, <2>4
    <3>3. \A k \in Ids : conns'[k].state # "none" => setups'[k].state # "none"
      BY <1>2, <2>1, <2>3, <2>4
    <3> QED BY <3>1, <3>2, <3>3
  <2>6. listed' \subseteq 1 .. started'
    BY <1>0, <1>2, <2>1, <2>2
  <2>7. ASSUME NEW d \in Dcs, pending'[d] # Nothing
        PROVE  pending'[d] \in 1 .. started' /\ setups'[pending'[d]].dc = d
    <3>1. CASE d = Dc[c]
      <4>1. pending'[d] = started + 1
        BY <1>0, <1>7, <3>1 DEF SetupStarts
      <4> QED BY <1>0, <2>2, <2>3, <3>1, <4>1
    <3>2. CASE d # Dc[c]
      <4>1. pending'[d] = pending[d]
        BY <1>0, <1>7, <3>2 DEF SetupStarts
      <4>2. pending[d] \in 1 .. started /\ setups[pending[d]].dc = d /\ pending[d] \in Ids
        BY <1>0, <1>2, <2>7, <4>1
      <4> QED BY <1>0, <2>2, <2>4, <4>1, <4>2
    <3> QED BY <3>1, <3>2
  <2> QED BY <1>3, <1>4, <2>5, <2>6, <2>7 DEF Numbered
<1> QED BY <1>5, <1>6, <1>7, TasksMove

LEMMA NextSingle == ASSUME Inv, Next PROVE Single'
<1>0. /\ conns \in [Ids -> ConnRecord] /\ pending \in [Dcs -> Ids \cup {Nothing}] /\ listed \subseteq Ids
      /\ setups \in [Ids -> SetupRecord] /\ routes \in RoutesType /\ routes.entries \in [Dcs -> Ids \cup {Nothing}]
      /\ Nothing = 0 /\ Ids \subseteq Nat /\ 0 \notin Ids
  BY Limits DEF Inv, TypeOK, RoutesType
<1>1. \A d \in Dcs :
        /\ \A j, k \in UsableAt(d) : j = k
        /\ pending[d] # Nothing => UsableAt(d) = {}
        /\ routes.entries[d] # Nothing => routes.entries[d] \in listed /\ setups[routes.entries[d]].dc = d
  BY DEF Inv, Single
<1>2. CASE Shrinks
  <2>1. \A s \in Ids : setups'[s].dc = setups[s].dc
    BY <1>2 DEF Shrinks, SetupMoves
  <2>2. \A d \in Dcs : UsableAt(d)' \subseteq UsableAt(d)
    BY <1>0, <1>2, <2>1 DEF UsableAt, IsOpen, Shrinks
  <2>3. \A d \in Dcs : pending'[d] # Nothing => UsableAt(d)' = {}
    BY <1>1, <1>2, <2>2 DEF Shrinks
  <2>4. \A d \in Dcs : routes'.entries[d] # Nothing =>
           routes'.entries[d] \in listed' /\ setups'[routes'.entries[d]].dc = d
    BY <1>0, <1>1, <1>2, <2>1, ZenonT(40) DEF Shrinks
  <2> QED BY <1>1, <2>2, <2>3, <2>4 DEF Single
<1>3. ASSUME NEW t \in Ids, FinishConnected(t), \A s \in Ids : SetupMoves(s) PROVE Single'
  <2>1. PICK e \in Dcs : /\ e = setups[t].dc /\ pending[e] = t /\ listed' = listed \cup {t}
                         /\ conns' = [conns EXCEPT ![t].state = "open"]
    BY <1>3, FinishTypes DEF FinishConnected, Superseded
  <2>2. \A s \in Ids : setups'[s].dc = setups[s].dc
    BY <1>3 DEF SetupMoves
  <2>3. UsableAt(e) = {}
    BY <1>0, <1>1, <2>1
  <2>4. \A k \in Ids : k # t => conns'[k] = conns[k]
    BY <1>0, <2>1
  <2>5. UsableAt(e)' \subseteq {t}
    BY <1>0, <2>1, <2>2, <2>3, <2>4 DEF UsableAt, IsOpen
  <2>6. \A d \in Dcs : d # e => UsableAt(d)' \subseteq UsableAt(d)
    BY <1>0, <2>1, <2>2, <2>4 DEF UsableAt, IsOpen
  <2>7. \A d \in Dcs : pending'[d] = IF d = e THEN Nothing ELSE pending[d]
    BY <1>0, <1>3, <2>1 DEF FinishConnected
  <2>8. \A d \in Dcs : routes'.entries[d] = routes.entries[d] \/ (d = e /\ routes'.entries[d] = t)
    <3>1. routes' = routes \/ routes' = [routes EXCEPT !.entries[e] = t]
      BY <1>3, <2>1 DEF FinishConnected, Publish
    <3>2. CASE routes' = [routes EXCEPT !.entries[e] = t]
      BY <1>0, <3>2 DEF RoutesType
    <3> QED BY <3>1, <3>2
  <2>9. \A d \in Dcs : routes'.entries[d] # Nothing =>
           routes'.entries[d] \in listed' /\ setups'[routes'.entries[d]].dc = d
    BY <1>0, <1>1, <2>1, <2>2, <2>8
  <2>10. \A d \in Dcs : /\ \A j, k \in UsableAt(d)' : j = k
                        /\ pending'[d] # Nothing => UsableAt(d)' = {}
    <3>1. ASSUME NEW d \in Dcs, d # e
          PROVE  (\A j, k \in UsableAt(d)' : j = k) /\ (pending'[d] # Nothing => UsableAt(d)' = {})
      BY <1>1, <2>6, <2>7, <3>1
    <3>2. (\A j, k \in UsableAt(e)' : j = k) /\ pending'[e] = Nothing
      BY <2>5, <2>7
    <3> QED BY <3>1, <3>2
  <2> QED BY <2>9, <2>10 DEF Single
<1>4. ASSUME NEW c \in Calls, ProcessInvoke, SetupStarts(c) PROVE Single'
  <2>1. UNCHANGED <<conns, listed, routes>>
    BY <1>4 DEF ProcessInvoke
  <2>2. listed \subseteq 1 .. started /\ started + 1 \notin listed
    BY Limits DEF Inv, Numbered, TypeOK
  <2>3. \A s \in listed : setups'[s] = setups[s]
    BY <1>0, <1>4, <2>2 DEF SetupStarts
  <2>4. \A d \in Dcs : UsableAt(d)' = UsableAt(d)
    BY <2>1, <2>3 DEF UsableAt, IsOpen
  <2>5. \A d \in Dcs : pending'[d] # Nothing => UsableAt(d) = {}
    <3>1. UsableAt(Dc[c]) = {}
      BY <1>4 DEF SetupStarts, UsableAt, Usable
    <3>2. \A d \in Dcs : d # Dc[c] => pending'[d] = pending[d]
      BY <1>0, <1>4 DEF SetupStarts
    <3> QED BY <1>1, <3>1, <3>2
  <2> QED BY <1>1, <2>1, <2>2, <2>3, <2>4, <2>5 DEF Single
<1> QED BY <1>2, <1>3, <1>4, TasksMove


LEMMA NextStopping == ASSUME Inv, Next PROVE Stopping'
<1> DEFINE Late == {"draining", "joining", "dropping", "stopped"}
<1>0. /\ routes \in RoutesType /\ routes.entries \in [Dcs -> Ids \cup {Nothing}]
      /\ routes.stopping => \A d \in Dcs : routes.entries[d] = Nothing
      /\ phase \in Late => routes.stopping
  BY DEF Inv, TypeOK, RoutesType, Stopping
<1>1. ASSUME UNCHANGED <<routes, phase>> PROVE Stopping'
  BY <1>0, <1>1 DEF Stopping
<1>2. ASSUME routes' = CloseRoutes(routes) PROVE Stopping'
  <2>1. routes'.stopping /\ \A d \in Dcs : routes'.entries[d] = Nothing
    BY <1>0, <1>2 DEF CloseRoutes, RoutesType
  <2> QED BY <2>1 DEF Stopping
<1>3. ASSUME routes'.stopping = routes.stopping, phase' \in Late => phase \in Late,
             routes.stopping => \A d \in Dcs : routes'.entries[d] \in {routes.entries[d], Nothing}
      PROVE  Stopping'
  BY <1>0, <1>3 DEF Stopping
<1>4. ASSUME NEW c \in Calls, Admit(c) \/ Submit(c) \/ Cancel(c) \/ Retire(c) \/ Receive(c) \/ Answer(c)
      PROVE  UNCHANGED <<routes, phase>>
  BY <1>4 DEF Admit, Submit, AdmitBytes, TryRoute, SendRoute, SendPool, Cancel, Retire, DropPermit, Respond,
              Receive, Answer
<1>5. ASSUME NEW s \in Ids, Setup(s) \/ PanicConnect(s) \/ Break(s) \/ EndTask(s) \/ FinishFailed(s)
      PROVE  UNCHANGED <<routes, phase>>
  BY <1>5 DEF Setup, Connect, EndConnect, CancelConnect, AbortConnect, PanicConnect, Break, EndTask, FinishFailed
<1>6. ASSUME NEW s \in Ids, FinishConnected(s) PROVE Stopping'
  <2>1. phase' = phase /\ routes' = Publish(setups[s].dc, s)
    BY <1>6 DEF FinishConnected
  <2>2. CASE routes.stopping
    BY <1>1, <2>1, <2>2 DEF Publish
  <2>3. CASE ~routes.stopping
    <3>1. ~routes'.stopping
      BY <1>0, <2>1, <2>3 DEF Publish, RoutesType
    <3> QED BY <1>0, <2>1, <2>3, <3>1 DEF Stopping
  <2> QED BY <2>2, <2>3
<1>7. ASSUME NEW s \in Ids, JoinPanicked(s) \/ RecordCompletion(s) PROVE Stopping'
  <2>1. phase' \in Late => phase \in Late
    BY <1>7 DEF JoinPanicked, RecordCompletion
  <2>2. routes'.stopping = routes.stopping
    BY <1>0, <1>7 DEF JoinPanicked, RecordCompletion, RoutesType
  <2>3. \A d \in Dcs : routes'.entries[d] \in {routes.entries[d], Nothing}
    BY <1>0, <1>7 DEF JoinPanicked, RecordCompletion, RoutesType
  <2> QED BY <1>3, <2>1, <2>2, <2>3
<1>8. ASSUME NEW d \in Dcs, BeginDisconnect(d) \/ SendDisconnect(d) \/ PollClosed(d) PROVE Stopping'
  <2>1. phase' = phase
    BY <1>8 DEF BeginDisconnect, SendDisconnect, PollClosed
  <2>2. routes'.stopping = routes.stopping
    BY <1>0, <1>8 DEF BeginDisconnect, SendDisconnect, PollClosed, RoutesType
  <2>3. \A e \in Dcs : routes'.entries[e] \in {routes.entries[e], Nothing}
    <3>1. BeginDisconnect(d) => \A e \in Dcs : routes'.entries[e] \in {routes.entries[e], Nothing}
      BY <1>0 DEF BeginDisconnect, RoutesType
    <3>2. SendDisconnect(d) \/ PollClosed(d) => UNCHANGED routes
      BY DEF SendDisconnect, PollClosed
    <3> QED BY <1>8, <3>1, <3>2
  <2> QED BY <1>3, <2>1, <2>2, <2>3
<1>9. CASE ProcessInvoke \/ Tick \/ SendQuit
  BY <1>1, <1>9 DEF ProcessInvoke, Tick, SendQuit
<1>10. CASE Activate \/ ProcessDisconnect
  <2>1. phase' = phase
    BY <1>10 DEF Activate, ProcessDisconnect
  <2>2. routes'.stopping = routes.stopping
    BY <1>0, <1>10 DEF Activate, ProcessDisconnect, RoutesType
  <2>3. \A e \in Dcs : routes'.entries[e] \in {routes.entries[e], Nothing}
    <3>1. Activate => \A e \in Dcs : routes'.entries[e] \in {routes.entries[e], Nothing}
      BY <1>0 DEF Activate, RoutesType
    <3>2. ASSUME ProcessDisconnect PROVE \A e \in Dcs : routes'.entries[e] \in {routes.entries[e], Nothing}
      <4>1. PICK d, n : routes' = [routes EXCEPT !.entries[d] = Nothing, !.disconnecting[d] = n]
        BY <3>2, Zenon DEF ProcessDisconnect
      <4> QED BY <1>0, <4>1 DEF RoutesType
    <3> QED BY <1>10, <3>1, <3>2
  <2> QED BY <1>3, <2>1, <2>2, <2>3
<1>11. CASE ProcessQuit \/ Drain \/ FinishRun \/ DropFields
  <2>1. UNCHANGED routes /\ (phase' \in Late => phase \in Late)
    BY <1>11 DEF ProcessQuit, Drain, FinishRun, DropFields
  <2> QED BY <1>0, <2>1 DEF Stopping
<1>12. CASE BeginQuit \/ DropRunner \/ CloseAfterDrive
  BY <1>2, <1>12 DEF BeginQuit, DropRunner, CloseAfterDrive
<1>13. CASE Runner
  BY <1>1, <1>5, <1>6, <1>7, <1>8, <1>9, <1>10, <1>11, <1>12, <1>13 DEF Runner
<1>14. CASE Control
  BY <1>8, <1>9, <1>10, <1>12, <1>14 DEF Control
<1> QED BY <1>1, <1>4, <1>5, <1>9, <1>13, <1>14 DEF Next, Connection

LEMMA NextResultOwned == ASSUME Inv, Next PROVE ResultOwned'
<1>1. SUFFICES ASSUME NEW c \in Calls, call'[c].by # Nothing
               PROVE  call'[c].by = call'[c].at /\ call'[c].where \in {"doomed", "released"}
  BY DEF ResultOwned
<1>2. call[c] \in CallRecord /\ Moves(c)
  BY CallMoves DEF Inv, TypeOK
<1>3. call[c].by # Nothing => call[c].by = call[c].at /\ call[c].where \in {"doomed", "released"}
  BY DEF Inv, ResultOwned
<1> QED BY <1>1, <1>2, <1>3, ZenonT(40) DEF Moves, MovesTo, MovesAt, Held, CallRecord, NewCall

(* How the queue of the runner changes *)
LEMMA QueueMoves ==
    ASSUME Next
    PROVE  \/ UNCHANGED requests
           \/ \E c \in Calls : SendPool(c) /\ open
           \/ \E d \in Dcs : SendDisconnect(d) /\ open
           \/ SendQuit /\ open
           \/ ProcessInvoke
           \/ ProcessDisconnect
           \/ Drain \/ DropFields
<1>1. ASSUME NEW c \in Calls, Admit(c) \/ AdmitBytes(c) \/ TryRoute(c) \/ SendRoute(c) \/ Cancel(c) \/ Retire(c)
                              \/ Receive(c) \/ Answer(c)
      PROVE  UNCHANGED requests
  BY <1>1 DEF Admit, AdmitBytes, TryRoute, SendRoute, Cancel, Retire, DropPermit, Respond, Receive, Answer, queueVars
<1>2. ASSUME NEW c \in Calls, SendPool(c) PROVE UNCHANGED requests \/ (SendPool(c) /\ open)
  BY <1>2 DEF SendPool
<1>3. ASSUME NEW d \in Dcs, SendDisconnect(d) PROVE UNCHANGED requests \/ (SendDisconnect(d) /\ open)
  BY <1>3 DEF SendDisconnect
<1>4. ASSUME SendQuit PROVE UNCHANGED requests \/ (SendQuit /\ open)
  BY <1>4 DEF SendQuit
<1>5. ASSUME NEW s \in Ids, Setup(s) \/ PanicConnect(s) \/ Break(s) \/ EndTask(s)
      PROVE  UNCHANGED requests
  BY <1>5 DEF Setup, Connect, EndConnect, CancelConnect, AbortConnect, PanicConnect, Break, EndTask, queueVars
<1>6. CASE Runner
  BY <1>6 DEF Runner, FinishFailed, FinishConnected, JoinPanicked, RecordCompletion, PollClosed, ProcessQuit,
              CloseAfterDrive, FinishRun, queueVars
<1>7. CASE Tick \/ Activate \/ BeginQuit \/ DropRunner \/ \E d \in Dcs : BeginDisconnect(d)
  BY <1>7 DEF Tick, Activate, BeginQuit, DropRunner, BeginDisconnect, queueVars
<1> QED BY <1>1, <1>2, <1>3, <1>4, <1>5, <1>6, <1>7 DEF Next, Submit, Control, Connection

(* The elements of a queue to which one is added and from which one is taken *)
LEMMA Appended ==
    ASSUME NEW q \in Seq(Request), NEW r \in Request
    PROVE  /\ Len(q) + 1 \in DOMAIN Append(q, r) /\ Append(q, r)[Len(q) + 1] = r
           /\ \A i \in DOMAIN q : i \in DOMAIN Append(q, r) /\ Append(q, r)[i] = q[i] /\ i < Len(q) + 1
           /\ \A i \in DOMAIN Append(q, r) : i \in DOMAIN q \/ i = Len(q) + 1
OBVIOUS
LEMMA Taken ==
    ASSUME NEW q \in Seq(Request), q # <<>>
    PROVE  /\ \A i \in DOMAIN q : i > 1 => i - 1 \in DOMAIN Tail(q) /\ Tail(q)[i - 1] = q[i]
           /\ \A i \in DOMAIN Tail(q) : i \in Nat \ {0} /\ i + 1 \in DOMAIN q /\ Tail(q)[i] = q[i + 1]
OBVIOUS


LEMMA NextEnqueued == ASSUME Inv, Next PROVE Enqueued'
<1>0. /\ requests \in Seq(Request) /\ call \in [Calls -> CallRecord]
      /\ \A i \in DOMAIN requests : \A c \in Calls : Invokes(i, c) => call[c].where = "pool"
      /\ \A i, j \in DOMAIN requests : \A c \in Calls : Invokes(i, c) /\ Invokes(j, c) => i = j
  BY DEF Inv, TypeOK, Enqueued
<1>1. ASSUME NEW c \in Calls, call[c].where = "pool", requests' # <<>>, ~(ProcessInvoke /\ Head(requests).call = c)
      PROVE  call'[c].where = "pool"
  <2>1. Moves(c) /\ call[c] \in CallRecord
    BY <1>0, CallMoves
  <2> QED BY <1>1, <2>1 DEF Moves, Held, CallRecord
<1>2. CASE UNCHANGED requests
  <2>1. ~ProcessInvoke
    <3>1. requests # <<>> => Tail(requests) # requests
      BY <1>0
    <3> QED BY <1>2, <3>1 DEF ProcessInvoke, Popped
  <2>2. \A i \in DOMAIN requests : requests # <<>>
    BY <1>0
  <2> QED BY <1>0, <1>1, <1>2, <2>1, <2>2 DEF Enqueued, Invokes
<1>3. ASSUME NEW r \in Request, requests' = Append(requests, r), ~ProcessInvoke,
             r.kind = "invoke" => r.call \in Calls /\ call[r.call].where # "pool" /\ call'[r.call].where = "pool"
      PROVE  Enqueued'
  <2>1. requests' # <<>>
    BY <1>0, <1>3
  <2>2. \A i \in DOMAIN requests' : \/ i \in DOMAIN requests /\ requests'[i] = requests[i]
                                    \/ i = Len(requests) + 1 /\ requests'[i] = r
    BY <1>0, <1>3, Appended
  <2>3. ASSUME NEW i \in DOMAIN requests', NEW c \in Calls, Invokes(i, c)',
               NEW j \in DOMAIN requests', Invokes(j, c)'
        PROVE  call'[c].where = "pool" /\ i = j
    <3>1. (i \in DOMAIN requests /\ Invokes(i, c)) \/ (i = Len(requests) + 1 /\ r.kind = "invoke" /\ r.call = c)
      BY <2>2, <2>3 DEF Invokes
    <3>2. (j \in DOMAIN requests /\ Invokes(j, c)) \/ (j = Len(requests) + 1 /\ r.kind = "invoke" /\ r.call = c)
      BY <2>2, <2>3 DEF Invokes
    <3>3. CASE r.kind = "invoke" /\ r.call = c
      BY <1>0, <1>3, <3>1, <3>2, <3>3
    <3>4. CASE ~(r.kind = "invoke" /\ r.call = c)
      BY <1>0, <1>1, <1>3, <2>1, <3>1, <3>2, <3>4
    <3> QED BY <3>3, <3>4
  <2> QED BY <2>3 DEF Enqueued
<1>4. ASSUME NEW b \in Calls, SendPool(b), open PROVE Enqueued'
  <2> DEFINE r == [kind |-> "invoke", call |-> b]
  <2>1. r \in Request /\ r.kind = "invoke" /\ r.call = b
    BY DEF Request
  <2>2. requests' = Append(requests, r) /\ call[b].where = "fallback" /\ call'[b].where = "pool"
    <3>1. /\ requests' = Append(requests, r) /\ call[b].where = "fallback"
          /\ call' = [call EXCEPT ![b].where = "pool"]
      BY <1>4 DEF SendPool
    <3>2. call'[b].where = "pool"
      BY <1>0, <3>1 DEF CallRecord
    <3> QED BY <3>1, <3>2
  <2>3. ~ProcessInvoke
    BY <1>0, <2>1, <2>2 DEF ProcessInvoke, Popped
  <2> HIDE DEF r
  <2> QED BY <1>3, <2>1, <2>2, <2>3
<1>5. ASSUME NEW r \in Request, requests' = Append(requests, r), r.kind # "invoke" PROVE Enqueued'
  <2>1. ~ProcessInvoke
    BY <1>0, <1>5 DEF ProcessInvoke, Popped
  <2> QED BY <1>3, <1>5, <2>1
<1>6. ASSUME NEW d \in Dcs, SendDisconnect(d), open PROVE Enqueued'
  <2>1. [kind |-> "disconnect", dc |-> d] \in Request /\ [kind |-> "disconnect", dc |-> d].kind # "invoke"
    BY DEF Request
  <2>2. requests' = Append(requests, [kind |-> "disconnect", dc |-> d])
    BY <1>6 DEF SendDisconnect
  <2> QED BY <1>5, <2>1, <2>2
<1>7. CASE SendQuit /\ open
  <2>1. [kind |-> "quit"] \in Request /\ [kind |-> "quit"].kind # "invoke"
    BY DEF Request
  <2>2. requests' = Append(requests, [kind |-> "quit"])
    BY <1>7 DEF SendQuit
  <2> QED BY <1>5, <2>1, <2>2
<1>8. CASE ProcessInvoke \/ ProcessDisconnect
  <2>1. requests # <<>> /\ requests' = Tail(requests)
    BY <1>8 DEF ProcessInvoke, ProcessDisconnect, Popped
  <2>2. \A i \in DOMAIN requests' : /\ i \in Nat \ {0} /\ i + 1 \in DOMAIN requests /\ requests'[i] = requests[i + 1]
                                    /\ requests' # <<>>
    BY <1>0, <2>1, Taken
  <2>3. ASSUME NEW i \in DOMAIN requests', NEW c \in Calls, Invokes(i, c)', NEW j \in DOMAIN requests', Invokes(j, c)'
        PROVE  call'[c].where = "pool" /\ i = j
    <3>1. Invokes(i + 1, c) /\ Invokes(j + 1, c)
      BY <2>2, <2>3 DEF Invokes
    <3>2. i + 1 = j + 1
      BY <1>0, <2>2, <3>1
    <3>3. ~(ProcessInvoke /\ Head(requests).call = c)
      <4>1. SUFFICES ASSUME ProcessInvoke, Head(requests).call = c PROVE FALSE
        OBVIOUS
      <4>2. 1 \in DOMAIN requests /\ Invokes(1, c)
        BY <1>0, <2>1, <4>1, QueueTyped DEF ProcessInvoke, Popped, Invokes, Inv
      <4>3. i + 1 = 1
        BY <1>0, <2>2, <3>1, <4>2
      <4> QED BY <2>2, <4>3
    <3> QED BY <1>0, <1>1, <2>2, <3>1, <3>2, <3>3
  <2> QED BY <2>3 DEF Enqueued
<1>9. CASE Drain \/ DropFields
  BY <1>9 DEF Drain, DropFields, Enqueued
<1> QED BY <1>2, <1>4, <1>6, <1>7, <1>8, <1>9, QueueMoves

(* The disconnects of a queue, as it grows and shrinks *)
LEMMA DisconnectsFinite ==
    ASSUME NEW q \in Seq(Request), NEW d
    PROVE  IsFiniteSet(DisconnectsIn(q, d)) /\ Cardinality(DisconnectsIn(q, d)) \in Nat
<1>1. DisconnectsIn(q, d) \in SUBSET (1 .. Len(q)) /\ Len(q) \in Int /\ 1 \in Int
  BY DEF DisconnectsIn
<1>2. IsFiniteSet(1 .. Len(q))
  BY <1>1, FS_Interval
<1>3. IsFiniteSet(DisconnectsIn(q, d))
  BY ONLY <1>1, <1>2, FS_Subset
<1> QED BY <1>3, FS_CardinalityType

LEMMA DisconnectsAppended ==
    ASSUME NEW q \in Seq(Request), NEW r \in Request, NEW d
    PROVE  /\ DisconnectsIn(Append(q, r), d) =
                DisconnectsIn(q, d) \cup (IF r.kind = "disconnect" /\ r.dc = d THEN {Len(q) + 1} ELSE {})
           /\ Cardinality(DisconnectsIn(Append(q, r), d)) <=
                Cardinality(DisconnectsIn(q, d)) + (IF r.kind = "disconnect" /\ r.dc = d THEN 1 ELSE 0)
<1>1. DisconnectsIn(Append(q, r), d) =
                DisconnectsIn(q, d) \cup (IF r.kind = "disconnect" /\ r.dc = d THEN {Len(q) + 1} ELSE {})
  <2>1. ASSUME NEW i \in DisconnectsIn(Append(q, r), d)
        PROVE  i \in DisconnectsIn(q, d) \cup (IF r.kind = "disconnect" /\ r.dc = d THEN {Len(q) + 1} ELSE {})
    BY <2>1, Appended DEF DisconnectsIn
  <2>2. ASSUME NEW i \in DisconnectsIn(q, d) PROVE i \in DisconnectsIn(Append(q, r), d)
    BY <2>2, Appended DEF DisconnectsIn
  <2>3. r.kind = "disconnect" /\ r.dc = d => Len(q) + 1 \in DisconnectsIn(Append(q, r), d)
    BY Appended DEF DisconnectsIn
  <2> QED BY <2>1, <2>2, <2>3
<1>2. IsFiniteSet(DisconnectsIn(q, d)) /\ Cardinality(DisconnectsIn(q, d)) \in Nat
  BY DisconnectsFinite
<1>3. CASE r.kind = "disconnect" /\ r.dc = d
  <2>1. Cardinality(DisconnectsIn(q, d) \cup {Len(q) + 1}) \in {Cardinality(DisconnectsIn(q, d)), Cardinality(DisconnectsIn(q, d)) + 1}
    BY ONLY <1>2, FS_AddElement
  <2> QED BY <1>1, <1>2, <1>3, <2>1
<1>4. CASE ~(r.kind = "disconnect" /\ r.dc = d)
  <2>1. DisconnectsIn(Append(q, r), d) = DisconnectsIn(q, d)
    BY <1>1, <1>4
  <2>2. (IF r.kind = "disconnect" /\ r.dc = d THEN 1 ELSE 0) = 0
    BY <1>4
  <2>3. Cardinality(DisconnectsIn(q, d)) <= Cardinality(DisconnectsIn(q, d)) + 0
    BY <1>2
  <2> HIDE DEF DisconnectsIn
  <2> QED BY <1>1, <2>1, <2>2, <2>3
<1> QED BY <1>3, <1>4

LEMMA DisconnectsTaken ==
    ASSUME NEW q \in Seq(Request), q # <<>>, NEW d
    PROVE  /\ \A i : i \in DisconnectsIn(Tail(q), d) <=> i \in Nat /\ i > 0 /\ i + 1 \in DisconnectsIn(q, d)
           /\ Cardinality(DisconnectsIn(Tail(q), d)) =
                Cardinality(DisconnectsIn(q, d)) - (IF 1 \in DisconnectsIn(q, d) THEN 1 ELSE 0)
<1> DEFINE S == DisconnectsIn(q, d) \ {1}
           T == DisconnectsIn(Tail(q), d)
           f == [i \in T |-> i + 1]
<1>1. \A i : i \in T <=> i \in Nat /\ i > 0 /\ i + 1 \in DisconnectsIn(q, d)
  <2>1. ASSUME NEW i \in T PROVE i \in Nat /\ i > 0 /\ i + 1 \in DisconnectsIn(q, d)
    BY <2>1, Taken DEF DisconnectsIn
  <2>2. ASSUME NEW i, i \in Nat, i > 0, i + 1 \in DisconnectsIn(q, d) PROVE i \in T
    <3>1. i + 1 \in DOMAIN q /\ i + 1 > 1 /\ (i + 1) - 1 = i
      BY <2>2 DEF DisconnectsIn
    <3>2. i \in DOMAIN Tail(q) /\ Tail(q)[i] = q[i + 1]
      BY <3>1, Taken
    <3> QED BY <2>2, <3>2 DEF DisconnectsIn
  <2> QED BY <2>1, <2>2
<1>2. IsFiniteSet(T) /\ IsFiniteSet(DisconnectsIn(q, d)) /\ Cardinality(DisconnectsIn(q, d)) \in Nat
  <2>1. Tail(q) \in Seq(Request)
    OBVIOUS
  <2> QED BY <2>1, DisconnectsFinite
<1>3. \A j \in S : j \in Nat /\ j > 1
  BY DEF DisconnectsIn
<1>4. f \in Bijection(T, S)
  <2>1. f \in [T -> S]
    BY <1>1
  <2>2. \A a, b \in T : f[a] = f[b] => a = b
    BY <1>1
  <2>3. \A j \in S : \E i \in T : f[i] = j
    <3>1. SUFFICES ASSUME NEW j \in S PROVE \E i \in T : f[i] = j
      OBVIOUS
    <3>2. j - 1 \in Nat /\ j - 1 > 0 /\ (j - 1) + 1 = j
      BY <1>3
    <3>3. j - 1 \in T
      BY <1>1, <3>2
    <3> QED BY <3>2, <3>3
  <2> HIDE DEF f, S, T
  <2> QED BY <2>1, <2>2, <2>3, Fun_IsBij
<1>5. Cardinality(S) = Cardinality(T)
  <2> HIDE DEF f, S, T
  <2>1. ExistsBijection(T, S)
    BY <1>4 DEF ExistsBijection
  <2> QED BY <1>2, <2>1, FS_Bijection
<1>6. Cardinality(S) = Cardinality(DisconnectsIn(q, d)) - (IF 1 \in DisconnectsIn(q, d) THEN 1 ELSE 0)
  <2>1. Cardinality(S) = IF 1 \in DisconnectsIn(q, d) THEN Cardinality(DisconnectsIn(q, d)) - 1 ELSE Cardinality(DisconnectsIn(q, d))
    BY ONLY <1>2, FS_RemoveElement
  <2> QED BY <1>2, <2>1
<1> QED BY <1>1, <1>5, <1>6


(* What a disconnect that is under way can see changes only with disconnects *)
LEMMA CountersMove ==
    ASSUME Inv, Next
    PROVE  \/ \E e \in Dcs : BeginDisconnect(e) \/ SendDisconnect(e)
           \/ ProcessDisconnect
           \/ /\ routes'.disconnecting = routes.disconnecting /\ control'.begun = control.begun
              /\ \A d \in Dcs : Cardinality(Disconnects(d))' <= Cardinality(Disconnects(d))
<1>0. /\ routes \in RoutesType /\ control \in ControlType /\ requests \in Seq(Request)
      /\ \A d : Cardinality(Disconnects(d)) \in Nat
  <2>1. routes \in RoutesType /\ control \in ControlType /\ requests \in Seq(Request)
    BY DEF Inv, TypeOK, RoutesType, ControlType
  <2> QED BY <2>1, DisconnectsFinite DEF Disconnects
<1>1. SUFFICES ASSUME ~\E e \in Dcs : BeginDisconnect(e) \/ SendDisconnect(e), ~ProcessDisconnect
               PROVE  /\ routes'.disconnecting = routes.disconnecting /\ control'.begun = control.begun
                      /\ \A d \in Dcs : Cardinality(Disconnects(d))' <= Cardinality(Disconnects(d))
  OBVIOUS
<1>2. CloseRoutes(routes).disconnecting = routes.disconnecting
  BY <1>0 DEF CloseRoutes, RoutesType
<1>3. routes'.disconnecting = routes.disconnecting
  <2>1. ASSUME NEW c \in Calls, Admit(c) \/ Submit(c) \/ Cancel(c) \/ Retire(c) \/ Receive(c) \/ Answer(c)
        PROVE  UNCHANGED routes
    BY <2>1 DEF Admit, Submit, AdmitBytes, TryRoute, SendRoute, SendPool, Cancel, Retire, DropPermit, Respond,
                Receive, Answer
  <2>2. ASSUME NEW s \in Ids, Setup(s) \/ PanicConnect(s) \/ Break(s) \/ EndTask(s)
        PROVE  UNCHANGED routes
    BY <2>2 DEF Setup, Connect, EndConnect, CancelConnect, AbortConnect, PanicConnect, Break, EndTask
  <2>3. ASSUME NEW s \in Ids, FinishConnected(s) PROVE routes'.disconnecting = routes.disconnecting
    <3>1. routes' = routes \/ routes' = [routes EXCEPT !.entries[setups[s].dc] = s]
      BY <2>3 DEF FinishConnected, Publish
    <3> QED BY <1>0, <3>1 DEF RoutesType
  <2>4. ASSUME NEW s \in Ids, RecordCompletion(s) PROVE routes'.disconnecting = routes.disconnecting
    BY <1>0, <2>4 DEF RecordCompletion, RoutesType
  <2>5. ASSUME NEW s \in Ids, FinishFailed(s) \/ JoinPanicked(s) PROVE UNCHANGED routes
    BY <2>5 DEF FinishFailed, JoinPanicked
  <2>6. ASSUME NEW d \in Dcs, PollClosed(d) PROVE UNCHANGED routes
    BY <2>6 DEF PollClosed
  <2>7. CASE ProcessInvoke \/ ProcessQuit \/ Drain \/ FinishRun \/ DropFields \/ Tick \/ SendQuit
    BY <2>7 DEF ProcessInvoke, ProcessQuit, Drain, FinishRun, DropFields, Tick, SendQuit
  <2>8. CASE BeginQuit \/ DropRunner \/ CloseAfterDrive
    BY <1>2, <2>8 DEF BeginQuit, DropRunner, CloseAfterDrive
  <2>9. CASE Activate
    BY <1>0, <2>9 DEF Activate, RoutesType
  <2>10. CASE Runner
    BY <1>1, <2>3, <2>4, <2>5, <2>6, <2>7, <2>8, <2>10 DEF Runner
  <2> QED BY <1>1, <2>1, <2>2, <2>7, <2>8, <2>9, <2>10 DEF Next, Control, Connection
<1>4. control'.begun = control.begun
  <2>1. ASSUME NEW c \in Calls, Admit(c) \/ Submit(c) \/ Cancel(c) \/ Retire(c) \/ Receive(c) \/ Answer(c)
        PROVE  UNCHANGED control
    BY <2>1 DEF Admit, Submit, AdmitBytes, TryRoute, SendRoute, SendPool, Cancel, Retire, DropPermit, Respond,
                Receive, Answer
  <2>2. ASSUME NEW s \in Ids, Setup(s) \/ PanicConnect(s) \/ Break(s) \/ EndTask(s)
        PROVE  UNCHANGED control
    BY <2>2 DEF Setup, Connect, EndConnect, CancelConnect, AbortConnect, PanicConnect, Break, EndTask
  <2>3. Runner \/ Tick \/ Activate => UNCHANGED control
    BY DEF Runner, FinishFailed, FinishConnected, JoinPanicked, RecordCompletion, PollClosed, ProcessInvoke,
           ProcessDisconnect, ProcessQuit, CloseAfterDrive, Drain, FinishRun, DropFields, Tick, Activate
  <2>4. BeginQuit \/ SendQuit \/ DropRunner => control'.begun = control.begun
    BY <1>0 DEF BeginQuit, SendQuit, DropRunner, ControlType
  <2> QED BY <1>1, <2>1, <2>2, <2>3, <2>4 DEF Next, Control, Connection
<1>5. ASSUME NEW d \in Dcs PROVE Cardinality(Disconnects(d))' <= Cardinality(Disconnects(d))
  <2>1. ASSUME NEW r \in Request, r.kind # "disconnect", requests' = Append(requests, r)
        PROVE  Cardinality(Disconnects(d))' <= Cardinality(Disconnects(d))
    <3>1. DisconnectsIn(Append(requests, r), d) = DisconnectsIn(requests, d)
      <4>1. DisconnectsIn(Append(requests, r), d) =
              DisconnectsIn(requests, d) \cup (IF r.kind = "disconnect" /\ r.dc = d THEN {Len(requests) + 1} ELSE {})
        BY ONLY <1>0, r \in Request, DisconnectsAppended
      <4> QED BY <2>1, <4>1
    <3>2. Disconnects(d)' = Disconnects(d)
      BY <2>1, <3>1 DEF Disconnects
    <3>3. Cardinality(Disconnects(d)) \in Nat
      BY <1>0
    <3> QED BY <3>2, <3>3
  <2>2. ASSUME NEW c \in Calls, SendPool(c), open PROVE Cardinality(Disconnects(d))' <= Cardinality(Disconnects(d))
    <3>1. [kind |-> "invoke", call |-> c] \in Request /\ [kind |-> "invoke", call |-> c].kind # "disconnect"
      BY DEF Request
    <3> QED BY <2>1, <2>2, <3>1 DEF SendPool
  <2>3. CASE SendQuit /\ open
    <3>1. [kind |-> "quit"] \in Request /\ [kind |-> "quit"].kind # "disconnect"
      BY DEF Request
    <3> QED BY <2>1, <2>3, <3>1 DEF SendQuit
  <2>4. CASE ProcessInvoke
    <3>1. requests # <<>> /\ requests' = Tail(requests)
      BY <2>4 DEF ProcessInvoke, Popped
    <3>2. Cardinality(DisconnectsIn(Tail(requests), d)) =
             Cardinality(Disconnects(d)) - (IF 1 \in Disconnects(d) THEN 1 ELSE 0)
      BY <1>0, <3>1, DisconnectsTaken DEF Disconnects
    <3>3. Cardinality(DisconnectsIn(Tail(requests), d)) <= Cardinality(Disconnects(d))
      BY <1>0, <3>2
    <3> QED BY <3>1, <3>3 DEF Disconnects
  <2>5. CASE Drain \/ DropFields
    <3>1. DisconnectsIn(<<>>, d) = {} /\ requests' = <<>>
      BY <2>5 DEF DisconnectsIn, Drain, DropFields
    <3>2. Cardinality(Disconnects(d))' = 0
      BY <3>1, FS_EmptySet DEF Disconnects
    <3> QED BY <1>0, <3>2
  <2>6. CASE UNCHANGED requests
    <3>1. Cardinality(Disconnects(d))' = Cardinality(Disconnects(d)) /\ Cardinality(Disconnects(d)) \in Nat
      BY <1>0, <2>6 DEF Disconnects
    <3> QED BY <3>1
  <2> QED BY <1>1, <2>2, <2>3, <2>4, <2>5, <2>6, QueueMoves
<1> QED BY <1>3, <1>4, <1>5

LEMMA NextCounted == ASSUME Inv, Next PROVE Counted'
<1>0. /\ routes \in RoutesType /\ control \in ControlType /\ requests \in Seq(Request)
      /\ routes.disconnecting \in [Dcs -> Nat] /\ control.begun \in [Dcs -> Nat]
      /\ routes.entries \in [Dcs -> Ids \cup {Nothing}]
  BY DEF Inv, TypeOK, RoutesType, ControlType
<1>1. \A d : Cardinality(Disconnects(d)) \in Nat
  BY <1>0, DisconnectsFinite DEF Disconnects
<1>2. \A d \in Dcs : Cardinality(Disconnects(d))' \in Nat
  <2>1. requests' \in Seq(Request)
    BY NextTypes DEF TypeOK
  <2> QED BY <2>1, DisconnectsFinite DEF Disconnects
<1>3. \A d \in Dcs : /\ routes.disconnecting[d] >= control.begun[d] + Cardinality(Disconnects(d))
                     /\ routes.entries[d] # Nothing => routes.disconnecting[d] = 0
  BY DEF Inv, Counted
<1>4. ASSUME NEW e \in Dcs, BeginDisconnect(e) PROVE Counted'
  <2>1. routes'.entries = [routes.entries EXCEPT ![e] = Nothing]
    BY <1>0, <1>4 DEF BeginDisconnect, RoutesType
  <2>2. routes'.disconnecting = [routes.disconnecting EXCEPT ![e] = @ + 1]
    BY <1>0, <1>4 DEF BeginDisconnect, RoutesType
  <2>3. control'.begun = [control.begun EXCEPT ![e] = @ + 1]
    BY <1>0, <1>4 DEF BeginDisconnect, ControlType
  <2>4. \A d \in Dcs : Cardinality(Disconnects(d))' = Cardinality(Disconnects(d))
    BY <1>4 DEF BeginDisconnect, queueVars, Disconnects
  <2>5. ASSUME NEW d \in Dcs
        PROVE  /\ routes'.disconnecting[d] >= control'.begun[d] + Cardinality(Disconnects(d))'
               /\ routes'.entries[d] # Nothing => routes'.disconnecting[d] = 0
    <3>1. CASE d = e
      BY <1>0, <1>1, <1>3, <2>1, <2>2, <2>3, <2>4, <3>1
    <3>2. CASE d # e
      BY <1>0, <1>1, <1>3, <2>1, <2>2, <2>3, <2>4, <3>2
    <3> QED BY <3>1, <3>2
  <2> QED BY <2>5 DEF Counted
<1>5. ASSUME NEW e \in Dcs, SendDisconnect(e) PROVE Counted'
  <2>1. routes' = routes /\ control.begun[e] > 0
    BY <1>5 DEF SendDisconnect
  <2>2. control'.begun = [control.begun EXCEPT ![e] = @ - 1]
    BY <1>0, <1>5 DEF SendDisconnect, ControlType
  <2>3. \A d \in Dcs : Cardinality(Disconnects(d))' <= Cardinality(Disconnects(d)) + (IF d = e THEN 1 ELSE 0)
    <3> DEFINE r == [kind |-> "disconnect", dc |-> e]
    <3>1. CASE requests' = requests
      BY <1>1, <3>1 DEF Disconnects
    <3>2. CASE requests' = Append(requests, r)
      <4>1. r \in Request /\ r.kind = "disconnect" /\ r.dc = e
        BY DEF Request
      <4> HIDE DEF r
      <4>2. ASSUME NEW d \in Dcs
            PROVE  Cardinality(DisconnectsIn(Append(requests, r), d)) <=
                      Cardinality(DisconnectsIn(requests, d)) + (IF d = e THEN 1 ELSE 0)
        <5>1. Cardinality(DisconnectsIn(Append(requests, r), d)) <=
                Cardinality(DisconnectsIn(requests, d)) + (IF r.kind = "disconnect" /\ r.dc = d THEN 1 ELSE 0)
          BY ONLY <1>0, <4>1, DisconnectsAppended
        <5> QED BY <4>1, <5>1
      <4> QED BY <3>2, <4>2 DEF Disconnects
    <3> QED BY <1>5, <3>1, <3>2 DEF SendDisconnect
  <2>4. ASSUME NEW d \in Dcs PROVE routes'.disconnecting[d] >= control'.begun[d] + Cardinality(Disconnects(d))'
    <3>1. CASE d = e
      <4>1. control'.begun[d] = control.begun[d] - 1 /\ Cardinality(Disconnects(d))' <= Cardinality(Disconnects(d)) + 1
        BY <1>0, <2>2, <2>3, <3>1
      <4> QED BY <1>0, <1>1, <1>2, <1>3, <2>1, <4>1
    <3>2. CASE d # e
      <4>1. control'.begun[d] = control.begun[d] /\ Cardinality(Disconnects(d))' <= Cardinality(Disconnects(d))
        BY <1>0, <1>1, <2>2, <2>3, <3>2
      <4> QED BY <1>0, <1>1, <1>2, <1>3, <2>1, <4>1
    <3> QED BY <3>1, <3>2
  <2> QED BY <1>3, <2>1, <2>4 DEF Counted
<1>6. CASE ProcessDisconnect
  <2>1. PICK e \in Dcs : e = Head(requests).dc /\ routes.disconnecting[e] > 0 /\ 1 \in Disconnects(e)
    BY <1>6, DisconnectCounted DEF Inv, ProcessDisconnect
  <2>2. routes'.entries = [routes.entries EXCEPT ![e] = Nothing]
    BY <1>0, <1>6, <2>1 DEF ProcessDisconnect, RoutesType
  <2>3. routes'.disconnecting = [routes.disconnecting EXCEPT ![e] = @ - 1]
    BY <1>0, <1>6, <2>1 DEF ProcessDisconnect, RoutesType
  <2>4. control' = control /\ requests # <<>> /\ requests' = Tail(requests)
    BY <1>6 DEF ProcessDisconnect, Popped
  <2>5. \A d \in Dcs : Cardinality(Disconnects(d))' =
           Cardinality(Disconnects(d)) - (IF 1 \in Disconnects(d) THEN 1 ELSE 0)
    BY <1>0, <2>4, DisconnectsTaken DEF Disconnects
  <2>6. ASSUME NEW d \in Dcs
        PROVE  /\ routes'.disconnecting[d] >= control'.begun[d] + Cardinality(Disconnects(d))'
               /\ routes'.entries[d] # Nothing => routes'.disconnecting[d] = 0
    <3>1. CASE d = e
      <4>1. Cardinality(Disconnects(d))' = Cardinality(Disconnects(d)) - 1
        BY <2>1, <2>5, <3>1
      <4> QED BY <1>0, <1>1, <1>3, <2>2, <2>3, <2>4, <3>1, <4>1
    <3>2. CASE d # e
      <4>1. Cardinality(Disconnects(d))' <= Cardinality(Disconnects(d))
        BY <1>1, <2>5
      <4> QED BY <1>0, <1>1, <1>2, <1>3, <2>2, <2>3, <2>4, <3>2, <4>1
    <3> QED BY <3>1, <3>2
  <2> QED BY <2>6 DEF Counted
<1>7. ASSUME routes'.disconnecting = routes.disconnecting, control'.begun = control.begun,
             \A d \in Dcs : Cardinality(Disconnects(d))' <= Cardinality(Disconnects(d))
      PROVE  Counted'
  <2>1. ASSUME NEW d \in Dcs PROVE routes'.disconnecting[d] >= control'.begun[d] + Cardinality(Disconnects(d))'
    BY <1>0, <1>1, <1>2, <1>3, <1>7
  <2>2. ASSUME NEW d \in Dcs, routes'.entries[d] # Nothing PROVE routes'.disconnecting[d] = 0
    <3>1. CASE Shrinks
      BY <1>3, <1>7, <2>2, <3>1 DEF Shrinks
    <3>2. CASE ProcessInvoke
      BY <1>3, <2>2, <3>2 DEF ProcessInvoke
    <3>3. ASSUME NEW s \in Ids, FinishConnected(s) PROVE routes'.disconnecting[d] = 0
      <4>1. setups[s].dc \in Dcs /\ routes' = Publish(setups[s].dc, s)
        BY <3>3, FinishTypes DEF FinishConnected
      <4>2. CASE routes' = routes
        BY <1>3, <2>2, <4>2
      <4>3. CASE routes.disconnecting[setups[s].dc] = 0 /\ routes' = [routes EXCEPT !.entries[setups[s].dc] = s]
        <5>1. d # setups[s].dc => routes'.entries[d] = routes.entries[d]
          BY <1>0, <4>1, <4>3 DEF RoutesType
        <5> QED BY <1>3, <1>7, <2>2, <4>3, <5>1
      <4> QED BY <1>0, <4>1, <4>2, <4>3 DEF Publish
    <3> QED BY <3>1, <3>2, <3>3, TasksMove
  <2> QED BY <2>1, <2>2 DEF Counted
<1> QED BY <1>4, <1>5, <1>6, <1>7, CountersMove


(* What calls can be given grows only by a setup that is new *)
LEMMA ReachGrows ==
    ASSUME Inv, Next, NEW d \in Dcs, NEW k \in Reach(d)'
    PROVE  k \in Reach(d) \/ k = started + 1
<1>0. /\ listed \subseteq Ids /\ listed' \subseteq Ids /\ Nothing = 0 /\ 0 \notin Ids /\ pending \in [Dcs -> Ids \cup {Nothing}]
      /\ setups \in [Ids -> SetupRecord]
  <2>1. listed' \subseteq Ids
    BY NextTypes DEF TypeOK
  <2> QED BY <2>1, Limits DEF Inv, TypeOK
<1>1. (k \in listed' /\ setups'[k].dc = d) \/ (k = pending'[d] /\ pending'[d] # Nothing)
  BY DEF Reach
<1>2. CASE Shrinks
  BY <1>0, <1>1, <1>2 DEF Shrinks, SetupMoves, Reach
<1>3. ASSUME NEW t \in Ids, FinishConnected(t), \A s \in Ids : SetupMoves(s) PROVE k \in Reach(d)
  <2>1. t = pending[setups[t].dc] /\ listed' = listed \cup {t} /\ pending' = [pending EXCEPT ![setups[t].dc] = Nothing]
    BY <1>3 DEF FinishConnected, Superseded
  <2>2. \A s \in Ids : setups'[s].dc = setups[s].dc
    BY <1>3 DEF SetupMoves
  <2>3. CASE k = t
    <3>1. setups[t].dc = d
      <4>1. pending'[d] # t
        <5>1. pending'[d] # Nothing => pending'[d] = pending[d] /\ d # setups[t].dc
          BY <1>0, <2>1
        <5>2. d # setups[t].dc => pending[d] # t
          BY <1>0 DEF Inv, Numbered
        <5> QED BY <1>0, <5>1, <5>2
      <4> QED BY <1>0, <1>1, <2>2, <2>3, <4>1
    <3> QED BY <1>0, <2>1, <2>3, <3>1 DEF Reach
  <2>4. CASE k # t
    <3>1. pending'[d] # Nothing => pending'[d] = pending[d]
      BY <1>0, <2>1
    <3> QED BY <1>0, <1>1, <2>1, <2>2, <2>4, <3>1 DEF Reach
  <2> QED BY <2>3, <2>4
<1>4. ASSUME NEW c \in Calls, ProcessInvoke, SetupStarts(c) PROVE k \in Reach(d) \/ k = started + 1
  <2>1. listed' = listed /\ listed \subseteq 1 .. started
    BY <1>4 DEF ProcessInvoke, Inv, Numbered
  <2>2. \A s \in listed : setups'[s] = setups[s]
    <3>1. started + 1 \notin listed
      BY <2>1, Limits DEF Inv, TypeOK
    <3> QED BY <1>0, <1>4, <3>1 DEF SetupStarts
  <2>3. pending'[d] \in {pending[d], started + 1}
    BY <1>0, <1>4 DEF SetupStarts
  <2> QED BY <1>1, <2>1, <2>2, <2>3 DEF Reach
<1> QED BY <1>2, <1>3, <1>4, TasksMove

(* A disconnect that the runner handles leaves nothing in reach, and neither does
   the end of the runner *)
LEMMA ReachEmpty ==
    ASSUME Inv, Next, NEW d \in Dcs,
           \/ ProcessDisconnect /\ Head(requests).dc = d
           \/ Drain \/ DropFields
    PROVE  Reach(d)' = {}
<1>1. CASE ProcessDisconnect /\ Head(requests).dc = d
  <2>1. listed' = listed \ {k \in listed : setups[k].dc = d} /\ pending' = [pending EXCEPT ![d] = Nothing]
    BY <1>1 DEF ProcessDisconnect, CancelSetup
  <2>2. \A s \in Ids : setups'[s].dc = setups[s].dc
    <3>1. setups' = Aborted({pending[d]} \cap Ids) /\ setups \in [Ids -> SetupRecord]
      BY <1>1 DEF ProcessDisconnect, CancelSetup, Inv, TypeOK
    <3>2. \A s \in Ids : Aborted({pending[d]} \cap Ids)[s].dc = setups[s].dc
      BY <3>1, AbortedSetups
    <3> QED BY <3>1, <3>2
  <2>3. pending'[d] = Nothing /\ listed \subseteq Ids
    BY <2>1 DEF Inv, TypeOK
  <2> QED BY <2>1, <2>2, <2>3 DEF Reach
<1>2. CASE Drain \/ DropFields
  <2>1. listed' = {} /\ pending' = [e \in Dcs |-> Nothing]
    BY <1>2 DEF Drain, DropFields
  <2> QED BY <2>1 DEF Reach
<1> QED BY <1>1, <1>2

(* A disconnect that is queued stays in the queue, in its place, until it is handled *)
LEMMA DisconnectStays ==
    ASSUME Inv, Next, NEW d \in Dcs, NEW j \in Disconnects(d)
    PROVE  \/ Reach(d)' = {}
           \/ j \in Disconnects(d)' /\ ~ProcessInvoke /\ ~ProcessDisconnect
           \/ j > 1 /\ j - 1 \in Disconnects(d)' /\ (ProcessInvoke \/ ProcessDisconnect)
<1>0. requests \in Seq(Request) /\ j \in Nat \ {0}
  BY DEF Inv, TypeOK, Disconnects, DisconnectsIn
<1>1. CASE UNCHANGED requests
  <2>1. ~ProcessInvoke /\ ~ProcessDisconnect
    <3>1. requests # <<>> => Tail(requests) # requests
      BY <1>0
    <3> QED BY <1>1, <3>1 DEF ProcessInvoke, ProcessDisconnect, Popped
  <2> QED BY <1>1, <2>1 DEF Disconnects
<1>2. ASSUME NEW r \in Request, requests' = Append(requests, r)
      PROVE  j \in Disconnects(d)' /\ ~ProcessInvoke /\ ~ProcessDisconnect
  <2>1. DisconnectsIn(requests, d) \subseteq DisconnectsIn(Append(requests, r), d)
    <3>1. DisconnectsIn(Append(requests, r), d) =
            DisconnectsIn(requests, d) \cup (IF r.kind = "disconnect" /\ r.dc = d THEN {Len(requests) + 1} ELSE {})
      BY ONLY <1>0, r \in Request, DisconnectsAppended
    <3> QED BY <3>1
  <2>2. requests # <<>> => Tail(requests) # Append(requests, r)
    BY <1>0
  <2>3. ~ProcessInvoke /\ ~ProcessDisconnect
    BY <1>2, <2>2 DEF ProcessInvoke, ProcessDisconnect, Popped
  <2> QED BY <1>2, <2>1, <2>3 DEF Disconnects
<1>3. ASSUME NEW c \in Calls, SendPool(c), open PROVE j \in Disconnects(d)' /\ ~ProcessInvoke /\ ~ProcessDisconnect
  <2>1. [kind |-> "invoke", call |-> c] \in Request
    BY DEF Request
  <2> QED BY <1>2, <1>3, <2>1 DEF SendPool
<1>4. ASSUME NEW e \in Dcs, SendDisconnect(e), open PROVE j \in Disconnects(d)' /\ ~ProcessInvoke /\ ~ProcessDisconnect
  <2>1. [kind |-> "disconnect", dc |-> e] \in Request
    BY DEF Request
  <2> QED BY <1>2, <1>4, <2>1 DEF SendDisconnect
<1>5. CASE SendQuit /\ open
  <2>1. [kind |-> "quit"] \in Request
    BY DEF Request
  <2> QED BY <1>2, <1>5, <2>1 DEF SendQuit
<1>6. CASE ProcessInvoke \/ ProcessDisconnect
  <2>1. requests # <<>> /\ requests' = Tail(requests) /\ Head(requests) = requests[1]
    BY <1>0, <1>6 DEF ProcessInvoke, ProcessDisconnect, Popped
  <2>2. CASE j = 1
    <3>1. requests[1].kind = "disconnect" /\ requests[1].dc = d
      BY <2>2 DEF Disconnects, DisconnectsIn
    <3>2. ProcessDisconnect /\ Head(requests).dc = d
      BY <1>6, <2>1, <3>1 DEF ProcessInvoke, Popped
    <3> QED BY <3>2, ReachEmpty
  <2>3. CASE j > 1
    <3>1. \A i : i \in DisconnectsIn(Tail(requests), d) <=> i \in Nat /\ i > 0 /\ i + 1 \in DisconnectsIn(requests, d)
      BY <1>0, <2>1, DisconnectsTaken
    <3>2. j - 1 \in Nat /\ j - 1 > 0 /\ (j - 1) + 1 = j
      BY <1>0, <2>3
    <3>3. j - 1 \in DisconnectsIn(Tail(requests), d)
      BY <3>1, <3>2 DEF Disconnects
    <3> QED BY <1>6, <2>1, <2>3, <3>3 DEF Disconnects
  <2> QED BY <1>0, <2>2, <2>3
<1>7. CASE Drain \/ DropFields
  BY <1>7, ReachEmpty
<1> QED BY <1>1, <1>3, <1>4, <1>5, <1>6, <1>7, QueueMoves


(* Where a call can come from, and what it keeps on the way *)
LEMMA CameFrom ==
    ASSUME NEW c \in Calls, call[c] \in CallRecord, Moves(c)
    PROVE  /\ call'[c].where \in {"new", "counted", "admitted", "routed", "fallback"} =>
                 /\ call[c].where \in {"new", "counted", "admitted", "routed", "fallback"}
                 /\ call'[c].barred \in {call[c].barred, old[Dc[c]]}
           /\ call'[c].where = "routed" =>
                 \/ call[c].where = "routed" /\ call'[c].at = call[c].at /\ call'[c].barred = call[c].barred
                 \/ /\ call[c].where = "admitted" /\ routes.entries[Dc[c]] # Nothing
                    /\ call'[c].at = routes.entries[Dc[c]] /\ call'[c].barred = call[c].barred
           /\ call'[c].where \in {"group", "queued", "flight"} =>
                 \/ /\ call[c].where \in {"routed", "group", "queued", "flight"} /\ call'[c].at = call[c].at
                    /\ call'[c].barred = call[c].barred
                 \/ /\ ProcessInvoke /\ Head(requests).call = c /\ call'[c].barred = call[c].barred
                    /\ call'[c].at \in Usable(Dc[c]) \cup {pending[Dc[c]], started + 1}
           /\ call'[c].where = "pool" =>
                 call[c].where \in {"fallback", "pool"} /\ call'[c].barred = call[c].barred
<1> USE DEF Moves, MovesTo, MovesAt, CallRecord, NewCall
<1>1. call'[c].where \in {"new", "counted", "admitted", "routed", "fallback"} =>
                 /\ call[c].where \in {"new", "counted", "admitted", "routed", "fallback"}
                 /\ call'[c].barred \in {call[c].barred, old[Dc[c]]}
  OBVIOUS
<1>2. call'[c].where = "routed" =>
                 \/ call[c].where = "routed" /\ call'[c].at = call[c].at /\ call'[c].barred = call[c].barred
                 \/ /\ call[c].where = "admitted" /\ routes.entries[Dc[c]] # Nothing
                    /\ call'[c].at = routes.entries[Dc[c]] /\ call'[c].barred = call[c].barred
  OBVIOUS
<1>3. call'[c].where \in {"group", "queued", "flight"} =>
                 \/ /\ call[c].where \in {"routed", "group", "queued", "flight"} /\ call'[c].at = call[c].at
                    /\ call'[c].barred = call[c].barred
                 \/ /\ ProcessInvoke /\ Head(requests).call = c /\ call'[c].barred = call[c].barred
                    /\ call'[c].at \in Usable(Dc[c]) \cup {pending[Dc[c]], started + 1}
  BY ZenonT(40)
<1>4. call'[c].where = "pool" => call[c].where \in {"fallback", "pool"} /\ call'[c].barred = call[c].barred
  OBVIOUS
<1> HIDE DEF Moves, MovesTo, MovesAt, CallRecord, NewCall
<1> QED BY <1>1, <1>2, <1>3, <1>4

LEMMA NextOutOfReach == ASSUME Inv, Next PROVE OutOfReach'
<1> DEFINE Early == {"new", "counted", "admitted", "routed", "fallback"}
<1>0. /\ started \in Nat /\ requests \in Seq(Request) /\ old \in [Dcs -> SUBSET Ids] /\ Dc \in [Calls -> Dcs]
      /\ \A c \in Calls : call[c] \in CallRecord /\ Dc[c] \in Dcs
      /\ Nothing = 0 /\ Ids \subseteq Nat /\ 0 \notin Ids /\ listed \subseteq Ids
  BY Limits DEF Inv, TypeOK
<1>1. /\ \A d \in Dcs : old[d] \subseteq 1 .. started
      /\ \A c \in Calls : call[c].barred \subseteq 1 .. started
      /\ started + 1 \notin 1 .. started
  BY <1>0 DEF Inv, Numbered
<1>2. /\ \A d \in Dcs : Disconnects(d) # {} \/ Reach(d) \cap old[d] = {}
      /\ \A c \in Calls : call[c].where \in Early => call[c].barred \subseteq old[Dc[c]]
      /\ \A c \in Calls : call[c].where = "routed" => call[c].at \notin call[c].barred
      /\ \A i \in DOMAIN requests : \A c \in Calls : Invokes(i, c) =>
            \/ \E j \in Disconnects(Dc[c]) : j < i
            \/ Reach(Dc[c]) \cap call[c].barred = {}
      /\ \A c \in Calls : call[c].where \in {"group", "queued", "flight"} => call[c].at \notin call[c].barred
  BY DEF Inv, OutOfReach, FreshAfterDisconnect
<1>3. \A d \in Dcs : old[d] \subseteq old'[d]
  BY <1>1, OldMoves
<1>4. \A d \in Dcs : \A B \in SUBSET (1 .. started) : Reach(d) \cap B = {} => Reach(d)' \cap B = {}
  BY <1>1, ReachGrows
<1>5. \A c \in Calls : Moves(c)
  BY CallMoves
<1>6. ASSUME NEW d \in Dcs PROVE Disconnects(d)' # {} \/ Reach(d)' \cap old'[d] = {}
  <2>1. CASE old'[d] = old[d]
    <3>1. CASE Reach(d) \cap old[d] = {}
      BY <1>1, <1>4, <2>1, <3>1
    <3>2. CASE Disconnects(d) # {}
      BY <3>2, DisconnectStays
    <3> QED BY <1>2, <3>1, <3>2
  <2>2. CASE SendDisconnect(d) /\ open
    <3> DEFINE r == [kind |-> "disconnect", dc |-> d]
    <3>1. r \in Request /\ r.kind = "disconnect" /\ r.dc = d /\ requests' = Append(requests, r)
      BY <2>2 DEF Request, SendDisconnect
    <3> HIDE DEF r
    <3>2. Len(requests) + 1 \in DOMAIN requests' /\ requests'[Len(requests) + 1] = r
      BY <1>0, <3>1, Appended
    <3> QED BY <3>1, <3>2 DEF Disconnects, DisconnectsIn
  <2> QED BY <2>1, <2>2, OldMoves
<1>7. ASSUME NEW c \in Calls, call'[c].where \in Early PROVE call'[c].barred \subseteq old'[Dc[c]]
  <2>1. /\ call[c].where \in Early
        /\ call'[c].barred \in {call[c].barred, old[Dc[c]]}
    BY <1>0, <1>5, <1>7, CameFrom
  <2> QED BY <1>0, <1>2, <1>3, <2>1
<1>8. ASSUME NEW c \in Calls, routes.entries[Dc[c]] # Nothing PROVE routes.entries[Dc[c]] \notin old[Dc[c]]
  <2> DEFINE d == Dc[c]
  <2>1. d \in Dcs /\ routes.entries[d] \in Reach(d)
    BY <1>0, <1>8 DEF Inv, Single, Reach
  <2>2. routes.disconnecting[d] = 0 /\ control.begun[d] \in Nat
    BY <1>0, <1>8 DEF Inv, Counted, TypeOK
  <2>3. IsFiniteSet(Disconnects(d)) /\ Cardinality(Disconnects(d)) \in Nat
    BY <1>0, DisconnectsFinite DEF Disconnects
  <2>4. routes.disconnecting[d] >= control.begun[d] + Cardinality(Disconnects(d))
    BY <2>1 DEF Inv, Counted
  <2>5. Cardinality(Disconnects(d)) = 0
    BY <2>2, <2>3, <2>4
  <2>6. Disconnects(d) = {}
    BY <2>3, <2>5, FS_EmptySet
  <2> QED BY <1>2, <2>1, <2>6
<1>9. ASSUME NEW c \in Calls, call'[c].where = "routed" PROVE call'[c].at \notin call'[c].barred
  <2>1. \/ call[c].where = "routed" /\ call'[c].at = call[c].at /\ call'[c].barred = call[c].barred
        \/ /\ call[c].where = "admitted" /\ routes.entries[Dc[c]] # Nothing
           /\ call'[c].at = routes.entries[Dc[c]] /\ call'[c].barred = call[c].barred
    BY <1>0, <1>5, <1>9, CameFrom
  <2> QED BY <1>2, <1>8, <2>1
<1>10. ASSUME NEW c \in Calls, call'[c].where \in {"group", "queued", "flight"}
       PROVE  call'[c].at \notin call'[c].barred
  <2>1. \/ /\ call[c].where \in {"routed", "group", "queued", "flight"} /\ call'[c].at = call[c].at
           /\ call'[c].barred = call[c].barred
        \/ /\ ProcessInvoke /\ Head(requests).call = c /\ call'[c].barred = call[c].barred
           /\ call'[c].at \in Usable(Dc[c]) \cup {pending[Dc[c]], started + 1}
    BY <1>0, <1>5, <1>10, CameFrom
  <2>2. ASSUME ProcessInvoke, Head(requests).call = c PROVE Reach(Dc[c]) \cap call[c].barred = {}
    <3>1. 1 \in DOMAIN requests /\ Invokes(1, c)
      BY <1>0, <2>2, QueueTyped DEF ProcessInvoke, Popped, Invokes, Inv
    <3>2. \A j \in Disconnects(Dc[c]) : ~(j < 1)
      BY <1>0 DEF Disconnects, DisconnectsIn
    <3> QED BY <1>2, <3>1, <3>2
  <2>3. Usable(Dc[c]) \subseteq Reach(Dc[c]) /\ pending[Dc[c]] \in Reach(Dc[c]) \cup {0}
    BY <1>0 DEF Usable, Reach
  <2>4. started + 1 \notin call[c].barred /\ 0 \notin call[c].barred
    BY <1>0, <1>1
  <2> QED BY <1>2, <2>1, <2>2, <2>3, <2>4
<1>11. ASSUME NEW i \in DOMAIN requests', NEW c \in Calls, Invokes(i, c)'
       PROVE  (\E j \in Disconnects(Dc[c])' : j < i) \/ Reach(Dc[c])' \cap call'[c].barred = {}
  <2> DEFINE d == Dc[c]
  <2>0. d \in Dcs
    BY <1>0
  <2>1. call'[c].where = "pool"
    BY <1>11, NextEnqueued DEF Enqueued
  <2>2. /\ call[c].where \in {"fallback", "pool"} /\ call'[c].barred = call[c].barred
    BY <1>0, <1>5, <2>1, CameFrom
  <2>3. SUFFICES ASSUME NEW n \in Nat,
                        \/ n = i /\ ~ProcessInvoke /\ ~ProcessDisconnect
                        \/ n = i + 1 /\ (ProcessInvoke \/ ProcessDisconnect),
                        (\E j \in Disconnects(d) : j < n) \/ Reach(d) \cap call[c].barred = {}
                 PROVE  (\E j \in Disconnects(d)' : j < i) \/ Reach(d)' \cap call[c].barred = {}
    <3>1. CASE i \in DOMAIN requests /\ Invokes(i, c) /\ ~ProcessInvoke /\ ~ProcessDisconnect
      <4>1. i \in Nat
        BY <1>0, <3>1
      <4> QED BY <1>2, <2>2, <3>1, <4>1
    <3>2. CASE ProcessInvoke \/ ProcessDisconnect
      <4>1. requests # <<>> /\ requests' = Tail(requests)
        BY <3>2 DEF ProcessInvoke, ProcessDisconnect, Popped
      <4>2. i + 1 \in DOMAIN requests /\ requests'[i] = requests[i + 1] /\ i + 1 \in Nat
        BY <1>0, <1>11, <4>1, Taken
      <4>3. Invokes(i + 1, c)
        BY <1>11, <4>2 DEF Invokes
      <4> QED BY <1>2, <2>2, <3>2, <4>2, <4>3
    <3>3. ASSUME NEW r \in Request, requests' = Append(requests, r), ~(i \in DOMAIN requests /\ Invokes(i, c))
          PROVE  i = Len(requests) + 1 /\ r.kind = "invoke" /\ r.call = c /\ ~ProcessInvoke /\ ~ProcessDisconnect
      <4>1. i \in DOMAIN requests => requests'[i] = requests[i]
        BY <1>0, <3>3, Appended
      <4>2. i \notin DOMAIN requests
        BY <1>11, <3>3, <4>1 DEF Invokes
      <4>3. i = Len(requests) + 1 /\ requests'[i] = r
        BY <1>0, <1>11, <3>3, <4>2, Appended
      <4>4. requests # <<>> => Tail(requests) # requests'
        BY <1>0, <3>3
      <4>5. ~ProcessInvoke /\ ~ProcessDisconnect
        BY <4>4 DEF ProcessInvoke, ProcessDisconnect, Popped
      <4> QED BY <1>11, <4>3, <4>5 DEF Invokes
    <3>4. ASSUME NEW b \in Calls, SendPool(b), open, ~(i \in DOMAIN requests /\ Invokes(i, c))
          PROVE  /\ i = Len(requests) + 1 /\ ~ProcessInvoke /\ ~ProcessDisconnect
                 /\ Disconnects(d) # {} \/ Reach(d) \cap call[c].barred = {}
      <4> DEFINE r == [kind |-> "invoke", call |-> b]
      <4>1. r \in Request /\ r.call = b /\ requests' = Append(requests, r)
        BY <3>4 DEF Request, SendPool
      <4> HIDE DEF r
      <4>2. i = Len(requests) + 1 /\ b = c /\ ~ProcessInvoke /\ ~ProcessDisconnect
        BY <3>3, <3>4, <4>1
      <4>3. call[c].where = "fallback"
        BY <3>4, <4>2 DEF SendPool
      <4> QED BY <1>2, <2>0, <4>2, <4>3
    <3>5. ASSUME NEW r \in Request, r.kind # "invoke", requests' = Append(requests, r)
          PROVE  i \in DOMAIN requests /\ Invokes(i, c) /\ ~ProcessInvoke /\ ~ProcessDisconnect
      <4>1. requests # <<>> => Tail(requests) # requests'
        BY <1>0, <3>5
      <4> QED BY <3>3, <3>5, <4>1 DEF ProcessInvoke, ProcessDisconnect, Popped
    <3>6. ASSUME NEW e \in Dcs, SendDisconnect(e), open
          PROVE  i \in DOMAIN requests /\ Invokes(i, c) /\ ~ProcessInvoke /\ ~ProcessDisconnect
      <4>1. [kind |-> "disconnect", dc |-> e] \in Request /\ [kind |-> "disconnect", dc |-> e].kind # "invoke"
        BY DEF Request
      <4>2. requests' = Append(requests, [kind |-> "disconnect", dc |-> e])
        BY <3>6 DEF SendDisconnect
      <4> QED BY <3>5, <4>1, <4>2
    <3>7. ASSUME SendQuit, open
          PROVE  i \in DOMAIN requests /\ Invokes(i, c) /\ ~ProcessInvoke /\ ~ProcessDisconnect
      <4>1. [kind |-> "quit"] \in Request /\ [kind |-> "quit"].kind # "invoke"
        BY DEF Request
      <4>2. requests' = Append(requests, [kind |-> "quit"])
        BY <3>7 DEF SendQuit
      <4> QED BY <3>5, <4>1, <4>2
    <3>8. ASSUME UNCHANGED requests
          PROVE  i \in DOMAIN requests /\ Invokes(i, c) /\ ~ProcessInvoke /\ ~ProcessDisconnect
      <4>1. requests # <<>> => Tail(requests) # requests
        BY <1>0
      <4> QED BY <1>11, <3>8, <4>1 DEF ProcessInvoke, ProcessDisconnect, Popped, Invokes
    <3>9. ~(Drain \/ DropFields)
      BY <1>11 DEF Drain, DropFields
    <3>10. CASE i = Len(requests) + 1 /\ ~ProcessInvoke /\ ~ProcessDisconnect /\ (Disconnects(d) # {} \/ Reach(d) \cap call[c].barred = {})
      <4>1. \A j \in Disconnects(d) : j < i
        BY <1>0, <3>10 DEF Disconnects, DisconnectsIn
      <4>2. i \in Nat /\ ((\E j \in Disconnects(d) : j < i) \/ Reach(d) \cap call[c].barred = {})
        BY <1>0, <3>10, <4>1
      <4> QED BY <2>2, <3>10, <4>2
    <3> QED BY <3>1, <3>2, <3>4, <3>6, <3>7, <3>8, <3>9, <3>10, QueueMoves
  <2>4. CASE Reach(d) \cap call[c].barred = {}
    BY <1>1, <1>4, <2>0, <2>4
  <2>5. ASSUME NEW j \in Disconnects(d), j < n PROVE (\E m \in Disconnects(d)' : m < i) \/ Reach(d)' = {}
    <3>1. j \in Nat /\ i \in Nat
      <4>1. requests' \in Seq(Request)
        BY NextTypes DEF TypeOK
      <4> QED BY <1>0, <4>1 DEF Disconnects, DisconnectsIn
    <3>2. \/ Reach(d)' = {}
          \/ j \in Disconnects(d)' /\ ~ProcessInvoke /\ ~ProcessDisconnect
          \/ j > 1 /\ j - 1 \in Disconnects(d)' /\ (ProcessInvoke \/ ProcessDisconnect)
      BY <2>0, DisconnectStays
    <3>3. CASE j \in Disconnects(d)' /\ ~ProcessInvoke /\ ~ProcessDisconnect
      BY <2>3, <2>5, <3>3
    <3>4. CASE j - 1 \in Disconnects(d)' /\ (ProcessInvoke \/ ProcessDisconnect)
      <4>1. n = i + 1 /\ j - 1 < i
        BY <2>3, <2>5, <3>1, <3>4
      <4> QED BY <3>4, <4>1
    <3> QED BY <3>2, <3>3, <3>4
  <2> QED BY <2>3, <2>4, <2>5
<1> QED BY <1>6, <1>7, <1>9, <1>10, <1>11 DEF OutOfReach, FreshAfterDisconnect


(* Failures and delays: a failure restarts the clock with its own delay *)
LEMMA NextDelays ==
    ASSUME Inv, Next, NEW d \in Dcs
    PROVE  pacing'[d].wait + since'[d] >= RetryDelay(pacing'[d].failures)
<1>0. /\ pacing \in PacingType /\ since \in [Dcs -> 0 .. DelayLimit] /\ DelayLimit \in Nat
      /\ pacing[d] \in [failures : Nat, wait : Nat, up : Never .. Stable] /\ since[d] \in 0 .. DelayLimit
      /\ pacing[d].wait + since[d] >= RetryDelay(pacing[d].failures)
  BY Limits DEF Inv, TypeOK, PacingType, Waited
<1>1. RetryDelay(pacing[d].failures) \in 0 .. DelayLimit
  BY <1>0, DelayBounded
<1>2. ASSUME UNCHANGED <<pacing, since>> PROVE pacing'[d].wait + since'[d] >= RetryDelay(pacing'[d].failures)
  BY <1>0, <1>2
<1>3. ASSUME NEW e \in Dcs, pacing' = FailureNoted(e), since' = [since EXCEPT ![e] = 0]
      PROVE  pacing'[d].wait + since'[d] >= RetryDelay(pacing'[d].failures)
  <2>1. CASE d = e
    <3>1. pacing'[d].wait = RetryDelay(pacing[d].failures + 1) /\ pacing'[d].failures = pacing[d].failures + 1 /\ since'[d] = 0
      BY <1>0, <1>3, <2>1 DEF FailureNoted, PacingType
    <3>2. pacing[d].failures + 1 \in Nat
      BY <1>0
    <3>3. RetryDelay(pacing[d].failures + 1) \in 0 .. DelayLimit
      BY ONLY <3>2, DelayBounded
    <3> QED BY <1>0, <3>1, <3>3
  <2>2. CASE d # e
    <3>1. pacing'[d] = pacing[d] /\ since'[d] = since[d]
      BY <1>0, <1>3, <2>2 DEF FailureNoted, PacingType
    <3> QED BY <1>0, <3>1
  <2> QED BY <2>1, <2>2
<1>4. ASSUME NEW e \in Dcs, pacing' = Forgotten(e), since' = since
      PROVE  pacing'[d].wait + since'[d] >= RetryDelay(pacing'[d].failures)
  <2>1. CASE pacing'[d] = pacing[d]
    BY <1>0, <1>4, <2>1
  <2>2. CASE pacing'[d] = [pacing[d] EXCEPT !.failures = 0]
    <3>1. pacing'[d].failures = 0 /\ pacing'[d].wait = pacing[d].wait
      BY <1>0, <2>2
    <3>2. RetryDelay(0) = 0
      BY DEF RetryDelay
    <3> QED BY <1>0, <1>4, <3>1, <3>2
  <2> QED BY <1>0, <1>4, <2>1, <2>2 DEF Forgotten, PacingType
<1>5. ASSUME NEW s \in Ids, FinishFailed(s) PROVE pacing'[d].wait + since'[d] >= RetryDelay(pacing'[d].failures)
  <2>1. setups[s].dc \in Dcs
    BY <1>5, FinishTypes
  <2>2. \/ UNCHANGED <<pacing, since>>
        \/ pacing' = FailureNoted(setups[s].dc) /\ since' = [since EXCEPT ![setups[s].dc] = 0]
    BY <1>5 DEF FinishFailed
  <2> QED BY <1>2, <1>3, <2>1, <2>2
<1>6. ASSUME NEW s \in Ids, FinishConnected(s) PROVE pacing'[d].wait + since'[d] >= RetryDelay(pacing'[d].failures)
  <2>1. pacing' = [pacing EXCEPT ![setups[s].dc].up = 0] /\ since' = since
    BY <1>6 DEF FinishConnected
  <2>2. pacing'[d].wait = pacing[d].wait /\ pacing'[d].failures = pacing[d].failures
    BY <1>0, <2>1 DEF PacingType
  <2> QED BY <1>0, <2>1, <2>2
<1>7. ASSUME NEW k \in Ids, RecordCompletion(k) PROVE pacing'[d].wait + since'[d] >= RetryDelay(pacing'[d].failures)
  <2>1. setups[k].dc \in Dcs
    BY <1>7, CompletionTypes
  <2>2. \/ UNCHANGED <<pacing, since>>
        \/ pacing' = FailureNoted(setups[k].dc) /\ since' = [since EXCEPT ![setups[k].dc] = 0]
        \/ pacing' = Forgotten(setups[k].dc) /\ since' = since
    BY <1>7 DEF RecordCompletion
  <2> QED BY <1>2, <1>3, <1>4, <2>1, <2>2
<1>8. CASE ProcessDisconnect
  <2>1. Head(requests).dc \in Dcs /\ pacing' = Forgotten(Head(requests).dc) /\ since' = since
    BY <1>8, DisconnectCounted DEF Inv, ProcessDisconnect
  <2> QED BY <1>4, <2>1
<1>9. CASE Tick
  <2>1. pacing'[d] = [pacing[d] EXCEPT !.wait = Max2(@ - 1, 0), !.up = IF @ \in 0 .. Stable - 1 THEN @ + 1 ELSE @]
    BY <1>9 DEF Tick
  <2>2. pacing'[d].wait = Max2(pacing[d].wait - 1, 0) /\ pacing'[d].failures = pacing[d].failures
    BY <1>0, <2>1
  <2>3. since'[d] = Min2(since[d] + 1, DelayLimit)
    BY <1>9 DEF Tick
  <2>4. pacing[d].wait \in Nat /\ RetryDelay(pacing[d].failures) <= DelayLimit /\ RetryDelay(pacing[d].failures) \in Int
    BY <1>0, <1>1
  <2>5. Max2(pacing[d].wait - 1, 0) + Min2(since[d] + 1, DelayLimit) >= RetryDelay(pacing[d].failures)
    BY <1>0, <2>4 DEF Max2, Min2
  <2> QED BY <2>2, <2>3, <2>5
<1>10. CASE Control \/ ProcessInvoke \/ ProcessQuit \/ CloseAfterDrive \/ Drain \/ FinishRun \/ DropFields
  <2>1. UNCHANGED <<pacing, since>>
    BY <1>10 DEF Control, Activate, BeginQuit, SendQuit, DropRunner, BeginDisconnect, SendDisconnect, ProcessInvoke, ProcessQuit,
           CloseAfterDrive, Drain, FinishRun, DropFields, taskVars
  <2> QED BY <1>2, <2>1
<1>11. ASSUME NEW s \in Ids, Setup(s) \/ PanicConnect(s) \/ Break(s) \/ EndTask(s) \/ JoinPanicked(s) PROVE UNCHANGED <<pacing, since>>
  BY <1>11 DEF Setup, Connect, EndConnect, CancelConnect, AbortConnect, PanicConnect, Break, EndTask, JoinPanicked, taskVars
<1>12. ASSUME NEW e \in Dcs, PollClosed(e) PROVE UNCHANGED <<pacing, since>>
  BY <1>12 DEF PollClosed
<1>13. ASSUME NEW c \in Calls, Admit(c) \/ Submit(c) \/ Cancel(c) \/ Retire(c) \/ Receive(c) \/ Answer(c)
       PROVE  UNCHANGED <<pacing, since>>
  BY <1>13 DEF Admit, Submit, AdmitBytes, TryRoute, SendRoute, SendPool, Cancel, Retire, DropPermit, Respond,
               Receive, Answer, taskVars
<1>14. CASE Runner
  BY <1>2, <1>5, <1>6, <1>7, <1>8, <1>10, <1>11, <1>12, <1>14 DEF Runner
<1> QED BY <1>2, <1>9, <1>10, <1>11, <1>13, <1>14 DEF Next, Connection

(* What a setup owes is within what it waits, and nothing when it connects *)
PacedAt(s) ==
    /\ setups[s].state = "pacing" => setups[s].owed <= setups[s].wait
    /\ setups[s].state \in {"connecting", "connected", "failed"} => setups[s].owed = 0

LEMMA NextPaced == ASSUME Inv, Next, NEW s \in Ids PROVE PacedAt(s)'
<1>0. setups \in [Ids -> SetupRecord] /\ setups[s] \in SetupRecord /\ PacedAt(s) /\ setups[s].wait \in Nat /\ setups[s].owed \in Nat
  BY DEF Inv, TypeOK, Waited, Paced, PacedAt, SetupRecord
<1>1. ASSUME setups'[s] = setups[s] PROVE PacedAt(s)'
  BY <1>0, <1>1 DEF PacedAt
<1>2. ASSUME NEW S, setups' = Aborted(S) PROVE PacedAt(s)'
  <2>1. Aborted(S)[s].state = setups[s].state /\ Aborted(S)[s].wait = setups[s].wait /\ Aborted(S)[s].owed = setups[s].owed
    BY <1>0, AbortedSetups
  <2> QED BY <1>0, <1>2, <2>1 DEF PacedAt
<1>3. ASSUME NEW t \in Ids, setups' = [setups EXCEPT ![t] = Joined(t)] PROVE PacedAt(s)'
  <2>1. CASE s = t
    <3>1. setups'[s].state = "joined"
      BY <1>0, <1>3, <2>1 DEF Joined, NoSetup
    <3> QED BY <3>1 DEF PacedAt
  <2>2. CASE s # t
    BY <1>0, <1>1, <1>3, <2>2
  <2> QED BY <2>1, <2>2
<1>4. ASSUME NEW t \in Ids, NEW w, setups' = [setups EXCEPT ![t].state = w],
             \/ w = "connecting" /\ setups[t].state = "pacing" /\ setups[t].wait = 0
             \/ w \in {"connected", "failed", "invalid"} /\ setups[t].state = "connecting"
             \/ w \in {"dropped", "panicked"}
      PROVE  PacedAt(s)'
  <2>1. CASE s = t
    <3>1. setups'[s].state = w /\ setups'[s].owed = setups[s].owed
      BY <1>0, <1>4, <2>1 DEF SetupRecord
    <3> QED BY <1>0, <1>4, <2>1, <3>1 DEF PacedAt
  <2>2. CASE s # t
    BY <1>0, <1>1, <1>4, <2>2
  <2> QED BY <2>1, <2>2
<1>5. ASSUME NEW t \in Ids, Setup(t) \/ PanicConnect(t) PROVE PacedAt(s)'
  <2>1. CASE Connect(t)
    BY <1>4, <2>1 DEF Connect
  <2>2. CASE EndConnect(t)
    BY <1>4, <2>2 DEF EndConnect
  <2>3. CASE CancelConnect(t)
    BY <1>4, <2>3 DEF CancelConnect
  <2>4. CASE AbortConnect(t)
    BY <1>3, <2>4 DEF AbortConnect
  <2>5. CASE PanicConnect(t)
    BY <1>4, <2>5 DEF PanicConnect
  <2> QED BY <1>5, <2>1, <2>2, <2>3, <2>4, <2>5 DEF Setup
<1>6. ASSUME NEW t \in Ids, FinishFailed(t) \/ FinishConnected(t) PROVE PacedAt(s)'
  BY <1>3, <1>6 DEF FinishFailed, FinishConnected
<1>7. CASE Tick
  <2>1. setups'[s] = [setups[s] EXCEPT !.wait = Max2(@ - 1, 0), !.owed = Max2(@ - 1, 0)]
    BY <1>7 DEF Tick
  <2>2. /\ setups'[s].state = setups[s].state /\ setups'[s].wait = Max2(setups[s].wait - 1, 0)
        /\ setups'[s].owed = Max2(setups[s].owed - 1, 0)
    BY <1>0, <2>1 DEF SetupRecord
  <2> QED BY <1>0, <2>2 DEF PacedAt, Max2
<1>8. CASE ProcessInvoke
  <2>1. CASE UNCHANGED setups
    BY <1>1, <2>1
  <2>2. ASSUME NEW c \in Calls, SetupStarts(c) PROVE PacedAt(s)'
    <3> DEFINE d == Dc[c]
    <3>1. CASE s = started + 1
      <4>1. /\ setups'[s].state = "pacing" /\ setups'[s].wait = pacing[d].wait
            /\ setups'[s].owed = Max2(RetryDelay(pacing[d].failures) - since[d], 0)
        BY <1>0, <2>2, <3>1 DEF SetupStarts
      <4>2. d \in Dcs /\ pacing[d].wait \in Nat /\ pacing[d].failures \in Nat /\ since[d] \in Int
        BY Limits DEF Inv, TypeOK
      <4>3. RetryDelay(pacing[d].failures) \in Int
        BY <4>2, DelayBounded
      <4>4. pacing[d].wait + since[d] >= RetryDelay(pacing[d].failures)
        BY <4>2 DEF Inv, Waited
      <4>5. Max2(RetryDelay(pacing[d].failures) - since[d], 0) <= pacing[d].wait
        BY <4>2, <4>3, <4>4 DEF Max2
      <4> QED BY <4>1, <4>5 DEF PacedAt
    <3>2. CASE s # started + 1
      <4>1. setups'[s] = setups[s]
        BY <1>0, <2>2, <3>2 DEF SetupStarts
      <4> QED BY <1>1, <4>1
    <3> QED BY <3>1, <3>2
  <2>3. CASE StartSetup(Head(requests).call)
    <3>1. CASE pending[Dc[Head(requests).call]] # Nothing
      BY <2>1, <2>3, <3>1 DEF StartSetup
    <3>2. CASE pending[Dc[Head(requests).call]] = Nothing
      <4>1. started \in Nat /\ started' = Max2(started, started + 1)
        BY <2>3, <3>2, Limits DEF StartSetup, Inv, TypeOK
      <4>2. started' # started
        BY <4>1 DEF Max2
      <4> QED BY <2>2, <4>2, SetupsMove
    <3> QED BY <3>1, <3>2
  <2> QED BY <1>8, <2>1, <2>3 DEF ProcessInvoke
<1>9. CASE ProcessDisconnect
  BY <1>2, <1>9 DEF ProcessDisconnect, CancelSetup
<1>10. ASSUME NEW d \in Dcs, PollClosed(d) PROVE PacedAt(s)'
  <2>1. UNCHANGED setups \/ setups' = Aborted({pending[d]} \cap Ids)
    BY <1>10 DEF PollClosed, CancelSetup
  <2> QED BY <1>1, <1>2, <2>1
<1>11. CASE Drain \/ DropFields
  BY <1>2, <1>11 DEF Drain, DropFields
<1>12. ASSUME NEW t \in Ids, JoinPanicked(t) \/ RecordCompletion(t) \/ Break(t) \/ EndTask(t) PROVE UNCHANGED setups
  BY <1>12 DEF JoinPanicked, RecordCompletion, Break, EndTask, taskVars
<1>13. CASE Control \/ ProcessQuit \/ CloseAfterDrive \/ FinishRun
  <2>1. UNCHANGED setups
    BY <1>13 DEF Control, Activate, BeginQuit, SendQuit, DropRunner, BeginDisconnect, SendDisconnect, ProcessQuit,
           CloseAfterDrive, FinishRun, taskVars
  <2> QED BY <1>1, <2>1
<1>14. ASSUME NEW c \in Calls, Admit(c) \/ Submit(c) \/ Cancel(c) \/ Retire(c) \/ Receive(c) \/ Answer(c)
       PROVE  UNCHANGED setups
  BY <1>14 DEF Admit, Submit, AdmitBytes, TryRoute, SendRoute, SendPool, Cancel, Retire, DropPermit, Respond,
               Receive, Answer, taskVars
<1>15. CASE Runner
  BY <1>1, <1>6, <1>8, <1>9, <1>10, <1>11, <1>12, <1>13, <1>15 DEF Runner
<1> QED BY <1>1, <1>5, <1>7, <1>12, <1>13, <1>14, <1>15 DEF Next, Connection

LEMMA NextWaited == ASSUME Inv, Next PROVE Waited'
BY NextDelays, NextPaced DEF Waited, Paced, PacedAt


(* The units of weight that calls hold when w is what each of them weighs *)
Weights == [Calls -> 0 .. ByteLimit]
Units(w) == {p \in Calls \X (1 .. ByteLimit) : p[2] <= w[p[1]]}

LEMMA UnitsFinite == ASSUME NEW w PROVE IsFiniteSet(Units(w)) /\ Cardinality(Units(w)) \in Nat
<1>1. IsFiniteSet(Calls) /\ IsFiniteSet(1 .. ByteLimit)
  BY Limits, FS_Interval
<1>2. IsFiniteSet(Calls \X (1 .. ByteLimit))
  BY <1>1, FS_Product
<1>3. Units(w) \in SUBSET (Calls \X (1 .. ByteLimit))
  BY DEF Units
<1>4. IsFiniteSet(Units(w))
  BY ONLY <1>2, <1>3, FS_Subset
<1> QED BY <1>4, FS_CardinalityType

(* A call that weighs nothing is given a weight *)
LEMMA UnitsAdded ==
    ASSUME NEW w \in Weights, NEW v \in Weights, NEW c \in Calls, w[c] = 0,
           \A b \in Calls : b # c => v[b] = w[b]
    PROVE  Cardinality(Units(v)) = Cardinality(Units(w)) + v[c]
<1> DEFINE block == {c} \X (1 .. v[c])
<1>1. v[c] \in Nat /\ v[c] <= ByteLimit /\ ByteLimit \in Nat
  BY Limits DEF Weights
<1>2. IsFiniteSet({c}) /\ Cardinality({c}) = 1
  BY FS_Singleton
<1>3. IsFiniteSet(block) /\ Cardinality(block) = v[c]
  <2>1. 1 \in Int /\ v[c] \in Int
    BY <1>1
  <2>2. IsFiniteSet(1 .. v[c]) /\ Cardinality(1 .. v[c]) = IF 1 > v[c] THEN 0 ELSE v[c] - 1 + 1
    BY ONLY <2>1, FS_Interval
  <2>3. Cardinality(1 .. v[c]) = v[c]
    BY <1>1, <2>2
  <2>4. IsFiniteSet(block) /\ Cardinality(block) = Cardinality({c}) * Cardinality(1 .. v[c])
    BY ONLY <1>2, <2>2, FS_Product
  <2> QED BY <1>1, <1>2, <2>3, <2>4
<1>4. Units(v) = Units(w) \cup block
  <2>1. ASSUME NEW p \in Units(v) PROVE p \in Units(w) \cup block
    BY <1>1 DEF Units, Weights
  <2>2. ASSUME NEW p \in Units(w) PROVE p \in Units(v)
    BY <1>1 DEF Units, Weights
  <2>3. ASSUME NEW p \in block PROVE p \in Units(v)
    BY <1>1 DEF Units, Weights
  <2> QED BY <2>1, <2>2, <2>3
<1>5. Units(w) \cap block = {}
  BY <1>1 DEF Units, Weights
<1> HIDE DEF block
<1>6. IsFiniteSet(Units(w)) /\ Cardinality(Units(w)) \in Nat
  BY UnitsFinite
<1>7. Cardinality(Units(w) \cap block) = 0
  BY <1>5, FS_EmptySet
<1>8. Cardinality(Units(w) \cup block) = Cardinality(Units(w)) + Cardinality(block) - Cardinality(Units(w) \cap block)
  BY <1>3, <1>6, FS_Union
<1> QED BY <1>1, <1>3, <1>4, <1>6, <1>7, <1>8


(* What a call holds at each place *)
PermitsAt(c) ==
    /\ call[c].weight <= ByteLimit
    /\ call[c].where \in {"new", "released", "over"} => ~call[c].slot
    /\ call[c].where \in {"new", "counted", "released", "over"} => call[c].weight = 0
    /\ call[c].where = "counted" => call[c].size <= ByteLimit
    /\ call[c].told => call[c].where = "over"

LEMMA NextPermitsAt == ASSUME Inv, Next, NEW c \in Calls PROVE PermitsAt(c)'
<1>1. Moves(c) /\ call[c] \in CallRecord
  BY CallMoves DEF Inv, TypeOK
<1>2. PermitsAt(c) /\ ByteLimit \in Nat
  BY Limits DEF Inv, Permits, PermitsAt
<1>3. ASSUME NEW w, NEW k, w \notin {"new", "counted", "released", "over"},
             call[c].where \notin {"released", "over"},
             call'[c] = [call[c] EXCEPT !.where = w] \/ call'[c] = [call[c] EXCEPT !.where = w, !.at = k]
               \/ call'[c] = [call[c] EXCEPT !.where = w, !.by = k]
      PROVE  PermitsAt(c)'
  <2>1. /\ call'[c].weight = call[c].weight /\ call'[c].told = call[c].told /\ call'[c].where = w
        /\ call'[c].slot = call[c].slot
    BY ONLY <1>1, <1>3 DEF CallRecord
  <2>2. ~call[c].told
    BY ONLY <1>2, <1>3 DEF PermitsAt
  <2> QED BY ONLY <1>2, <1>3, <2>1, <2>2 DEF PermitsAt
<1>4. CASE call'[c] = call[c] \/ call'[c] = [call[c] EXCEPT !.alive = FALSE]
  <2>1. /\ call'[c].weight = call[c].weight /\ call'[c].told = call[c].told /\ call'[c].where = call[c].where
        /\ call'[c].slot = call[c].slot /\ call'[c].size = call[c].size
    BY ONLY <1>1, <1>4 DEF CallRecord
  <2> QED BY ONLY <1>2, <2>1 DEF PermitsAt
<1>5. ASSUME NEW n, n <= ByteLimit, call[c].where = "new",
             call'[c] = [call[c] EXCEPT !.where = "counted", !.slot = TRUE, !.size = n, !.barred = old[Dc[c]]]
      PROVE  PermitsAt(c)'
  <2>1. call'[c].weight = call[c].weight /\ call'[c].told = call[c].told /\ call'[c].where = "counted" /\ call'[c].size = n
    BY ONLY <1>1, <1>5 DEF CallRecord
  <2>2. call[c].weight = 0 /\ ~call[c].told
    BY ONLY <1>2, <1>5 DEF PermitsAt
  <2> QED BY ONLY <1>2, <1>5, <2>1, <2>2 DEF PermitsAt
<1>6. CASE call[c].where = "counted" /\ call'[c] = [call[c] EXCEPT !.where = "admitted", !.weight = call[c].size]
  <2>1. call'[c].weight = call[c].size /\ call'[c].told = call[c].told /\ call'[c].where = "admitted"
    BY ONLY <1>1, <1>6 DEF CallRecord
  <2>2. call[c].size <= ByteLimit /\ ~call[c].told
    BY ONLY <1>2, <1>6 DEF PermitsAt
  <2> QED BY ONLY <2>1, <2>2 DEF PermitsAt
<1>7. CASE call[c].where = "doomed" /\ call'[c] = [call[c] EXCEPT !.where = "released", !.slot = FALSE, !.weight = 0]
  <2>1. call'[c].weight = 0 /\ call'[c].told = call[c].told /\ call'[c].where = "released" /\ call'[c].slot = FALSE
    BY ONLY <1>1, <1>7 DEF CallRecord
  <2>2. ~call[c].told /\ 0 <= ByteLimit
    BY ONLY <1>2, <1>7 DEF PermitsAt
  <2> QED BY ONLY <2>1, <2>2 DEF PermitsAt
<1>8. CASE /\ call[c].where = "released"
           /\ call'[c] = [NewCall EXCEPT !.where = "over", !.told = call[c].alive,
                                         !.slot = call[c].slot, !.weight = call[c].weight]
  <2>1. call'[c].weight = call[c].weight /\ call'[c].where = "over" /\ call'[c].slot = call[c].slot
    BY ONLY <1>8 DEF NewCall
  <2>2. call[c].weight = 0 /\ ~call[c].slot /\ 0 <= ByteLimit
    BY ONLY <1>2, <1>8 DEF PermitsAt
  <2> QED BY ONLY <2>1, <2>2 DEF PermitsAt
<1>9. ASSUME NEW w, w \notin {"new", "counted", "released", "over"}, call[c].where \notin {"released", "over"}, MovesTo(c, w)
      PROVE  PermitsAt(c)'
  BY <1>3, <1>9 DEF MovesTo
<1>10. ASSUME NEW w, w \notin {"new", "counted", "released", "over"}, call[c].where \notin {"released", "over"},
              NEW k, MovesAt(c, w, k)
       PROVE  PermitsAt(c)'
  BY <1>3, <1>10 DEF MovesAt
<1>11. ASSUME call[c].where = "group", call'[c] = [call[c] EXCEPT !.where = "doomed", !.by = call[c].at]
       PROVE  PermitsAt(c)'
  <2>1. "doomed" \notin {"new", "counted", "released", "over"} /\ call[c].where \notin {"released", "over"}
    BY <1>11
  <2> QED BY ONLY <1>3, <1>11, <2>1
<1>12. CASE Held(c) /\ MovesTo(c, "doomed")
  BY <1>9, <1>12 DEF Held
<1>13. CASE call[c].where \in {"routed", "group"} /\ MovesTo(c, "queued")
  BY <1>9, <1>13
<1>14. CASE call[c].where = "fallback" /\ MovesTo(c, "pool")
  BY <1>9, <1>14
<1>15. CASE call[c].where = "queued" /\ MovesTo(c, "flight")
  BY <1>9, <1>15
<1>16. ASSUME NEW k, call[c].where \in {"admitted", "routed", "pool"},
              \/ MovesAt(c, "fallback", k) \/ MovesAt(c, "routed", k)
              \/ MovesAt(c, "queued", k) \/ MovesAt(c, "group", k)
       PROVE  PermitsAt(c)'
  BY <1>10, <1>16
<1>17. CASE /\ call[c].where = "new" /\ Admit(c)
            /\ \E n \in Nat : /\ n <= ByteLimit
                              /\ call'[c] = [call[c] EXCEPT !.where = "counted", !.slot = TRUE, !.size = n,
                                                            !.barred = old[Dc[c]]]
  <2>1. PICK n \in Nat : /\ n <= ByteLimit
                         /\ call'[c] = [call[c] EXCEPT !.where = "counted", !.slot = TRUE, !.size = n,
                                                       !.barred = old[Dc[c]]]
    BY <1>17
  <2> QED BY ONLY <1>5, <1>17, <2>1
<1>18. CASE /\ call[c].where = "admitted"
            /\ \/ MovesAt(c, "fallback", Nothing)
               \/ routes.entries[Dc[c]] # Nothing /\ MovesAt(c, "routed", routes.entries[Dc[c]])
  BY <1>16, <1>18
<1>19. CASE call[c].where = "routed" /\ (MovesTo(c, "queued") \/ MovesAt(c, "fallback", Nothing))
  BY <1>13, <1>16, <1>19
<1>20. CASE /\ call[c].where = "pool" /\ ProcessInvoke /\ Head(requests).call = c
            /\ \/ \E k \in Usable(Dc[c]) : MovesAt(c, "queued", k)
               \/ MovesAt(c, "group", pending'[Dc[c]]) /\ pending'[Dc[c]] \in {pending[Dc[c]], started + 1}
  BY <1>16, <1>20
<1>21. CASE call[c].where = "group" /\ MovesTo(c, "queued")
  BY <1>13, <1>21
<1> QED BY ONLY <1>1, <1>4, <1>6, <1>7, <1>8, <1>11, <1>12, <1>14, <1>15, <1>17, <1>18, <1>19, <1>20, <1>21, Zenon DEF Moves

(* Nothing but admission and release changes what a call holds *)
PermitSteps == \E c \in Calls : Admit(c) \/ AdmitBytes(c) \/ DropPermit(c)

LEMMA PermitsStay ==
    ASSUME Inv, Next, ~PermitSteps
    PROVE  /\ UNCHANGED <<slots, bytes>>
           /\ \A c \in Calls : call'[c].slot = call[c].slot /\ call'[c].weight = call[c].weight
<1>1. ASSUME NEW c \in Calls PROVE call'[c].slot = call[c].slot /\ call'[c].weight = call[c].weight
  <2>1. Moves(c) /\ call[c] \in CallRecord /\ PermitsAt(c)
    BY CallMoves DEF Inv, TypeOK, Permits, PermitsAt
  <2>2. ~Admit(c) /\ ~AdmitBytes(c) /\ ~DropPermit(c)
    BY DEF PermitSteps
  <2> QED BY ONLY <2>1, <2>2 DEF Moves, MovesTo, MovesAt, PermitsAt, CallRecord, NewCall
<1>2. ASSUME NEW c \in Calls, Submit(c) \/ Cancel(c) \/ Retire(c) \/ Receive(c) \/ Answer(c)
      PROVE  UNCHANGED <<slots, bytes>>
  <2>1. ~AdmitBytes(c) /\ ~DropPermit(c)
    BY DEF PermitSteps
  <2> QED BY <1>2, <2>1 DEF Submit, TryRoute, SendRoute, SendPool, Cancel, Retire, Respond, Receive, Answer
<1>3. ASSUME NEW s \in Ids, Setup(s) \/ PanicConnect(s) PROVE UNCHANGED <<slots, bytes>>
  BY <1>3 DEF Setup, Connect, EndConnect, CancelConnect, AbortConnect, PanicConnect, callVars
<1>4. ASSUME NEW k \in Ids, Break(k) \/ EndTask(k) PROVE UNCHANGED <<slots, bytes>>
  BY <1>4 DEF Break, EndTask
<1>5. CASE Control \/ Tick
  BY <1>1, <1>5 DEF Control, Activate, BeginQuit, SendQuit, DropRunner, BeginDisconnect, SendDisconnect, Tick, callVars
<1>6. CASE Runner
  <2>1. ASSUME NEW s \in Ids, FinishFailed(s) \/ FinishConnected(s) PROVE UNCHANGED <<slots, bytes>>
    BY <2>1 DEF FinishFailed, FinishConnected
  <2>2. ASSUME NEW s \in Ids, JoinPanicked(s) \/ RecordCompletion(s) PROVE UNCHANGED <<slots, bytes>>
    BY <2>2 DEF JoinPanicked, RecordCompletion, callVars
  <2>3. ASSUME NEW d \in Dcs, PollClosed(d) PROVE UNCHANGED <<slots, bytes>>
    BY <2>3 DEF PollClosed
  <2>4. CASE ProcessInvoke \/ ProcessDisconnect \/ ProcessQuit
    BY <1>1, <2>4 DEF ProcessInvoke, ProcessDisconnect, ProcessQuit, callVars
  <2>5. CASE CloseAfterDrive \/ Drain \/ FinishRun \/ DropFields
    BY <1>1, <2>5 DEF CloseAfterDrive, Drain, FinishRun, DropFields, callVars
  <2> QED BY <1>1, <1>6, <2>1, <2>2, <2>3, <2>4, <2>5 DEF Runner
<1> QED BY <1>1, <1>2, <1>3, <1>4, <1>5, <1>6 DEF Next, Connection, PermitSteps

(* One step changes what one call holds, and the semaphores by the difference *)
LEMMA PermitStep ==
    ASSUME Inv, NEW c \in Calls, Admit(c) \/ AdmitBytes(c) \/ DropPermit(c)
    PROVE  /\ \A b \in Calls : b # c => call'[b].slot = call[b].slot /\ call'[b].weight = call[b].weight
           /\ slots' = slots + (IF call[c].slot THEN 1 ELSE 0) - (IF call'[c].slot THEN 1 ELSE 0)
           /\ bytes' = bytes + call[c].weight - call'[c].weight
           /\ call[c].weight = 0 \/ call'[c].weight = 0
<1>0. /\ call \in [Calls -> CallRecord] /\ call[c] \in CallRecord /\ PermitsAt(c) /\ slots \in Nat /\ bytes \in Nat
      /\ Sizes \subseteq Nat
  BY Limits DEF Inv, TypeOK, Permits, PermitsAt
<1>1. CASE call' = Doomed(call, {c}) /\ UNCHANGED <<slots, bytes>> /\ call[c].where \in {"new", "counted"}
  <2>1. \A b \in Calls : call'[b].slot = call[b].slot /\ call'[b].weight = call[b].weight
    BY <1>0, <1>1, DoomedCalls
  <2>2. call[c].weight = 0
    BY <1>0, <1>1 DEF PermitsAt
  <2>3. slots' = slots + (IF call[c].slot THEN 1 ELSE 0) - (IF call'[c].slot THEN 1 ELSE 0)
    <3>1. CASE call[c].slot
      <4>1. call'[c].slot
        BY <2>1, <3>1
      <4> QED BY <1>0, <1>1, <3>1, <4>1
    <3>2. CASE ~call[c].slot
      <4>1. ~call'[c].slot
        BY <2>1, <3>2
      <4> QED BY <1>0, <1>1, <3>2, <4>1
    <3> QED BY <3>1, <3>2
  <2>4. bytes' = bytes + call[c].weight - call'[c].weight
    <3>1. call'[c].weight = 0 /\ bytes' = bytes
      BY <1>1, <2>1, <2>2
    <3> QED BY <1>0, <2>2, <3>1
  <2> QED BY <2>1, <2>2, <2>3, <2>4
<1>2. CASE Admit(c)
  <2>1. CASE call' = Doomed(call, {c}) /\ UNCHANGED slots
    BY <1>1, <1>2, <2>1 DEF Admit
  <2>2. ASSUME NEW n \in Nat, slots > 0, slots' = slots - 1, UNCHANGED bytes, call[c].where = "new",
               call' = [call EXCEPT ![c].where = "counted", ![c].slot = TRUE, ![c].size = n, ![c].barred = old[Dc[c]]]
        PROVE  /\ \A b \in Calls : b # c => call'[b] = call[b]
               /\ call'[c].slot = TRUE /\ call[c].slot = FALSE /\ call'[c].weight = call[c].weight /\ call[c].weight = 0
    BY ONLY <1>0, <2>2 DEF CallRecord, PermitsAt
  <2>3. ASSUME NEW n \in Nat, slots > 0, slots' = slots - 1, UNCHANGED bytes, call[c].where = "new",
               call' = [call EXCEPT ![c].where = "counted", ![c].slot = TRUE, ![c].size = n, ![c].barred = old[Dc[c]]]
        PROVE  /\ \A b \in Calls : b # c => call'[b].slot = call[b].slot /\ call'[b].weight = call[b].weight
               /\ slots' = slots + (IF call[c].slot THEN 1 ELSE 0) - (IF call'[c].slot THEN 1 ELSE 0)
               /\ bytes' = bytes + call[c].weight - call'[c].weight
               /\ call[c].weight = 0 \/ call'[c].weight = 0
    <3>1. slots' = slots + (IF call[c].slot THEN 1 ELSE 0) - (IF call'[c].slot THEN 1 ELSE 0)
      <4>1. call'[c].slot /\ ~call[c].slot
        BY <2>2, <2>3
      <4> QED BY <1>0, <2>3, <4>1
    <3>2. bytes' = bytes + call[c].weight - call'[c].weight /\ call[c].weight = 0
      <4>1. call[c].weight = 0 /\ call'[c].weight = 0 /\ bytes' = bytes
        BY <2>2, <2>3
      <4> QED BY <1>0, <4>1
    <3>3. \A b \in Calls : b # c => call'[b] = call[b]
      BY <2>2, <2>3
    <3> QED BY <3>1, <3>2, <3>3
  <2>4. \/ call' = Doomed(call, {c}) /\ UNCHANGED slots
        \/ \E n \in Nat :
              /\ slots > 0 /\ slots' = slots - 1 /\ UNCHANGED bytes /\ call[c].where = "new"
              /\ call' = [call EXCEPT ![c].where = "counted", ![c].slot = TRUE, ![c].size = n, ![c].barred = old[Dc[c]]]
    BY <1>0, <1>2 DEF Admit
  <2> QED BY <2>1, <2>3, <2>4
<1>3. CASE AdmitBytes(c)
  <2>1. CASE call' = Doomed(call, {c}) /\ UNCHANGED bytes
    BY <1>1, <1>3, <2>1 DEF AdmitBytes
  <2>2. ASSUME bytes' = bytes - call[c].size, UNCHANGED slots, call[c].where = "counted",
               call' = [call EXCEPT ![c].where = "admitted", ![c].weight = call[c].size]
        PROVE  /\ \A b \in Calls : b # c => call'[b] = call[b]
               /\ call'[c].slot = call[c].slot /\ call'[c].weight = call[c].size /\ call[c].weight = 0
               /\ call[c].size \in Nat
    BY ONLY <1>0, <2>2 DEF CallRecord, PermitsAt
  <2> QED BY <1>0, <1>3, <2>1, <2>2 DEF AdmitBytes
<1>4. CASE DropPermit(c)
  <2>1. /\ \A b \in Calls : b # c => call'[b] = call[b]
        /\ call'[c].slot = FALSE /\ call'[c].weight = 0 /\ call[c].weight \in Nat
    BY <1>0, <1>4 DEF DropPermit, CallRecord
  <2> QED BY <1>0, <1>4, <2>1 DEF DropPermit
<1> QED BY <1>2, <1>3, <1>4

LEMMA NextPermits == ASSUME Inv, Next PROVE Permits'
<1>0. /\ call \in [Calls -> CallRecord] /\ call' \in [Calls -> CallRecord] /\ TypeOK'
      /\ slots \in Nat /\ bytes \in Nat /\ SlotLimit \in Nat /\ ByteLimit \in Nat
      /\ PermitsAccounted /\ \A c \in Calls : PermitsAt(c) /\ PermitsAt(c)'
  BY NextTypes, NextPermitsAt, Limits DEF Inv, TypeOK, Permits, PermitsAt
<1> DEFINE w == [c \in Calls |-> call[c].weight]
           v == [c \in Calls |-> call'[c].weight]
<1>1. w \in Weights /\ v \in Weights
  <2>1. ASSUME NEW c \in Calls PROVE call[c].weight \in 0 .. ByteLimit /\ call'[c].weight \in 0 .. ByteLimit
    <3>1. call[c] \in CallRecord /\ call'[c] \in CallRecord /\ PermitsAt(c) /\ PermitsAt(c)'
      BY <1>0
    <3> QED BY ONLY <1>0, <3>1 DEF CallRecord, PermitsAt
  <2> QED BY <2>1 DEF Weights
<1>2. BytesHeld = Units(w) /\ BytesHeld' = Units(v)
  BY DEF BytesHeld, Units
<1>3. Cardinality(BytesHeld) \in Nat /\ Cardinality(BytesHeld') \in Nat
  BY <1>2, UnitsFinite
<1>4. IsFiniteSet(Holders) /\ IsFiniteSet(Holders')
  BY Limits, FS_Subset DEF Holders
<1>5. Cardinality(Holders) \in Nat /\ Cardinality(Holders') \in Nat
  BY <1>4, FS_CardinalityType
<1>6. CASE ~PermitSteps
  <2>1. /\ UNCHANGED <<slots, bytes>>
        /\ \A c \in Calls : call'[c].slot = call[c].slot /\ call'[c].weight = call[c].weight
    BY <1>6, PermitsStay
  <2>2. Holders' = Holders /\ BytesHeld' = BytesHeld
    BY <2>1 DEF Holders, BytesHeld
  <2> QED BY <1>0, <2>1, <2>2 DEF Permits, PermitsAccounted, PermitsAt
<1>7. CASE PermitSteps
  <2>1. PICK c \in Calls : Admit(c) \/ AdmitBytes(c) \/ DropPermit(c)
    BY <1>7 DEF PermitSteps
  <2>2. /\ \A b \in Calls : b # c => call'[b].slot = call[b].slot /\ call'[b].weight = call[b].weight
        /\ slots' = slots + (IF call[c].slot THEN 1 ELSE 0) - (IF call'[c].slot THEN 1 ELSE 0)
        /\ bytes' = bytes + call[c].weight - call'[c].weight
        /\ call[c].weight = 0 \/ call'[c].weight = 0
    BY <2>1, PermitStep
  <2>3. Cardinality(Holders') = Cardinality(Holders) + (IF call'[c].slot THEN 1 ELSE 0)
                                                    - (IF call[c].slot THEN 1 ELSE 0)
    <3>1. CASE call[c].slot /\ ~call'[c].slot
      <4>1. Holders' = Holders \ {c} /\ c \in Holders
        BY <2>2, <3>1 DEF Holders
      <4>2. Cardinality(Holders \ {c}) = Cardinality(Holders) - 1
        BY <1>4, <4>1, FS_RemoveElement
      <4> QED BY <1>5, <3>1, <4>1, <4>2
    <3>2. CASE ~call[c].slot /\ call'[c].slot
      <4>1. Holders' = Holders \cup {c} /\ c \notin Holders
        BY <2>2, <3>2 DEF Holders
      <4>2. Cardinality(Holders \cup {c}) = Cardinality(Holders) + 1
        BY <1>4, <4>1, FS_AddElement
      <4> QED BY <1>5, <3>2, <4>1, <4>2
    <3>3. CASE call[c].slot <=> call'[c].slot
      <4>1. Holders' = Holders
        BY <2>2, <3>3 DEF Holders
      <4> QED BY <1>5, <3>3, <4>1
    <3> QED BY <3>1, <3>2, <3>3
  <2>4. Cardinality(BytesHeld') = Cardinality(BytesHeld) + call'[c].weight - call[c].weight
    <3>1. /\ w[c] = call[c].weight /\ v[c] = call'[c].weight /\ w[c] \in Nat /\ v[c] \in Nat
          /\ \A b \in Calls : b # c => v[b] = w[b]
      BY <1>1, <2>2, Limits DEF Weights
    <3> HIDE DEF w, v
    <3>2. CASE w[c] = 0
      <4>1. Cardinality(Units(v)) = Cardinality(Units(w)) + v[c]
        BY <1>1, <3>1, <3>2, UnitsAdded
      <4> QED BY <1>2, <1>3, <3>1, <3>2, <4>1
    <3>3. CASE v[c] = 0
      <4>1. Cardinality(Units(w)) = Cardinality(Units(v)) + w[c]
        BY <1>1, <3>1, <3>3, UnitsAdded
      <4> QED BY <1>2, <1>3, <3>1, <3>3, <4>1
    <3> QED BY <2>2, <3>1, <3>2, <3>3
  <2>5. call[c].weight \in Nat /\ call'[c].weight \in Nat
    BY <1>0 DEF CallRecord
  <2>6. slots' + Cardinality(Holders') = SlotLimit
    BY <1>0, <1>5, <2>2, <2>3 DEF PermitsAccounted
  <2>7. bytes' + Cardinality(BytesHeld') = ByteLimit
    <3> HIDE DEF w, v
    <3> QED BY <1>0, <1>3, <2>2, <2>4, <2>5 DEF PermitsAccounted
  <2> QED BY <1>0, <2>6, <2>7 DEF Permits, PermitsAccounted, PermitsAt
<1> QED BY <1>6, <1>7


-----------------------------------------------------------------------------
(* The theorems *)

LEMMA InitTypes == ASSUME Init PROVE TypeOK
<1>1. NewCall \in CallRecord
  BY DEF NewCall, CallRecord, Places, Nothing, Ids
<1>2. NoSetup \in SetupRecord /\ NoConn \in ConnRecord
  BY DEF NoSetup, NoConn, SetupRecord, ConnRecord
<1>3. Never \in Never .. Stable /\ DelayLimit \in 0 .. DelayLimit /\ 0 \in 0 .. MaxSetups
  BY Limits
<1>4. call \in [Calls -> CallRecord]
  BY <1>1 DEF Init
<1>5. setups \in [Ids -> SetupRecord] /\ conns \in [Ids -> ConnRecord]
  BY <1>2 DEF Init
<1>7. pacing \in [Dcs -> [failures : Nat, wait : Nat, up : Never .. Stable]]
  <2>1. PICK n \in Before : pacing = [d \in Dcs |-> [failures |-> n, wait |-> 0, up |-> Never]]
    BY DEF Init
  <2>2. n \in Nat
    BY PoolAssumption
  <2>3. [failures |-> n, wait |-> 0, up |-> Never] \in [failures : Nat, wait : Nat, up : Never .. Stable]
    BY <1>3, <2>2
  <2> QED BY <2>1, <2>3
<1>8. routes \in [entries : [Dcs -> Ids \cup {Nothing}], disconnecting : [Dcs -> Nat],
                  stopping : BOOLEAN, parked : BOOLEAN]
  BY PoolAssumption DEF Init
<1>9. control \in [calls : Nat, begun : [Dcs -> Nat], quit : {"no", "begun", "sent"}]
  BY DEF Init
<1>10. slots \in Nat /\ bytes \in Nat
  BY Limits DEF Init
<1>11. requests \in Seq(Request)
  BY DEF Init
<1> QED BY <1>3, <1>4, <1>5, <1>7, <1>8, <1>9, <1>10, <1>11 DEF Init, TypeOK

LEMMA InitInv == ASSUME Init PROVE Inv
<1>0. TypeOK
  BY InitTypes
<1>1. /\ \A c \in Calls : call[c] = NewCall
      /\ \A s \in Ids : setups[s] = NoSetup /\ conns[s] = NoConn
      /\ requests = <<>> /\ listed = {} /\ started = 0 /\ phase = "driving"
      /\ \A d \in Dcs : pending[d] = Nothing /\ old[d] = {} /\ since[d] = DelayLimit
  BY DEF Init
<1>2. /\ \A d \in Dcs : routes.entries[d] = Nothing /\ routes.disconnecting[d] = 0 /\ control.begun[d] = 0
      /\ ~routes.stopping
  <2>1. PICK p \in Parking : routes = [entries |-> [d \in Dcs |-> Nothing],
                                      disconnecting |-> [d \in Dcs |-> 0], stopping |-> FALSE, parked |-> p]
    BY DEF Init
  <2>2. ~routes.stopping /\ routes.entries = [d \in Dcs |-> Nothing] /\ routes.disconnecting = [d \in Dcs |-> 0]
    BY <2>1
  <2>3. control.begun = [d \in Dcs |-> 0]
    BY DEF Init
  <2> QED BY <2>2, <2>3
<1>3. Numbered
  <2>1. ASSUME NEW s \in Ids PROVE setups[s] = NoSetup /\ setups[s].state = "none" /\ conns[s].state = "none"
    <3>1. setups[s] = NoSetup /\ conns[s] = NoConn
      BY <1>1
    <3>2. NoSetup.state = "none" /\ NoConn.state = "none"
      BY DEF NoSetup, NoConn
    <3> QED BY <3>1, <3>2
  <2>2. \A c \in Calls : call[c].barred = {}
    BY <1>1 DEF NewCall
  <2> QED BY <1>1, <2>1, <2>2 DEF Numbered
<1>4. Stopping
  BY <1>1, <1>2 DEF Stopping
<1>5. Single
  BY <1>1, <1>2 DEF Single, UsableAt
<1>6. ResultOwned
  BY <1>1 DEF ResultOwned, NewCall
<1>7. DOMAIN requests = {}
  BY <1>1
<1>8. Enqueued
  BY <1>7 DEF Enqueued
<1>9. Counted
  <2>1. \A d \in Dcs : Disconnects(d) = {}
    BY <1>7 DEF Disconnects, DisconnectsIn
  <2>2. Cardinality({}) = 0
    BY FS_EmptySet
  <2> QED BY <1>2, <2>1, <2>2 DEF Counted
<1>10. OutOfReach
  <2>1. \A c \in Calls : call[c].where = "new" /\ call[c].barred = {}
    BY <1>1 DEF NewCall
  <2> QED BY <1>1, <1>7, <2>1 DEF OutOfReach, FreshAfterDisconnect
<1>11. Waited
  <2>1. \A d \in Dcs : pacing[d].wait + since[d] >= RetryDelay(pacing[d].failures)
    <3>1. PICK n \in Before : pacing = [d \in Dcs |-> [failures |-> n, wait |-> 0, up |-> Never]]
      BY DEF Init
    <3>2. n \in Nat
      BY PoolAssumption
    <3>3. RetryDelay(n) \in 0 .. DelayLimit
      BY <3>2, DelayBounded
    <3>4. ASSUME NEW d \in Dcs PROVE pacing[d].wait = 0 /\ pacing[d].failures = n /\ since[d] = DelayLimit
      BY <1>1, <3>1
    <3> QED BY <3>3, <3>4, Limits
  <2>2. \A s \in Ids : setups[s].state = "none"
    BY <1>1 DEF NoSetup
  <2> QED BY <2>1, <2>2 DEF Waited, Paced
<1>12. Permits
  <2>1. \A c \in Calls : call[c].where = "new" /\ call[c].slot = FALSE /\ call[c].weight = 0 /\ call[c].told = FALSE
    BY <1>1 DEF NewCall
  <2>2. Holders = {}
    BY <2>1 DEF Holders
  <2>3. BytesHeld = {}
    BY <2>1, Limits DEF BytesHeld
  <2>4. slots = SlotLimit /\ bytes = ByteLimit /\ Cardinality({}) = 0
    BY FS_EmptySet DEF Init
  <2>5. PermitsAccounted
    BY <2>2, <2>3, <2>4, Limits DEF PermitsAccounted
  <2> QED BY <2>1, <2>5, Limits DEF Permits
<1> QED BY <1>0, <1>3, <1>4, <1>5, <1>6, <1>8, <1>9, <1>10, <1>11, <1>12 DEF Inv

LEMMA StutterInv == ASSUME Inv, UNCHANGED vars PROVE Inv'
<1>1. UNCHANGED <<call, slots, bytes, routes, control, requests, open, phase, failed, pending, setups, conns,
                  listed, pacing, started, old, since>>
  BY DEF vars, callVars, queueVars, taskVars
<1>2. TypeOK'
  BY <1>1 DEF Inv, TypeOK
<1>3. Numbered' /\ Stopping'
  BY <1>1 DEF Inv, Numbered, Stopping
<1>4. Single'
  BY <1>1 DEF Inv, Single, UsableAt, IsOpen
<1>5. ResultOwned' /\ Enqueued'
  BY <1>1 DEF Inv, ResultOwned, Enqueued, Invokes
<1>6. Counted'
  BY <1>1 DEF Inv, Counted, Disconnects
<1>7. OutOfReach'
  BY <1>1 DEF Inv, OutOfReach, FreshAfterDisconnect, Disconnects, Reach, Invokes
<1>8. Waited'
  BY <1>1 DEF Inv, Waited, Paced
<1>9. Permits'
  BY <1>1 DEF Inv, Permits, PermitsAccounted, Holders, BytesHeld
<1> QED BY <1>2, <1>3, <1>4, <1>5, <1>6, <1>7, <1>8, <1>9 DEF Inv

(* The invariant the others rest on: it holds at the start and every step of a
   caller, of the runner, of a task, of disconnect and quit and of time keeps it *)
THEOREM PoolInvariance == Spec => []Inv
<1>1. Inv /\ [Next]_vars => Inv'
  <2>1. ASSUME Inv, Next PROVE Inv'
    BY <2>1, NextTypes, NextNumbered, NextStopping, NextSingle, NextResultOwned, NextEnqueued, NextCounted,
       NextOutOfReach, NextWaited, NextPermits DEF Inv
  <2> QED BY <2>1, StutterInv
<1> QED BY InitInv, <1>1, PTL DEF Spec

(* The variables of the pool keep their types *)
THEOREM TypeCorrect == Spec => []TypeOK
<1>1. Inv => TypeOK
  BY DEF Inv
<1> QED BY <1>1, PoolInvariance, PTL

(* Free permits and those that requests hold add up to the limits, however a
   request is admitted, routed, given up or answered *)
THEOREM PermitsAccountedCorrect == Spec => []PermitsAccounted
<1>1. Inv => PermitsAccounted
  BY DEF Inv, Permits
<1> QED BY <1>1, PoolInvariance, PTL

(* A caller that has heard of its request finds its permits free: on each of the
   ways a request ends, and both semaphores are full when nothing is under way *)
THEOREM PermitBackBeforeToldCorrect == Spec => []PermitBackBeforeTold
<1>1. Inv => \A c \in Calls : call[c].told => ~call[c].slot /\ call[c].weight = 0
  BY DEF Inv, Permits
<1>2. ASSUME Inv, \A c \in Calls : call[c].where \in {"new", "over"}
      PROVE  slots = SlotLimit /\ bytes = ByteLimit
  <2>1. \A c \in Calls : ~call[c].slot /\ call[c].weight = 0
    BY <1>2 DEF Inv, Permits
  <2>2. Holders = {} /\ BytesHeld = {}
    BY <2>1 DEF Holders, BytesHeld
  <2>3. Cardinality(Holders) = 0 /\ Cardinality(BytesHeld) = 0
    BY <2>2, FS_EmptySet
  <2> QED BY <1>2, <2>3 DEF Inv, TypeOK, Permits, PermitsAccounted
<1>3. Inv => PermitBackBeforeTold
  BY <1>1, <1>2 DEF PermitBackBeforeTold
<1> QED BY <1>3, PoolInvariance, PTL

(* What a run checks of the permits: both of the above, for any calls, sizes and
   limits *)
THEOREM PermitsKeptCorrect == Spec => []PermitsKept
<1>1. PermitsAccounted /\ PermitBackBeforeTold => PermitsKept
  BY DEF PermitsKept
<1> QED BY <1>1, PermitsAccountedCorrect, PermitBackBeforeToldCorrect, PTL

(* A datacenter has one usable connection, no setup while it has one, and a
   route that the runner knows *)
THEOREM OneConnectionCorrect == Spec => []OneConnection
<1>1. ASSUME NEW S, \A j, k \in S : j = k PROVE Cardinality(S) <= 1
  <2>1. CASE S = {}
    BY <2>1, FS_EmptySet
  <2>2. CASE S # {}
    <3>1. PICK k : k \in S
      BY <2>2
    <3>2. S = {k}
      BY <1>1, <3>1
    <3> QED BY <3>2, FS_Singleton
  <2> QED BY <2>1, <2>2
<1>2. ASSUME Inv PROVE OneConnection
  <2>1. \A d \in Dcs : Cardinality(UsableAt(d)) <= 1
    BY <1>1, <1>2 DEF Inv, Single
  <2> QED BY <1>2, <2>1 DEF Inv, Single, UsableAt, OneConnection
<1> QED BY <1>2, PoolInvariance, PTL

(* The result of a setup reaches the requests that waited for it and no others *)
THEOREM StaleSetupIgnoredCorrect == Spec => []StaleSetupIgnored
<1>1. Inv => StaleSetupIgnored
  BY DEF Inv, ResultOwned, StaleSetupIgnored
<1> QED BY <1>1, PoolInvariance, PTL

(* A call that is made after disconnect_from_dc has returned is not given a
   connection or a setup that was there when it returned *)
THEOREM FreshAfterDisconnectCorrect == Spec => []FreshAfterDisconnect
<1>1. Inv => FreshAfterDisconnect
  BY DEF Inv, OutOfReach
<1> QED BY <1>1, PoolInvariance, PTL

(* No setup goes to the network before the delay that failures demand is over *)
THEOREM PacedCorrect == Spec => []Paced
<1>1. Inv => Paced
  BY DEF Inv, Waited
<1> QED BY <1>1, PoolInvariance, PTL

=============================================================================
