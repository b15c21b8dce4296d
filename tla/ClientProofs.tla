---------------------------- MODULE ClientProofs ----------------------------
(***************************************************************************)
(* Proofs about the modules of Client.  Each component has an inductive    *)
(* invariant, a conjunction of named parts, and a theorem that its steps   *)
(* keep it; the properties that runs check follow from them.               *)
(***************************************************************************)
EXTENDS Client, FiniteSets, FiniteSetTheorems, TLAPS

-----------------------------------------------------------------------------
(* Login.  What a call has reached says what the datacenters know of the key *)

LoginSteps ==
    {"idle", "export", "import", "import bot", "send code", "sign in", "proof", "fresh password", "check",
     "get password", "finish", "move home", "state", "record", "positions"}
LoginTypes ==
    /\ place \in LoginDcs /\ home \in LoginDcs /\ twoFactor \in BOOLEAN
    /\ account \in [LoginDcs -> {"none", "challenge", "user"}]
    /\ recorded \in [user : BOOLEAN, positions : BOOLEAN]
    /\ login \in [flow : {"none", "qr", "bot", "code", "sign in", "password"}, pc : LoginSteps,
                  dc : LoginDcs \cup {SignIn!NoDc}, visited : SUBSET LoginDcs, state : BOOLEAN, fresh : BOOLEAN]

(* A call is under way exactly while there is no result *)
ResultOrCall == result = "running" \/ login = SignIn!Idle

(* Each flow has its steps; all of them end in complete_login *)
FlowSteps ==
    /\ login.pc \in {"export", "import", "finish", "move home"} => login.flow = "qr"
    /\ login.pc = "import bot" => login.flow = "bot"
    /\ login.pc = "send code" => login.flow = "code"
    /\ login.pc = "sign in" => login.flow = "sign in"
    /\ login.pc = "get password" => login.flow \in {"qr", "sign in"}

(* The datacenter that a QR login turns to, or home, knows the user or waits for
   the password *)
KnownThere ==
    /\ login.pc = "finish" => account[SignIn!Target] = "user"
    /\ login.pc = "move home" => account[SignIn!Target] = "challenge"
    /\ login.pc = "get password" =>
         account[IF login.flow = "qr" THEN SignIn!Target ELSE home] = "challenge"
    /\ login.pc \in {"state", "record", "positions"} => account[home] = "user"
    /\ login.pc = "positions" => recorded.user

LoginInv ==
    /\ LoginTypes /\ ResultOrCall /\ FlowSteps /\ KnownThere
    /\ SignIn!SignedInIsRecorded /\ SignIn!PasswordAtHome

LEMMA LoginBegins == SignIn!Init => LoginInv
BY DEF SignIn!Init, LoginInv, LoginTypes, ResultOrCall, FlowSteps, KnownThere, SignIn!SignedInIsRecorded,
       SignIn!PasswordAtHome, SignIn!Idle, SignIn!NoDc, LoginSteps

(* A call that begins *)
LEMMA LoginCalls ==
    ASSUME LoginInv,
           SignIn!QrLoginStep \/ SignIn!BotSignIn \/ SignIn!RequestLoginCode \/ SignIn!SignIn \/ SignIn!CheckPassword
    PROVE  LoginInv'
<1>1. PICK flow \in {"qr", "bot", "code", "sign in", "password"},
           pc \in {"export", "import bot", "send code", "sign in", "proof"} :
         /\ SignIn!Begin(flow, pc)
         /\ <<flow, pc>> \in {<<"qr", "export">>, <<"bot", "import bot">>, <<"code", "send code">>,
                               <<"sign in", "sign in">>, <<"password", "proof">>}
  BY Zenon DEF SignIn!QrLoginStep, SignIn!BotSignIn, SignIn!RequestLoginCode, SignIn!SignIn, SignIn!CheckPassword
<1>2. login' = [flow |-> flow, pc |-> pc, dc |-> SignIn!NoDc, visited |-> {}, state |-> FALSE, fresh |-> FALSE]
  BY <1>1 DEF SignIn!Begin, SignIn!Idle
<1>3. LoginTypes' /\ FlowSteps' /\ KnownThere'
  BY <1>1, <1>2, ZenonT(40) DEF SignIn!Begin, LoginInv, LoginTypes, FlowSteps, KnownThere, SignIn!NoDc, LoginSteps
<1>4. result' = "running"
  BY <1>1 DEF SignIn!Begin
<1> QED BY <1>3, <1>4 DEF LoginInv, ResultOrCall, SignIn!SignedInIsRecorded, SignIn!PasswordAtHome

(* A call that ends without a user and without a password leaves nothing to be kept *)
LEMMA LoginReturns ==
    ASSUME LoginInv, NEW r, r \notin {"user", "password", "running"}, SignIn!Returns(r),
           place' = place, twoFactor' = twoFactor, home' \in LoginDcs,
           account' \in [LoginDcs -> {"none", "challenge", "user"}],
           recorded' \in [user : BOOLEAN, positions : BOOLEAN]
    PROVE  LoginInv'
BY DEF LoginInv, LoginTypes, ResultOrCall, FlowSteps, KnownThere, SignIn!SignedInIsRecorded,
       SignIn!PasswordAtHome, SignIn!Idle, SignIn!NoDc, LoginSteps, SignIn!Returns

LEMMA LoginSignOut == ASSUME LoginInv, SignIn!SignOut PROVE LoginInv'
BY DEF SignIn!SignOut, LoginInv, LoginTypes, ResultOrCall, FlowSteps, KnownThere, SignIn!SignedInIsRecorded,
       SignIn!PasswordAtHome, SignIn!Idle, SignIn!NoDc, LoginSteps

LEMMA LoginTarget == ASSUME LoginTypes PROVE SignIn!Target \in LoginDcs
BY DEF LoginTypes, SignIn!Target, SignIn!NoDc

LEMMA LoginAccepted ==
    ASSUME LoginTypes, NEW d \in LoginDcs
    PROVE  /\ SignIn!Accepted(d) \in [LoginDcs -> {"none", "challenge", "user"}]
           /\ SignIn!Accepted(d)[d] = IF twoFactor /\ login.flow # "bot" THEN "challenge" ELSE "user"
BY DEF LoginTypes, SignIn!Accepted

LEMMA LoginFails == ASSUME LoginInv, SignIn!Fails PROVE LoginInv'
<1> USE DEF SignIn!Fails
<1>1. SignIn!Accepted(place) \in [LoginDcs -> {"none", "challenge", "user"}]
  BY LoginAccepted DEF LoginInv, LoginTypes
<1>2. account' \in {account, SignIn!Accepted(place)}
  OBVIOUS
<1>3. account' \in [LoginDcs -> {"none", "challenge", "user"}]
  BY <1>1, <1>2 DEF LoginInv, LoginTypes
<1>4. home' \in LoginDcs
  BY LoginTarget DEF LoginInv, LoginTypes
<1>5. recorded' \in [user : BOOLEAN, positions : BOOLEAN]
  BY DEF LoginInv, LoginTypes
<1> QED BY <1>3, <1>4, <1>5, LoginReturns

(* A call that goes on has no result, and keeps what its next step relies on *)
LEMMA LoginGoesOn ==
    ASSUME LoginInv, login.pc # "idle", result' = result, LoginTypes', FlowSteps', KnownThere'
    PROVE  LoginInv'
<1>1. result = "running"
  BY DEF LoginInv, ResultOrCall, SignIn!Idle
<1> QED BY <1>1 DEF LoginInv, ResultOrCall, SignIn!SignedInIsRecorded, SignIn!PasswordAtHome

LEMMA LoginMigrates == ASSUME LoginInv, NEW d \in LoginDcs \cup {SignIn!NoDc}, SignIn!MigrateTo(d) PROVE LoginInv'
<1>1. CASE SignIn!Follow(d)
  <2>1. LoginTypes'
    BY <1>1 DEF SignIn!MigrateTo, SignIn!Follow, LoginInv, LoginTypes, LoginSteps
  <2>2. FlowSteps' /\ KnownThere' /\ login.pc # "idle"
    BY <1>1 DEF SignIn!MigrateTo, SignIn!Follow, LoginInv, LoginTypes, FlowSteps, KnownThere
  <2> QED BY <1>1, <2>1, <2>2, LoginGoesOn DEF SignIn!Follow
<1>2. CASE SignIn!Refuses(d)
  BY <1>2, LoginReturns DEF SignIn!MigrateTo, SignIn!Refuses, LoginInv, LoginTypes
<1> QED BY <1>1, <1>2 DEF SignIn!MigrateTo

LEMMA LoginIsAccepted ==
    ASSUME LoginInv, SignIn!Success \/ SignIn!BotAccepted \/ SignIn!CodeAccepted \/ SignIn!PasswordAccepted
    PROVE  LoginInv'
<1> USE DEF SignIn!At, SignIn!Goto
<1>1. CASE SignIn!Success
  <2>1. SignIn!Target' = SignIn!Target /\ SignIn!Target = place
    BY <1>1 DEF SignIn!Success, SignIn!Target, LoginInv, LoginTypes
  <2>2. LoginTypes'
    BY <1>1, LoginAccepted DEF SignIn!Success, LoginInv, LoginTypes, LoginSteps
  <2>3. FlowSteps' /\ KnownThere' /\ login.pc # "idle"
    BY <1>1, <2>1, LoginAccepted DEF SignIn!Success, LoginInv, LoginTypes, FlowSteps, KnownThere
  <2> QED BY <1>1, <2>2, <2>3, LoginGoesOn DEF SignIn!Success
<1>2. CASE SignIn!BotAccepted
  <2>2. LoginTypes'
    BY <1>2, LoginAccepted DEF SignIn!BotAccepted, LoginInv, LoginTypes, LoginSteps
  <2>3. FlowSteps' /\ KnownThere' /\ login.pc # "idle"
    BY <1>2, LoginAccepted DEF SignIn!BotAccepted, LoginInv, LoginTypes, FlowSteps, KnownThere
  <2> QED BY <1>2, <2>2, <2>3, LoginGoesOn DEF SignIn!BotAccepted
<1>3. CASE SignIn!CodeAccepted
  <2>2. LoginTypes'
    BY <1>3, LoginAccepted DEF SignIn!CodeAccepted, LoginInv, LoginTypes, LoginSteps
  <2>3. FlowSteps' /\ KnownThere' /\ login.pc # "idle"
    BY <1>3, LoginAccepted DEF SignIn!CodeAccepted, LoginInv, LoginTypes, FlowSteps, KnownThere
  <2> QED BY <1>3, <2>2, <2>3, LoginGoesOn DEF SignIn!CodeAccepted
<1>4. CASE SignIn!PasswordAccepted
  <2>2. LoginTypes'
    BY <1>4 DEF SignIn!PasswordAccepted, LoginInv, LoginTypes, LoginSteps
  <2>3. FlowSteps' /\ KnownThere' /\ login.pc # "idle"
    BY <1>4 DEF SignIn!PasswordAccepted, LoginInv, LoginTypes, FlowSteps, KnownThere
  <2> QED BY <1>4, <2>2, <2>3, LoginGoesOn DEF SignIn!PasswordAccepted
<1> QED BY <1>1, <1>2, <1>3, <1>4

(* A call that asks for the password ends at a home datacenter that waits for it, and
   one that has the user ends where the user is known *)
LEMMA LoginAsks ==
    ASSUME LoginInv, SignIn!Returns("password"), home' \in LoginDcs, account[home'] = "challenge",
           UNCHANGED <<place, twoFactor, account, recorded>>
    PROVE  LoginInv'
BY DEF LoginInv, LoginTypes, ResultOrCall, FlowSteps, KnownThere, SignIn!SignedInIsRecorded,
       SignIn!PasswordAtHome, SignIn!Idle, SignIn!NoDc, LoginSteps, SignIn!Returns
LEMMA LoginGives ==
    ASSUME LoginInv, SignIn!Returns("user"), account[home] = "user",
           recorded' \in [user : BOOLEAN, positions : BOOLEAN], recorded'.user,
           UNCHANGED <<place, twoFactor, account, home>>
    PROVE  LoginInv'
BY DEF LoginInv, LoginTypes, ResultOrCall, FlowSteps, KnownThere, SignIn!SignedInIsRecorded,
       SignIn!PasswordAtHome, SignIn!Idle, SignIn!NoDc, LoginSteps, SignIn!Returns

LEMMA LoginPasswordAsked ==
    ASSUME LoginInv, SignIn!GetPassword \/ SignIn!SelectHome \/ SignIn!PasswordRefused
    PROVE  LoginInv'
<1> USE DEF SignIn!At, SignIn!AfterHome, SignIn!Moving
<1>0. SignIn!Target \in LoginDcs
  BY LoginTarget DEF LoginInv
<1>1. CASE SignIn!GetPassword /\ login.flow = "qr"
  <2>1. SignIn!Target' = SignIn!Target
    BY <1>1 DEF SignIn!GetPassword, SignIn!Goto, SignIn!Target, LoginInv, LoginTypes
  <2>2. LoginTypes'
    BY <1>1 DEF SignIn!GetPassword, SignIn!Goto, LoginInv, LoginTypes, LoginSteps
  <2>3. FlowSteps' /\ KnownThere' /\ login.pc # "idle"
    BY <1>1, <2>1 DEF SignIn!GetPassword, SignIn!Goto, LoginInv, LoginTypes, FlowSteps, KnownThere
  <2> QED BY <1>1, <2>2, <2>3, LoginGoesOn DEF SignIn!GetPassword
<1>2. CASE SignIn!GetPassword /\ login.flow # "qr"
  <2>1. account[home] = "challenge" /\ home \in LoginDcs
    BY <1>2 DEF SignIn!GetPassword, LoginInv, LoginTypes, KnownThere
  <2> QED BY <1>2, <2>1, LoginAsks DEF SignIn!GetPassword
<1>3. CASE SignIn!SelectHome /\ login.pc = "finish"
  <2>1. account[home'] = "user"
    BY <1>3 DEF SignIn!SelectHome, LoginInv, KnownThere
  <2>2. LoginTypes'
    BY <1>0, <1>3 DEF SignIn!SelectHome, SignIn!Goto, LoginInv, LoginTypes, LoginSteps
  <2>3. FlowSteps' /\ KnownThere' /\ login.pc # "idle"
    BY <1>3, <2>1 DEF SignIn!SelectHome, SignIn!Goto, LoginInv, LoginTypes, FlowSteps, KnownThere
  <2> QED BY <1>3, <2>2, <2>3, LoginGoesOn DEF SignIn!SelectHome
<1>4. CASE SignIn!SelectHome /\ login.pc = "move home"
  <2>1. account[home'] = "challenge"
    BY <1>4 DEF SignIn!SelectHome, LoginInv, KnownThere
  <2> QED BY <1>0, <1>4, <2>1, LoginAsks DEF SignIn!SelectHome
<1>5. CASE SignIn!PasswordRefused /\ account[home] = "challenge"
  BY <1>5, LoginAsks DEF SignIn!PasswordRefused, LoginInv, LoginTypes
<1>6. CASE SignIn!PasswordRefused /\ account[home] # "challenge"
  BY <1>6, LoginReturns DEF SignIn!PasswordRefused, LoginInv, LoginTypes
<1> QED BY <1>1, <1>2, <1>3, <1>4, <1>5, <1>6 DEF SignIn!SelectHome

LEMMA LoginEndsEarly ==
    ASSUME LoginInv,
           SignIn!Display \/ SignIn!TokenAgain \/ SignIn!SignUpRequired \/ SignIn!CodeSent \/ SignIn!CodeRefused
    PROVE  LoginInv'
BY LoginReturns DEF SignIn!Display, SignIn!TokenAgain, SignIn!SignUpRequired, SignIn!CodeSent, SignIn!CodeRefused,
                    LoginInv, LoginTypes

LEMMA LoginElsewhere == ASSUME LoginInv, SignIn!Elsewhere PROVE LoginInv'
<1>1. CASE SignIn!Returns("error") /\ home' = home
  BY <1>1, LoginReturns DEF SignIn!Elsewhere, LoginInv, LoginTypes
<1>2. ASSUME NEW d \in LoginDcs, login' = [login EXCEPT !.visited = {d}], home' = d, result' = result
      PROVE  LoginInv'
  <2>1. LoginTypes'
    BY <1>2 DEF SignIn!Elsewhere, LoginInv, LoginTypes, LoginSteps
  <2>2. FlowSteps' /\ KnownThere' /\ login.pc # "idle"
    BY <1>2 DEF SignIn!Elsewhere, LoginInv, LoginTypes, FlowSteps, KnownThere
  <2> QED BY <1>2, <2>1, <2>2, LoginGoesOn
<1> QED BY <1>1, <1>2 DEF SignIn!Elsewhere

LEMMA LoginProves ==
    ASSUME LoginInv, SignIn!Proof \/ SignIn!BadParameters \/ SignIn!FreshParameters
    PROVE  LoginInv'
<1>1. CASE SignIn!BadParameters /\ login.fresh
  BY <1>1, LoginReturns DEF SignIn!BadParameters, LoginInv, LoginTypes
<1>2. CASE SignIn!Proof \/ SignIn!FreshParameters \/ (SignIn!BadParameters /\ ~login.fresh)
  <2> USE DEF SignIn!Proof, SignIn!FreshParameters, SignIn!BadParameters, SignIn!At, SignIn!Goto
  <2>1. LoginTypes'
    BY <1>2 DEF LoginInv, LoginTypes, LoginSteps
  <2>2. FlowSteps' /\ KnownThere' /\ login.pc # "idle"
    BY <1>2 DEF LoginInv, LoginTypes, FlowSteps, KnownThere
  <2> QED BY <1>2, <2>1, <2>2, LoginGoesOn
<1> QED BY <1>1, <1>2 DEF SignIn!BadParameters

LEMMA LoginCompletes ==
    ASSUME LoginInv, SignIn!GetState \/ SignIn!Record \/ SignIn!StorePositions
    PROVE  LoginInv'
<1> USE DEF SignIn!At, SignIn!Goto
<1>0. account[home] = "user" /\ login.pc # "idle"
  BY DEF SignIn!GetState, SignIn!Record, SignIn!StorePositions, LoginInv, KnownThere
<1>1. CASE SignIn!GetState
  <2>1. LoginTypes'
    BY <1>1 DEF SignIn!GetState, LoginInv, LoginTypes, LoginSteps
  <2>2. FlowSteps' /\ KnownThere'
    BY <1>0, <1>1 DEF SignIn!GetState, LoginInv, LoginTypes, FlowSteps, KnownThere
  <2> QED BY <1>0, <1>1, <2>1, <2>2, LoginGoesOn DEF SignIn!GetState
<1>2. CASE SignIn!Record
  <2>1. recorded' \in [user : BOOLEAN, positions : BOOLEAN] /\ recorded'.user
    BY <1>2 DEF SignIn!Record, LoginInv, LoginTypes
  <2>2. CASE login.state
    <3>1. LoginTypes'
      BY <1>2, <2>1, <2>2 DEF SignIn!Record, LoginInv, LoginTypes, LoginSteps
    <3>2. FlowSteps' /\ KnownThere'
      BY <1>0, <1>2, <2>1, <2>2 DEF SignIn!Record, LoginInv, LoginTypes, FlowSteps, KnownThere
    <3> QED BY <1>0, <1>2, <2>2, <3>1, <3>2, LoginGoesOn DEF SignIn!Record
  <2>3. CASE ~login.state
    BY <1>0, <1>2, <2>1, <2>3, LoginGives DEF SignIn!Record
  <2> QED BY <2>2, <2>3
<1>3. CASE SignIn!StorePositions
  <2>1. recorded' \in [user : BOOLEAN, positions : BOOLEAN] /\ recorded'.user
    BY <1>3 DEF SignIn!StorePositions, LoginInv, LoginTypes, KnownThere
  <2> QED BY <1>0, <1>3, <2>1, LoginGives DEF SignIn!StorePositions
<1> QED BY <1>1, <1>2, <1>3

(* Every step of a login keeps the invariant *)
THEOREM LoginInvariance == ASSUME LoginInv, SignIn!Next PROVE LoginInv'
BY LoginCalls, LoginSignOut, LoginFails, LoginMigrates, LoginIsAccepted, LoginPasswordAsked, LoginEndsEarly,
   LoginElsewhere, LoginProves, LoginCompletes
   DEF SignIn!Next, SignIn!Steps

(* A QR login moves the home datacenter only to one that knows the user or waits for
   the password: import and export leave it alone, and select_home comes after both *)
THEOREM HomeMovesLateCorrect == ASSUME LoginInv, SignIn!Next PROVE SignIn!HomeMovesLate
<1> SUFFICES ASSUME login.flow = "qr", home' # home PROVE account[home'] \in {"user", "challenge"}
  BY DEF SignIn!HomeMovesLate
<1>1. CASE SignIn!SelectHome \/ SignIn!Fails
  <2>1. home' = SignIn!Target /\ SignIn!Moving
    BY <1>1 DEF SignIn!SelectHome, SignIn!Fails
  <2> QED BY <2>1 DEF SignIn!Moving, LoginInv, KnownThere
<1>2. CASE SignIn!Elsewhere
  BY <1>2 DEF SignIn!Elsewhere, LoginInv, FlowSteps
<1>3. CASE \E d \in LoginDcs \cup {SignIn!NoDc} : SignIn!MigrateTo(d)
  BY <1>3 DEF SignIn!MigrateTo, SignIn!Follow, SignIn!Refuses
<1>4. CASE SignIn!QrLoginStep \/ SignIn!BotSignIn \/ SignIn!RequestLoginCode \/ SignIn!SignIn \/ SignIn!CheckPassword
           \/ SignIn!SignOut
  BY <1>4 DEF SignIn!QrLoginStep, SignIn!BotSignIn, SignIn!RequestLoginCode, SignIn!SignIn, SignIn!CheckPassword,
              SignIn!Begin, SignIn!SignOut
<1>5. CASE SignIn!Display \/ SignIn!TokenAgain \/ SignIn!SignUpRequired \/ SignIn!CodeSent \/ SignIn!CodeRefused
           \/ SignIn!Success \/ SignIn!BotAccepted \/ SignIn!CodeAccepted \/ SignIn!PasswordAccepted
  BY <1>5 DEF SignIn!Display, SignIn!TokenAgain, SignIn!SignUpRequired, SignIn!CodeSent, SignIn!CodeRefused,
              SignIn!Success, SignIn!BotAccepted, SignIn!CodeAccepted, SignIn!PasswordAccepted
<1>6. CASE SignIn!GetPassword \/ SignIn!PasswordRefused \/ SignIn!Proof \/ SignIn!BadParameters
           \/ SignIn!FreshParameters \/ SignIn!GetState \/ SignIn!Record \/ SignIn!StorePositions
  BY <1>6 DEF SignIn!GetPassword, SignIn!PasswordRefused, SignIn!Proof, SignIn!BadParameters,
              SignIn!FreshParameters, SignIn!GetState, SignIn!Record, SignIn!StorePositions
<1> QED BY <1>1, <1>2, <1>3, <1>4, <1>5, <1>6 DEF SignIn!Next, SignIn!Steps

-----------------------------------------------------------------------------
(* Lifecycle.  What is final stays, and what each caller was told follows from it *)

UserSteps ==
    {"idle", "start", "check", "ping", "startup", "await", "failed", "wait", "stop", "join", "abort", "joinAborted", "done"}
PingResults == {"pending", "ok", "network", "overloaded", "closed"}
Told == {"ok", "panicked", "cancelled", "timeout", "network", "closed"}
Verdicts == Told \cup {"none", "overloaded", "stopped"}
UserRecords ==
    [op : {"none", "connect", "run", "until", "stop"}, pc : UserSteps, ping : Nat, error : Verdicts,
     result : Verdicts, last : BOOLEAN]
LifeTypes ==
    /\ state \in [runner : BOOLEAN, stopping : BOOLEAN, connection : Nat]
    /\ task \in [pc : {"none", "running", "closing", "published", "ended"},
                 result : {"none", "ok", "panicked", "cancelled"}, abort : BOOLEAN]
    /\ completion \in [rec : {"none", "closed", "final"}, result : Verdicts]
    /\ pings \in Seq(PingResults)

(* A caller whose record is r.  Whoever waits for the end of the client has seen to it
   that the client stops; stop() and run_until() have returned only when no runner is
   running; an abort follows a timeout that was published; and what run() or stop()
   has told is final and no cancellation *)
UserSound(r) ==
    /\ r \in UserRecords
    /\ r.pc = "await" => r.ping \in DOMAIN pings
    /\ r.pc \in {"join", "abort", "joinAborted"} => state.stopping
    /\ r.pc = "done" /\ r.op \in {"stop", "until"} => state.stopping /\ task.pc \in {"none", "ended"}
    /\ r.pc \in {"check", "ping"} => r.op = "connect"
    /\ r.op = "stop" => r.pc \in {"idle", "stop", "join", "abort", "joinAborted", "done"}
    /\ r.last => r.op = "until"
    /\ r.pc = "failed" => r.error \in {"network", "closed"} \/ (r.error = "stopped" /\ state.stopping)
    /\ r.op = "stop" /\ r.pc # "done" => r.result = "none"
    /\ r.pc \in {"abort", "joinAborted"} => completion.rec = "final"
    /\ r.op \in {"run", "stop"} /\ r.result \in Told =>
         completion.rec = "final" /\ r.result = completion.result
    /\ r.result # "cancelled"
UsersSound == user \in [Users -> UserRecords] /\ \A u \in Users : UserSound(user[u])

(* The runner's task publishes its end before its join is ready, and is aborted only
   after a timeout was published.  Success, or a request that was merely closed, is
   final only when nothing panicked *)
TaskSound ==
    /\ state.connection # 0 => state.connection \in DOMAIN pings
    /\ state.stopping => ~state.runner
    /\ task.pc \in {"none", "running"} => task.result = "none"
    /\ task.pc \in {"closing", "published"} => task.result \in {"ok", "panicked"}
    /\ task.pc = "ended" => task.result # "none"
    /\ task.pc \in {"published", "ended"} \/ task.abort => completion.rec = "final"
    /\ completion.result # "cancelled"
    /\ completion.rec = "closed" => completion.result = "closed"
    /\ completion.rec = "final" /\ completion.result \in {"ok", "closed"} =>
         \/ task.pc = "none" /\ state.stopping
         \/ task.pc \in {"published", "ended"} /\ task.result = "ok"

LifeInv == LifeTypes /\ UsersSound /\ TaskSound

LEMMA LifeBegins == Life!Init => LifeInv
<1> SUFFICES ASSUME Life!Init PROVE LifeInv
  OBVIOUS
<1>1. PICK plan \in Plans : user = [u \in Users |-> Life!Idle(plan[u])]
  BY DEF Life!Init
<1>2. \A u \in Users : plan[u] \in {"none", "connect", "run", "until", "stop"}
  BY PlansAssumption
<1>3. LifeTypes /\ TaskSound
  <2>1. <<>> \in Seq(PingResults)
    OBVIOUS
  <2> QED BY <2>1 DEF Life!Init, LifeTypes, TaskSound, Life!Unknown, Verdicts, Told
<1>4. ASSUME NEW u \in Users PROVE UserSound(user[u])
  <2>1. user[u] = [op |-> plan[u], pc |-> "idle", ping |-> 0, error |-> "none", result |-> "none", last |-> FALSE]
    BY <1>1 DEF Life!Idle
  <2> QED BY <1>2, <2>1 DEF UserSound, UserRecords, UserSteps, Verdicts, Told
<1>5. user \in [Users -> UserRecords]
  BY <1>1, <1>4 DEF UserSound
<1> QED BY <1>3, <1>4, <1>5 DEF LifeInv, UsersSound

(* What never comes undone, whatever step is taken *)
Later ==
    /\ state.stopping => state'.stopping
    /\ DOMAIN pings \subseteq DOMAIN pings'
    /\ completion.rec = "final" => completion' = completion
    /\ state.stopping /\ task.pc \in {"none", "ended"} => task'.pc \in {"none", "ended"}

LEMMA UserStays == ASSUME NEW r, UserSound(r), Later PROVE UserSound(r)'
BY DEF UserSound, Later

LEMMA LifeStep ==
    ASSUME LifeInv, Later, LifeTypes', TaskSound',
           NEW u \in Users, NEW r, user' = [user EXCEPT ![u] = r], UserSound(r)'
    PROVE  LifeInv'
<1>1. r \in UserRecords
  BY DEF UserSound
<1>2. user' \in [Users -> UserRecords]
  BY <1>1 DEF LifeInv, UsersSound
<1>3. ASSUME NEW v \in Users PROVE UserSound(user[v])'
  <2>1. CASE v = u
    <3>1. user'[v] = r
      BY <2>1 DEF LifeInv, UsersSound
    <3> QED BY <3>1 DEF UserSound
  <2>2. CASE v # u
    <3>1. PICK q : q = user[v]
      OBVIOUS
    <3>2. user'[v] = q
      BY <2>2, <3>1 DEF LifeInv, UsersSound
    <3>3. UserSound(q)'
      BY <3>1, UserStays DEF LifeInv, UsersSound
    <3> QED BY <3>2, <3>3 DEF UserSound
  <2> QED BY <2>1, <2>2
<1> QED BY <1>2, <1>3 DEF LifeInv, UsersSound

LEMMA LifeQuiet ==
    ASSUME LifeInv, Later, LifeTypes', TaskSound', user' = user
    PROVE  LifeInv'
<1>1. ASSUME NEW v \in Users PROVE UserSound(user[v])'
  <2>1. PICK q : q = user[v]
    OBVIOUS
  <2>2. UserSound(q)'
    BY <2>1, UserStays DEF LifeInv, UsersSound
  <2> QED BY <2>1, <2>2 DEF UserSound
<1> QED BY <1>1 DEF LifeInv, UsersSound

(* publish_completion leaves a final record behind, and one that is final alone *)
LEMMA PublishedIs ==
    ASSUME LifeTypes, NEW r \in Verdicts
    PROVE  /\ Life!Published(r) \in [rec : {"none", "closed", "final"}, result : Verdicts]
           /\ Life!Published(r).rec = "final"
           /\ completion.rec = "final" => Life!Published(r) = completion
           /\ completion.rec = "closed" /\ r = "ok" => Life!Published(r).result = completion.result
           /\ completion.rec # "final" /\ ~(completion.rec = "closed" /\ r = "ok") => Life!Published(r).result = r
<1>1. CASE completion.rec = "final"
  BY <1>1 DEF Life!Published, Life!Final, LifeTypes
<1>2. CASE completion.rec # "final" /\ completion.rec = "closed" /\ r = "ok"
  BY <1>2 DEF Life!Published, Life!Final, LifeTypes
<1>3. CASE completion.rec # "final" /\ ~(completion.rec = "closed" /\ r = "ok")
  BY <1>3 DEF Life!Published, Life!Final, LifeTypes
<1> QED BY <1>1, <1>2, <1>3

(* When the task has ended its result was published already: everyone is told that *)
LEMMA EndedVerdict ==
    ASSUME LifeInv, Life!Ended
    PROVE  /\ Life!Published(task.result) = completion /\ completion.rec = "final"
           /\ Life!Verdict = completion.result /\ completion.result \in Verdicts \ {"cancelled"}
<1>1. task.result \in Verdicts
  BY DEF LifeInv, LifeTypes, Verdicts, Told
<1>2. completion.rec = "final"
  BY DEF LifeInv, TaskSound, Life!Ended
<1>3. Life!Published(task.result) = completion
  BY <1>1, <1>2, PublishedIs DEF LifeInv
<1> QED BY <1>2, <1>3 DEF Life!Verdict, LifeInv, LifeTypes, TaskSound

LEMMA LifeRunReturns ==
    ASSUME LifeInv, Later, LifeTypes', TaskSound', NEW u \in Users, NEW r \in Verdicts \ {"cancelled"},
           Life!RunReturns(u, r), user[u].op # "stop",
           user[u].op = "run" /\ r \in Told => completion'.rec = "final" /\ r = completion'.result
    PROVE  LifeInv'
<1>1. user[u] \in UserRecords /\ user \in [Users -> UserRecords]
  BY DEF LifeInv, UsersSound
<1>2. PICK k : k = [user[u] EXCEPT !.pc = IF user[u].op = "until" THEN "stop" ELSE "done", !.result = r,
                                   !.ping = 0, !.last = (user[u].op = "until")]
  OBVIOUS
<1>3. user' = [user EXCEPT ![u] = k]
  BY <1>1, <1>2 DEF Life!RunReturns
<1>4. /\ k.op = user[u].op /\ k.pc = IF user[u].op = "until" THEN "stop" ELSE "done"
      /\ k.result = r /\ k.last = (user[u].op = "until")
  BY <1>1, <1>2 DEF UserRecords
<1>5. k \in UserRecords
  BY <1>1, <1>2 DEF UserRecords, UserSteps
<1>6. UserSound(k)'
  BY <1>4, <1>5 DEF UserSound
<1> QED BY <1>3, <1>6, LifeStep

LEMMA LifeStopReturns ==
    ASSUME LifeInv, Later, LifeTypes', TaskSound', NEW u \in Users, NEW r \in Verdicts \ {"cancelled"},
           Life!StopReturns(u, r), user[u].pc # "done", state'.stopping, task'.pc \in {"none", "ended"},
           completion'.rec = "final", r = completion'.result
    PROVE  LifeInv'
<1>1. user[u] \in UserRecords /\ user \in [Users -> UserRecords] /\ UserSound(user[u])
  BY DEF LifeInv, UsersSound
<1>2. CASE user[u].op = "stop" \/ user[u].last
  <2> DEFINE q == [op |-> user[u].op, pc |-> "done", ping |-> user[u].ping, error |-> user[u].error,
                   result |-> IF user[u].result \in {"none", "ok"} THEN r ELSE user[u].result, last |-> user[u].last]
  <2>1. user' = [user EXCEPT ![u] = q]
    BY <1>1, <1>2 DEF Life!StopReturns, UserRecords
  <2>2. PICK k : k = q
    OBVIOUS
  <2>3. k \in UserRecords
    BY <1>1, <2>2 DEF UserRecords, UserSteps
  <2>4. k.op = user[u].op /\ k.pc = "done" /\ k.last = user[u].last
        /\ k.result = IF user[u].result \in {"none", "ok"} THEN r ELSE user[u].result
    BY <2>2
  <2>5. k.op = "stop" => k.result = r
    BY <1>1, <2>4 DEF UserSound
  <2>6. k.op # "run"
    BY <1>1, <1>2, <2>4 DEF UserSound
  <2>7. UserSound(k)'
    BY <1>1, <2>3, <2>4, <2>5, <2>6 DEF UserSound
  <2> HIDE DEF q
  <2> QED BY <2>1, <2>2, <2>7, LifeStep
<1>3. CASE ~(user[u].op = "stop" \/ user[u].last)
  BY <1>3, LifeRunReturns DEF Life!StopReturns
<1> QED BY <1>2, <1>3

LEMMA LifeUser ==
    ASSUME LifeInv, NEW u \in Users
    PROVE  user[u] \in UserRecords /\ UserSound(user[u]) /\ user \in [Users -> UserRecords]
BY DEF LifeInv, UsersSound

(* Steps that leave the runner, the record and the checks alone *)
LEMMA LaterSame == ASSUME UNCHANGED <<state, task, completion, pings>> PROVE Later
BY DEF Later
LEMMA SoundSame ==
    ASSUME LifeInv, UNCHANGED <<state, task, completion, pings>>
    PROVE  LifeTypes' /\ TaskSound'
BY DEF LifeInv, LifeTypes, TaskSound

LEMMA LifeBegin == ASSUME LifeInv, NEW u \in Users, Life!Begin(u) PROVE LifeInv'
<1>1. PICK k : k = [user[u] EXCEPT !.pc = IF user[u].op = "stop" THEN "stop" ELSE "start"]
  OBVIOUS
<1>2. k \in UserRecords /\ k.op = user[u].op /\ k.result = user[u].result /\ k.last = user[u].last
      /\ k.pc = IF user[u].op = "stop" THEN "stop" ELSE "start"
  BY <1>1, LifeUser DEF UserRecords, UserSteps
<1>3. UserSound(k)'
  BY <1>2, LifeUser DEF UserSound, Life!Begin
<1>4. user' = [user EXCEPT ![u] = k]
  BY <1>1, LifeUser DEF Life!Begin, Life!Step
<1> QED BY <1>3, <1>4, LaterSame, SoundSame, LifeStep DEF Life!Begin

LEMMA LifeStart == ASSUME LifeInv, NEW u \in Users, Life!Start(u) PROVE LifeInv'
<1>0. user[u].op # "stop"
  BY LifeUser DEF UserSound, Life!Start
<1>1. CASE state.stopping \/ task.pc = "ended"
  <2>1. UNCHANGED <<state, task, completion, pings>> /\ Life!RunReturns(u, "stopped")
    BY <1>1 DEF Life!Start
  <2>2. "stopped" \in Verdicts \ {"cancelled"} /\ "stopped" \notin Told
    BY DEF Verdicts, Told
  <2> QED BY <1>0, <2>1, <2>2, LaterSame, SoundSame, LifeRunReturns
<1>2. CASE ~(state.stopping \/ task.pc = "ended")
  <2>1. PICK k : k = [user[u] EXCEPT !.pc = IF user[u].op = "connect" THEN "check" ELSE "startup"]
    OBVIOUS
  <2>2. k \in UserRecords /\ k.op = user[u].op /\ k.result = user[u].result /\ k.last = user[u].last
        /\ k.pc = IF user[u].op = "connect" THEN "check" ELSE "startup"
    BY <2>1, LifeUser DEF UserRecords, UserSteps
  <2>3. user' = [user EXCEPT ![u] = k]
    BY <1>2, <2>1, LifeUser DEF Life!Start, Life!Step
  <2>4. LifeTypes' /\ TaskSound' /\ Later
    BY <1>2, ZenonT(40) DEF Life!Start, LifeInv, LifeTypes, TaskSound, Later
  <2>5. completion' = completion /\ state'.stopping = state.stopping
    BY <1>2 DEF Life!Start, LifeInv, LifeTypes
  <2>6. UserSound(k)'
    BY <1>0, <2>2, <2>5, LifeUser DEF UserSound
  <2> QED BY <2>3, <2>4, <2>6, LifeStep
<1> QED BY <1>1, <1>2

(* A wait that is answered by the end of the task *)
LEMMA LifeEndHeard ==
    ASSUME LifeInv, NEW u \in Users, Life!Ended, Life!Publish(task.result), UNCHANGED <<state, task, pings>>,
           \/ Life!RunReturns(u, Life!Verdict) /\ user[u].op # "stop"
           \/ Life!StopReturns(u, Life!Verdict) /\ user[u].pc # "done" /\ state.stopping
    PROVE  LifeInv'
<1>1. completion' = completion /\ completion.rec = "final" /\ Life!Verdict = completion.result
      /\ Life!Verdict \in Verdicts \ {"cancelled"}
  BY EndedVerdict DEF Life!Publish
<1>2. LifeTypes' /\ TaskSound' /\ Later
  BY <1>1, LaterSame, SoundSame
<1>3. CASE Life!RunReturns(u, Life!Verdict) /\ user[u].op # "stop"
  BY <1>1, <1>2, <1>3, LifeRunReturns
<1>4. CASE Life!StopReturns(u, Life!Verdict) /\ user[u].pc # "done" /\ state.stopping
  BY <1>1, <1>2, <1>4, LifeStopReturns DEF Life!Ended
<1> QED BY <1>3, <1>4

LEMMA LifeConnectCheck == ASSUME LifeInv, NEW u \in Users, Life!ConnectCheck(u) PROVE LifeInv'
<1>0. user[u].op = "connect" /\ user[u].pc = "check" /\ UNCHANGED <<state, task, completion, pings>>
  BY LifeUser DEF UserSound, Life!ConnectCheck
<1>1. CASE state.stopping
  <2>1. Life!RunReturns(u, "stopped")
    BY <1>1 DEF Life!ConnectCheck
  <2>2. "stopped" \in Verdicts \ {"cancelled"} /\ "stopped" \notin Told
    BY DEF Verdicts, Told
  <2> QED BY <1>0, <2>1, <2>2, LaterSame, SoundSame, LifeRunReturns
<1>2. CASE ~state.stopping
  <2>1. PICK k : k = [user[u] EXCEPT !.pc = "ping"]
    OBVIOUS
  <2>2. /\ k \in UserRecords /\ k.op = user[u].op /\ k.result = user[u].result /\ k.last = user[u].last
        /\ k.pc = "ping"
    BY <2>1, LifeUser DEF UserRecords, UserSteps
  <2>3. user' = [user EXCEPT ![u] = k]
    BY <1>2, <2>1, LifeUser DEF Life!ConnectCheck, Life!Step
  <2>4. UserSound(k)'
    BY <1>0, <2>2, LifeUser DEF UserSound
  <2> QED BY <1>0, <2>3, <2>4, LaterSame, SoundSame, LifeStep
<1> QED BY <1>1, <1>2

LEMMA LifeConnectPing == ASSUME LifeInv, NEW u \in Users, Life!ConnectPing(u) PROVE LifeInv'
<1>0. user[u].op = "connect"
  BY LifeUser DEF UserSound, Life!ConnectPing
<1>1. CASE Life!Ended
  <2>1. completion' = completion
    BY <1>1, EndedVerdict DEF Life!ConnectPing, Life!Publish
  <2>2. PICK r \in Verdicts \ {"cancelled"} : Life!RunReturns(u, r)
    <3>1. Life!Verdict \in Verdicts \ {"cancelled"} /\ "stopped" \in Verdicts \ {"cancelled"}
      BY <1>1, EndedVerdict DEF Verdicts, Told
    <3> QED BY <1>1, <3>1 DEF Life!ConnectPing
  <2> QED BY <1>0, <2>1, <2>2, LaterSame, SoundSame, LifeRunReturns DEF Life!ConnectPing
<1>2. CASE ~Life!Ended
  <2>1. PICK r \in {"ok", "network", "overloaded", "closed"} : Life!RunReturns(u, r)
    BY <1>2 DEF Life!ConnectPing
  <2>2. r \in Verdicts \ {"cancelled"}
    BY DEF Verdicts, Told
  <2>3. completion' = completion
    BY <1>2 DEF Life!ConnectPing
  <2> QED BY <1>0, <2>1, <2>2, <2>3, LaterSame, SoundSame, LifeRunReturns DEF Life!ConnectPing
<1> QED BY <1>1, <1>2

LEMMA LifeStartup == ASSUME LifeInv, NEW u \in Users, Life!Startup(u) PROVE LifeInv'
<1>0. user[u].op # "stop" /\ pings \in Seq(PingResults) /\ state.connection \in Nat
  BY LifeUser DEF UserSound, Life!Startup, LifeInv, LifeTypes
<1>1. CASE state.stopping
  <2>1. PICK k : k = [user[u] EXCEPT !.pc = "failed", !.error = "stopped"]
    OBVIOUS
  <2>2. k \in UserRecords /\ k.op = user[u].op /\ k.result = user[u].result /\ k.last = user[u].last
        /\ k.pc = "failed" /\ k.error = "stopped"
    BY <2>1, LifeUser DEF UserRecords, UserSteps, Verdicts
  <2>3. user' = [user EXCEPT ![u] = k]
    BY <1>1, <2>1, LifeUser DEF Life!Startup
  <2>4. UNCHANGED <<state, task, completion, pings>>
    BY <1>1 DEF Life!Startup
  <2>5. UserSound(k)'
    BY <1>0, <1>1, <2>2, <2>4, LifeUser DEF UserSound
  <2> QED BY <2>3, <2>4, <2>5, LaterSame, SoundSame, LifeStep
<1>2. CASE ~state.stopping /\ state.connection # 0
  <2>1. PICK k : k = [user[u] EXCEPT !.pc = "await", !.ping = state.connection]
    OBVIOUS
  <2>2. k \in UserRecords /\ k.op = user[u].op /\ k.result = user[u].result /\ k.last = user[u].last
        /\ k.pc = "await" /\ k.ping = state.connection
    BY <1>0, <2>1, LifeUser DEF UserRecords, UserSteps
  <2>3. user' = [user EXCEPT ![u] = k]
    BY <1>2, <2>1, LifeUser DEF Life!Startup
  <2>4. UNCHANGED <<state, task, completion, pings>>
    BY <1>2 DEF Life!Startup
  <2>5. state.connection \in DOMAIN pings
    BY <1>2 DEF LifeInv, TaskSound
  <2>6. UserSound(k)'
    BY <1>0, <2>2, <2>4, <2>5, LifeUser DEF UserSound
  <2> QED BY <2>3, <2>4, <2>6, LaterSame, SoundSame, LifeStep
<1>3. CASE ~state.stopping /\ state.connection = 0
  <2>0. PICK n \in Nat : n = Len(pings) + 1
    BY <1>0
  <2>1. PICK k : k = [user[u] EXCEPT !.pc = "await", !.ping = n]
    OBVIOUS
  <2>2. k \in UserRecords /\ k.op = user[u].op /\ k.result = user[u].result /\ k.last = user[u].last
        /\ k.pc = "await" /\ k.ping = n
    BY <2>1, LifeUser DEF UserRecords, UserSteps
  <2>3. user' = [user EXCEPT ![u] = k]
    BY <1>3, <2>0, <2>1, LifeUser DEF Life!Startup
  <2>4. /\ pings' = Append(pings, "pending") /\ state' = [state EXCEPT !.connection = Len(pings) + 1]
        /\ UNCHANGED <<task, completion>>
    BY <1>3 DEF Life!Startup
  <2>5. pings' \in Seq(PingResults) /\ DOMAIN pings \subseteq DOMAIN pings' /\ Len(pings) + 1 \in DOMAIN pings'
    BY <1>0, <2>4 DEF PingResults
  <2>6. LifeTypes' /\ TaskSound' /\ Later
    <3>1. LifeTypes' /\ Later
      BY <1>0, <2>4, <2>5 DEF LifeInv, LifeTypes, Later
    <3>2. state'.connection \in DOMAIN pings' /\ state'.stopping = state.stopping /\ state'.runner = state.runner
      BY <2>4, <2>5 DEF LifeInv, LifeTypes
    <3>3. TaskSound'
      BY <2>4, <3>2 DEF LifeInv, TaskSound
    <3> QED BY <3>1, <3>3
  <2>7. UserSound(k)'
    BY <1>0, <2>0, <2>2, <2>4, <2>5, LifeUser DEF UserSound
  <2> QED BY <2>3, <2>6, <2>7, LifeStep
<1> QED BY <1>1, <1>2, <1>3

LEMMA LifePingEnds ==
    ASSUME LifeInv, NEW p \in DOMAIN pings, NEW r \in {"ok", "network", "overloaded", "closed"}, Life!PingEnds(p, r)
    PROVE  LifeInv'
<1>1. pings' \in Seq(PingResults) /\ DOMAIN pings' = DOMAIN pings
  BY DEF Life!PingEnds, LifeInv, LifeTypes, PingResults
<1>2. LifeTypes' /\ TaskSound' /\ Later /\ user' = user
  BY <1>1 DEF Life!PingEnds, LifeInv, LifeTypes, TaskSound, Later
<1> QED BY <1>2, LifeQuiet

LEMMA LifeRunnerEndsFirst == ASSUME LifeInv, NEW u \in Users, Life!RunnerEndsFirst(u) PROVE LifeInv'
BY LifeUser, LifeEndHeard DEF UserSound, Life!RunnerEndsFirst
LEMMA LifeRunEnds == ASSUME LifeInv, NEW u \in Users, Life!RunEnds(u) PROVE LifeInv'
BY LifeUser, LifeEndHeard DEF UserSound, Life!RunEnds
LEMMA LifeJoined == ASSUME LifeInv, NEW u \in Users, Life!Joined(u) PROVE LifeInv'
BY LifeUser, LifeEndHeard DEF UserSound, Life!Joined

LEMMA LifeConnected == ASSUME LifeInv, NEW u \in Users, Life!Connected(u) PROVE LifeInv'
<1> DEFINE r == pings[user[u].ping]
<1>0. user[u].op # "stop" /\ r \in {"ok", "network", "overloaded", "closed"}
  BY LifeUser DEF UserSound, Life!Connected, LifeInv, LifeTypes, PingResults
<1> HIDE DEF r
<1>1. CASE r = "overloaded"
  <2>1. Life!RunReturns(u, "overloaded") /\ state' = Life!Cleared(u) /\ UNCHANGED <<task, completion, pings>>
    BY <1>1 DEF r, Life!Connected
  <2>2. LifeTypes' /\ TaskSound' /\ Later
    BY <2>1 DEF Life!Cleared, LifeInv, LifeTypes, TaskSound, Later
  <2>3. "overloaded" \in Verdicts \ {"cancelled"} /\ "overloaded" \notin Told
    BY DEF Verdicts, Told
  <2> QED BY <1>0, <2>1, <2>2, <2>3, LifeRunReturns
<1>2. CASE r = "ok"
  <2>1. PICK k : k = [user[u] EXCEPT !.pc = "wait", !.ping = 0]
    OBVIOUS
  <2>2. k \in UserRecords /\ k.op = user[u].op /\ k.result = user[u].result /\ k.last = user[u].last
        /\ k.pc = "wait"
    BY <2>1, LifeUser DEF UserRecords, UserSteps
  <2>3. user' = [user EXCEPT ![u] = k] /\ UNCHANGED <<state, task, completion, pings>>
    BY <1>2, <2>1, LifeUser DEF r, Life!Connected
  <2>4. UserSound(k)'
    BY <1>0, <2>2, <2>3, LifeUser DEF UserSound
  <2> QED BY <2>3, <2>4, LaterSame, SoundSame, LifeStep
<1>3. CASE r \in {"network", "closed"}
  <2>1. PICK k : k = [user[u] EXCEPT !.pc = "failed", !.error = r, !.ping = 0]
    OBVIOUS
  <2>2. k \in UserRecords /\ k.op = user[u].op /\ k.result = user[u].result /\ k.last = user[u].last
        /\ k.pc = "failed" /\ k.error \in {"network", "closed"}
    BY <1>3, <2>1, LifeUser DEF UserRecords, UserSteps, Verdicts, Told
  <2>3. user' = [user EXCEPT ![u] = k] /\ UNCHANGED <<state, task, completion, pings>>
    BY <1>3, <2>1, LifeUser DEF r, Life!Connected
  <2>4. UserSound(k)'
    BY <1>0, <2>2, <2>3, LifeUser DEF UserSound
  <2> QED BY <2>3, <2>4, LaterSame, SoundSame, LifeStep
<1> QED BY <1>0, <1>1, <1>2, <1>3

LEMMA LifeStartFailed == ASSUME LifeInv, NEW u \in Users, Life!StartFailed(u) PROVE LifeInv'
<1>0. user[u].op # "stop" /\ (~state.stopping => user[u].error \in {"network", "closed"})
  BY LifeUser DEF UserSound, Life!StartFailed
<1>1. PICK k : k = [user[u] EXCEPT !.pc = "stop"]
  OBVIOUS
<1>2. k \in UserRecords /\ k.op = user[u].op /\ k.result = user[u].result /\ k.last = user[u].last /\ k.pc = "stop"
  BY <1>1, LifeUser DEF UserRecords, UserSteps
<1>3. user' = [user EXCEPT ![u] = k] /\ UNCHANGED <<state, task, pings>>
  BY <1>1, LifeUser DEF Life!StartFailed, Life!Step
<1>4. /\ completion' \in [rec : {"none", "closed", "final"}, result : Verdicts]
      /\ completion.rec = "final" => completion' = completion
      /\ \/ completion' = completion
         \/ completion'.rec = "final" /\ completion'.result = "network"
         \/ completion'.rec = "closed" /\ completion'.result = "closed" /\ completion.rec = "none"
  <2>1. CASE state.stopping
    BY <2>1 DEF Life!StartFailed, LifeInv, LifeTypes
  <2>2. CASE ~state.stopping /\ user[u].error = "closed"
    BY <2>2 DEF Life!StartFailed, Life!Recorded, LifeInv, LifeTypes, Verdicts, Told
  <2>3. CASE ~state.stopping /\ user[u].error = "network"
    <3>1. completion' = Life!Published("network")
      BY <2>3 DEF Life!StartFailed, Life!Recorded
    <3>2. "network" \in Verdicts
      BY DEF Verdicts, Told
    <3> QED BY <3>1, <3>2, PublishedIs DEF LifeInv
  <2> QED BY <1>0, <2>1, <2>2, <2>3
<1>5. LifeTypes' /\ Later
  BY <1>3, <1>4 DEF LifeInv, LifeTypes, Later
<1>6. TaskSound'
  BY <1>3, <1>4 DEF LifeInv, TaskSound
<1>7. UserSound(k)'
  BY <1>0, <1>2, <1>3, <1>4, LifeUser DEF UserSound
<1> QED BY <1>3, <1>5, <1>6, <1>7, LifeStep

LEMMA LifeShutdown == ASSUME LifeInv, NEW u \in Users, Life!Shutdown(u) PROVE LifeInv'
<1>1. PICK k : k = [user[u] EXCEPT !.pc = "stop", !.last = TRUE, !.ping = 0]
  OBVIOUS
<1>2. k \in UserRecords /\ k.op = user[u].op /\ k.result = user[u].result /\ k.pc = "stop"
  BY <1>1, LifeUser DEF UserRecords, UserSteps
<1>3. user' = [user EXCEPT ![u] = k] /\ UNCHANGED <<state, task, completion, pings>>
  BY <1>1, LifeUser DEF Life!Shutdown
<1>4. UserSound(k)'
  BY <1>2, <1>3, LifeUser DEF UserSound, Life!Shutdown
<1> QED BY <1>3, <1>4, LaterSame, SoundSame, LifeStep

LEMMA LifeStop == ASSUME LifeInv, NEW u \in Users, Life!Stop(u) PROVE LifeInv'
<1>0. /\ state' = [runner |-> FALSE, stopping |-> TRUE, connection |-> 0] /\ UNCHANGED <<task, pings>>
      /\ user[u].pc = "stop"
  BY DEF Life!Stop
<1>1. CASE task.pc = "none"
  <2>0. "ok" \in Verdicts
    BY DEF Verdicts, Told
  <2>1. completion' = Life!Published("ok") /\ Life!StopReturns(u, completion'.result)
    BY <1>1 DEF Life!Stop, Life!Publish
  <2>2. /\ completion' \in [rec : {"none", "closed", "final"}, result : Verdicts] /\ completion'.rec = "final"
        /\ completion.rec = "final" => completion' = completion
        /\ completion'.result # "cancelled"
    BY <2>0, <2>1, PublishedIs DEF LifeInv, TaskSound
  <2>3. LifeTypes' /\ Later
    BY <1>0, <1>1, <2>2 DEF LifeInv, LifeTypes, Later
  <2>4. TaskSound'
    BY <1>0, <1>1, <2>2 DEF LifeInv, TaskSound
  <2>5. completion'.result \in Verdicts \ {"cancelled"}
    BY <2>2
  <2>6. state'.stopping /\ task'.pc \in {"none", "ended"} /\ user[u].pc # "done"
    BY <1>0, <1>1
  <2>7. PICK v : v = completion'.result
    OBVIOUS
  <2> QED BY <2>1, <2>2, <2>3, <2>4, <2>5, <2>6, <2>7, LifeStopReturns
<1>2. CASE task.pc # "none"
  <2>1. PICK k : k = [user[u] EXCEPT !.pc = "join"]
    OBVIOUS
  <2>2. k \in UserRecords /\ k.op = user[u].op /\ k.result = user[u].result /\ k.last = user[u].last /\ k.pc = "join"
    BY <2>1, LifeUser DEF UserRecords, UserSteps
  <2>3. user' = [user EXCEPT ![u] = k] /\ completion' = completion
    BY <1>2, <2>1, LifeUser DEF Life!Stop, Life!Step
  <2>4. LifeTypes' /\ TaskSound' /\ Later
    BY <1>0, <1>2, <2>3 DEF LifeInv, LifeTypes, TaskSound, Later
  <2>5. UserSound(k)'
    BY <1>0, <2>2, <2>3, LifeUser DEF UserSound
  <2> QED BY <2>3, <2>4, <2>5, LifeStep
<1> QED BY <1>1, <1>2

LEMMA LifeTimesOut == ASSUME LifeInv, NEW u \in Users, Life!TimesOut(u) PROVE LifeInv'
<1>1. PICK k : k = [user[u] EXCEPT !.pc = "abort"]
  OBVIOUS
<1>2. k \in UserRecords /\ k.op = user[u].op /\ k.result = user[u].result /\ k.last = user[u].last /\ k.pc = "abort"
  BY <1>1, LifeUser DEF UserRecords, UserSteps
<1>3. user' = [user EXCEPT ![u] = k] /\ UNCHANGED <<state, task, pings>>
  BY <1>1, LifeUser DEF Life!TimesOut, Life!Step
<1>4. /\ completion' \in [rec : {"none", "closed", "final"}, result : Verdicts] /\ completion'.rec = "final"
      /\ completion.rec = "final" => completion' = completion
      /\ completion' = completion \/ completion'.result = "timeout"
  <2>1. "timeout" \in Verdicts
    BY DEF Verdicts, Told
  <2> QED BY <2>1, PublishedIs DEF Life!TimesOut, Life!Publish, LifeInv
<1>5. LifeTypes' /\ Later
  BY <1>3, <1>4 DEF LifeInv, LifeTypes, Later
<1>6. TaskSound'
  BY <1>3, <1>4 DEF LifeInv, TaskSound
<1>7. UserSound(k)'
  BY <1>2, <1>3, <1>4, LifeUser DEF UserSound, Life!TimesOut
<1> QED BY <1>3, <1>5, <1>6, <1>7, LifeStep

LEMMA LifeAbort == ASSUME LifeInv, NEW u \in Users, Life!Abort(u) PROVE LifeInv'
<1>1. PICK k : k = [user[u] EXCEPT !.pc = "joinAborted"]
  OBVIOUS
<1>2. k \in UserRecords /\ k.op = user[u].op /\ k.result = user[u].result /\ k.last = user[u].last
      /\ k.pc = "joinAborted"
  BY <1>1, LifeUser DEF UserRecords, UserSteps
<1>3. user' = [user EXCEPT ![u] = k] /\ UNCHANGED <<state, completion, pings>> /\ task' = [task EXCEPT !.abort = TRUE]
  BY <1>1, LifeUser DEF Life!Abort, Life!Step
<1>4. completion.rec = "final" /\ state.stopping
  BY LifeUser DEF UserSound, Life!Abort
<1>5. task'.pc = task.pc /\ task'.result = task.result
  BY <1>3 DEF LifeInv, LifeTypes
<1>6. LifeTypes' /\ Later
  BY <1>3, <1>5 DEF LifeInv, LifeTypes, Later
<1>7. TaskSound'
  BY <1>3, <1>4, <1>5 DEF LifeInv, TaskSound
<1>8. UserSound(k)'
  BY <1>2, <1>3, <1>4, <1>5, LifeUser DEF UserSound, Life!Abort
<1> QED BY <1>3, <1>6, <1>7, <1>8, LifeStep

(* The runner's task *)
LEMMA LifeTask ==
    ASSUME LifeInv,
           Life!RunnerCloses \/ Life!RunnerPanics \/ Life!RunnerPublishes \/ Life!TaskEnds \/ Life!TaskAborted
    PROVE  LifeInv'
<1> USE DEF LifeInv, LifeTypes
<1>1. CASE Life!RunnerCloses
  <2>1. LifeTypes' /\ TaskSound' /\ Later /\ user' = user
    BY <1>1 DEF Life!RunnerCloses, TaskSound, Later
  <2> QED BY <2>1, LifeQuiet
<1>2. CASE Life!RunnerPanics
  <2>1. LifeTypes' /\ TaskSound' /\ Later /\ user' = user
    BY <1>2 DEF Life!RunnerPanics, TaskSound, Later
  <2> QED BY <2>1, LifeQuiet
<1>3. CASE Life!RunnerPublishes
  <2>0. task.result \in Verdicts
    BY DEF Verdicts, Told
  <2>1. /\ completion' \in [rec : {"none", "closed", "final"}, result : Verdicts] /\ completion'.rec = "final"
        /\ completion.rec = "final" => completion' = completion
        /\ \/ completion' = completion
           \/ completion.rec = "closed" /\ task.result = "ok" /\ completion'.result = completion.result
           \/ completion'.result = task.result
    BY <1>3, <2>0, PublishedIs DEF Life!RunnerPublishes, Life!Publish
  <2>2. task' = [task EXCEPT !.pc = "published"] /\ UNCHANGED <<user, state, pings>> /\ task.pc = "closing"
    BY <1>3 DEF Life!RunnerPublishes
  <2>3. LifeTypes' /\ Later
    BY <2>1, <2>2 DEF Later
  <2>4. TaskSound'
    BY <2>1, <2>2 DEF TaskSound
  <2> QED BY <2>2, <2>3, <2>4, LifeQuiet
<1>4. CASE Life!TaskEnds
  <2>1. LifeTypes' /\ TaskSound' /\ Later /\ user' = user
    BY <1>4 DEF Life!TaskEnds, TaskSound, Later
  <2> QED BY <2>1, LifeQuiet
<1>5. CASE Life!TaskAborted
  <2>1. LifeTypes' /\ TaskSound' /\ Later /\ user' = user
    BY <1>5 DEF Life!TaskAborted, TaskSound, Later
  <2> QED BY <2>1, LifeQuiet
<1> QED BY <1>1, <1>2, <1>3, <1>4, <1>5

(* Every step of the client's life keeps the invariant *)
THEOREM LifeInvariance == ASSUME LifeInv, Life!Next PROVE LifeInv'
BY LifeBegin, LifeStart, LifeConnectCheck, LifeConnectPing, LifeStartup, LifePingEnds, LifeRunnerEndsFirst, LifeConnected,
   LifeStartFailed, LifeRunEnds, LifeShutdown, LifeStop, LifeJoined, LifeTimesOut, LifeAbort, LifeTask
   DEF Life!Next, Life!Call, Life!Timer

(* What callers are told, from the invariant: stop() and run_until() return when no
   runner is running, a panic is reported, everyone is told the same, and nobody that
   a task was cancelled *)
THEOREM LifeCorrect ==
    LifeInv => Life!StoppedForGood /\ Life!PanicIsReported /\ Life!OneVerdict /\ Life!TimeoutIsReported
<1> SUFFICES ASSUME LifeInv
             PROVE  Life!StoppedForGood /\ Life!PanicIsReported /\ Life!OneVerdict /\ Life!TimeoutIsReported
  OBVIOUS
<1>1. Life!StoppedForGood
  BY LifeUser DEF UserSound, Life!StoppedForGood, Life!Returned, LifeInv, TaskSound
<1>2. Life!PanicIsReported
  BY LifeUser DEF UserSound, Told, Life!PanicIsReported, LifeInv, TaskSound
<1>3. Life!OneVerdict
  BY LifeUser DEF UserSound, Told, Life!OneVerdict
<1>4. Life!TimeoutIsReported
  BY LifeUser DEF UserSound, Life!TimeoutIsReported
<1> QED BY <1>1, <1>2, <1>3, <1>4

(* A check of connectivity that still runs is taken away only by a stop: whoever was
   refused for overload clears the check it awaited itself, which has an answer *)
THEOREM CheckStaysSharedCorrect == ASSUME LifeInv, Life!Next PROVE Life!CheckStaysShared
<1> SUFFICES ASSUME state.connection # 0, pings[state.connection] = "pending", ~state'.stopping
             PROVE  state'.connection = state.connection
  BY DEF Life!CheckStaysShared
<1>1. ASSUME NEW u \in Users, Life!Call(u) \/ Life!Timer(u) \/ Life!Shutdown(u) \/ Life!Begin(u)
      PROVE  state'.connection = state.connection
  <2>1. CASE Life!Connected(u)
    <3>1. CASE pings[user[u].ping] = "overloaded"
      BY <2>1, <3>1 DEF Life!Connected, Life!Cleared
    <3>2. CASE pings[user[u].ping] # "overloaded"
      BY <2>1, <3>2 DEF Life!Connected
    <3> QED BY <3>1, <3>2
  <2>2. CASE Life!Start(u)
    BY <2>2 DEF Life!Start, LifeInv, LifeTypes
  <2>3. CASE Life!Startup(u)
    BY <2>3 DEF Life!Startup
  <2>4. CASE Life!Stop(u)
    BY <2>4 DEF Life!Stop
  <2>5. CASE Life!ConnectCheck(u) \/ Life!ConnectPing(u) \/ Life!RunnerEndsFirst(u) \/ Life!StartFailed(u) \/ Life!RunEnds(u)
             \/ Life!Joined(u) \/ Life!Abort(u) \/ Life!TimesOut(u) \/ Life!Shutdown(u) \/ Life!Begin(u)
    BY <2>5 DEF Life!ConnectCheck, Life!ConnectPing, Life!RunnerEndsFirst, Life!StartFailed, Life!RunEnds, Life!Joined, Life!Abort,
                Life!TimesOut, Life!Shutdown, Life!Begin
  <2> QED BY <1>1, <2>1, <2>2, <2>3, <2>4, <2>5 DEF Life!Call, Life!Timer
<1>2. ASSUME NEW p \in DOMAIN pings, NEW r \in {"ok", "network", "overloaded", "closed"}, Life!PingEnds(p, r)
      PROVE  state'.connection = state.connection
  BY <1>2 DEF Life!PingEnds
<1>3. CASE Life!RunnerCloses \/ Life!RunnerPanics \/ Life!RunnerPublishes \/ Life!TaskEnds \/ Life!TaskAborted
  BY <1>3 DEF Life!RunnerCloses, Life!RunnerPanics, Life!RunnerPublishes, Life!TaskEnds, Life!TaskAborted
<1> QED BY <1>1, <1>2, <1>3 DEF Life!Next

-----------------------------------------------------------------------------
(* PeerCache.  A peer that no call is writing, and about which nothing is unsure, is
   remembered as what the session holds *)

Prints == [peer : Nat, version : Nat]
PeerMaps == UNION {[S -> Nat] : S \in SUBSET CachedPeers}
CacheTypes ==
    /\ truth \in [CachedPeers -> Nat] /\ written \in [CachedPeers -> Nat]
    /\ caching \in [CacheCalls -> [pc : {"idle", "write", "written", "remember"}, peers : PeerMaps]]
    /\ \E n \in Nat : slots \in [0 .. (n - 1) -> Prints]
IdleHasNone == \A c \in CacheCalls : caching[c].pc = "idle" => DOMAIN caching[c].peers = {}

(* One call at most has the peer; before it has written the peer, what is remembered is
   stored, and after that what it is about to remember is *)
HasPeer(c, p) == p \in DOMAIN caching[c].peers
PeerSound(p) ==
    /\ \A c, d \in CacheCalls : HasPeer(c, p) /\ HasPeer(d, p) => c = d
    /\ (\A c \in CacheCalls : HasPeer(c, p) => caching[c].pc = "write") =>
         \A v \in Versions : Cache!Contains(p, v) => written[p] = v
    /\ \A c \in CacheCalls : HasPeer(c, p) /\ caching[c].pc # "write" => written[p] = caching[c].peers[p]
CacheInv == CacheTypes /\ IdleHasNone /\ \A p \in CachedPeers \ unsure : PeerSound(p)

LEMMA CountIs == ASSUME NEW S PROVE Cache!Cardinality(S) = Cardinality(S)
BY DEF Cache!Cardinality, Cardinality

(* The table has a size, and positions of peers are within it *)
LEMMA TableSize ==
    ASSUME NEW n \in Nat, NEW t \in [0 .. (n - 1) -> Prints]
    PROVE  DOMAIN t = 0 .. (n - 1) /\ Cache!Cardinality(DOMAIN t) = n
<1>1. DOMAIN t = 0 .. (n - 1)
  OBVIOUS
<1>2. Cardinality(0 .. (n - 1)) = n
  BY FS_Interval
<1> QED BY <1>1, <1>2, CountIs
LEMMA PositionInTable ==
    ASSUME NEW p \in CachedPeers, NEW n \in Nat \ {0}
    PROVE  Cache!Index(p, n) \in 0 .. (n - 1)
BY CacheAssumption DEF Cache!Index

LEMMA CacheBegins == Cache!Init => CacheInv
<1> SUFFICES ASSUME Cache!Init PROVE CacheInv
  OBVIOUS
<1>1. Cache!NoPeers \in PeerMaps /\ DOMAIN Cache!NoPeers = {}
  <2>1. Cache!NoPeers \in [{} -> Nat]
    BY DEF Cache!NoPeers
  <2> QED BY <2>1 DEF PeerMaps
<1>2. slots \in [0 .. (0 - 1) -> Prints] /\ DOMAIN slots = {}
  <2>1. 0 .. (0 - 1) = {}
    OBVIOUS
  <2> QED BY <2>1 DEF Cache!Init
<1>3. CacheTypes
  BY <1>1, <1>2 DEF Cache!Init, CacheTypes
<1>4. \A c \in CacheCalls : DOMAIN caching[c].peers = {}
  BY <1>1 DEF Cache!Init
<1>5. \A p, v : ~Cache!Contains(p, v)
  BY <1>2 DEF Cache!Contains, Cache!Slots
<1> QED BY <1>3, <1>4, <1>5 DEF CacheInv, IdleHasNone, PeerSound, HasPeer

LEMMA CacheChange == ASSUME CacheInv, NEW p \in CachedPeers, Cache!Change(p) PROVE CacheInv'
<1>1. UNCHANGED <<written, slots, caching, unsure>> /\ truth' \in [CachedPeers -> Nat]
  BY CacheAssumption DEF Cache!Change, CacheInv, CacheTypes
<1>2. CacheTypes' /\ IdleHasNone'
  BY <1>1 DEF CacheInv, CacheTypes, IdleHasNone
<1>3. ASSUME NEW q \in CachedPeers \ unsure' PROVE PeerSound(q)'
  BY <1>1 DEF CacheInv, PeerSound, HasPeer, Cache!Contains, Cache!Slots
<1> QED BY <1>2, <1>3 DEF CacheInv

LEMMA CacheElapse == ASSUME CacheInv, Cache!Elapse PROVE CacheInv'
<1>1. UNCHANGED <<truth, written, slots, caching, unsure>>
  BY DEF Cache!Elapse
<1>2. CacheTypes' /\ IdleHasNone'
  BY <1>1 DEF CacheInv, CacheTypes, IdleHasNone
<1>3. ASSUME NEW q \in CachedPeers \ unsure' PROVE PeerSound(q)'
  BY <1>1 DEF CacheInv, PeerSound, HasPeer, Cache!Contains, Cache!Slots
<1> QED BY <1>2, <1>3 DEF CacheInv

LEMMA CacheCall ==
    ASSUME CacheInv, NEW c \in CacheCalls
    PROVE  /\ caching \in [CacheCalls -> [pc : {"idle", "write", "written", "remember"}, peers : PeerMaps]]
           /\ caching[c].peers \in [DOMAIN caching[c].peers -> Nat] /\ DOMAIN caching[c].peers \subseteq CachedPeers
BY DEF CacheInv, CacheTypes, PeerMaps

LEMMA CacheWrite == ASSUME CacheInv, NEW c \in CacheCalls, Cache!Write(c) PROVE CacheInv'
<1>1. /\ UNCHANGED <<truth, slots, unsure>> /\ caching[c].pc = "write"
      /\ written' = [p \in CachedPeers |-> IF p \in DOMAIN caching[c].peers THEN caching[c].peers[p] ELSE written[p]]
      /\ caching' = [caching EXCEPT ![c].pc = "written"]
  BY DEF Cache!Write
<1>2. CacheTypes'
  BY <1>1, CacheCall DEF CacheInv, CacheTypes
<1>3. \A d \in CacheCalls : /\ caching'[d].peers = caching[d].peers
                            /\ caching'[d].pc = IF d = c THEN "written" ELSE caching[d].pc
  BY <1>1, CacheCall
<1>4. IdleHasNone'
  BY <1>3 DEF CacheInv, IdleHasNone
<1>5. ASSUME NEW p \in CachedPeers \ unsure' PROVE PeerSound(p)'
  <2>1. PeerSound(p)
    BY <1>1, <1>5 DEF CacheInv
  <2>2. CASE HasPeer(c, p)
    BY <1>1, <1>3, <2>1, <2>2 DEF PeerSound, HasPeer
  <2>3. CASE ~HasPeer(c, p)
    <3>1. written'[p] = written[p]
      BY <1>1, <2>3 DEF HasPeer
    <3> QED BY <1>1, <1>3, <2>1, <2>3, <3>1 DEF PeerSound, HasPeer, Cache!Contains, Cache!Slots
  <2> QED BY <2>2, <2>3
<1> QED BY <1>2, <1>4, <1>5 DEF CacheInv

(* A write that fails, or a call that is dropped when it may have been written, leaves
   nothing to be remembered *)
LEMMA CacheGivesUp ==
    ASSUME CacheInv, NEW c \in CacheCalls, Cache!WriteFails(c) \/ Cache!Dropped(c)
    PROVE  CacheInv'
<1>1. /\ UNCHANGED <<truth, written, slots>>
      /\ caching' = [caching EXCEPT ![c] = [pc |-> "idle", peers |-> Cache!NoPeers]]
      /\ unsure \subseteq unsure'
      /\ caching[c].pc = "write" \/ DOMAIN caching[c].peers \subseteq unsure'
  BY DEF Cache!WriteFails, Cache!Dropped
<1>2. Cache!NoPeers \in PeerMaps /\ DOMAIN Cache!NoPeers = {}
  <2>1. Cache!NoPeers \in [{} -> Nat]
    BY DEF Cache!NoPeers
  <2> QED BY <2>1 DEF PeerMaps
<1>3. CacheTypes'
  BY <1>1, <1>2, CacheCall DEF CacheInv, CacheTypes
<1>4. \A d \in CacheCalls : IF d = c THEN DOMAIN caching'[d].peers = {} ELSE caching'[d] = caching[d]
  BY <1>1, <1>2, CacheCall
<1>5. IdleHasNone'
  BY <1>4 DEF CacheInv, IdleHasNone
<1>6. ASSUME NEW p \in CachedPeers \ unsure' PROVE PeerSound(p)'
  <2>1. PeerSound(p) /\ (HasPeer(c, p) => caching[c].pc = "write")
    BY <1>1, <1>6 DEF CacheInv, HasPeer
  <2> QED BY <1>1, <1>4, <2>1 DEF PeerSound, HasPeer, Cache!Contains, Cache!Slots
<1> QED BY <1>3, <1>5, <1>6 DEF CacheInv

(* An empty position stands for no version of a peer *)
LEMMA NotEmpty ==
    ASSUME NEW p, NEW v \in Versions
    PROVE  Cache!Empty # Cache!Fingerprint(p, v)
BY CacheAssumption DEF Cache!Empty, Cache!Fingerprint
LEMMA PrintsDiffer ==
    ASSUME NEW p, NEW q, NEW v, NEW w, Cache!Fingerprint(p, v) = Cache!Fingerprint(q, w)
    PROVE  p = q /\ v = w
BY DEF Cache!Fingerprint

LEMMA CacheHear == ASSUME CacheInv, NEW c \in CacheCalls, NEW S \in Batches, Cache!Hear(c, S) PROVE CacheInv'
<1> DEFINE changed == Cache!Changed([p \in S |-> truth[p]])
           InFlight(p) == \E d \in CacheCalls \ {c} : p \in DOMAIN caching[d].peers
<1>0. S \subseteq CachedPeers /\ changed \subseteq S
  BY CacheAssumption DEF Cache!Changed
<1>1. /\ caching[c].pc = "idle" /\ slots' = Cache!Kept /\ UNCHANGED <<truth, written>>
      /\ caching' = IF changed = {} THEN caching
                    ELSE [caching EXCEPT ![c] = [pc |-> "write", peers |-> [p \in changed |-> truth[p]]]]
      /\ unsure' = {p \in unsure : Cache!Old => InFlight(p)} \cup {p \in changed : InFlight(p)}
  BY DEF Cache!Hear
<1>2. DOMAIN caching[c].peers = {}
  BY <1>1 DEF CacheInv, IdleHasNone
<1> HIDE DEF changed
<1>3. [p \in changed |-> truth[p]] \in PeerMaps
  BY <1>0 DEF PeerMaps, CacheInv, CacheTypes
<1>4. \E n \in Nat : slots' \in [0 .. (n - 1) -> Prints]
  <2>1. PICK n \in Nat : slots \in [0 .. (n - 1) -> Prints]
    BY DEF CacheInv, CacheTypes
  <2>2. Cache!Empty \in Prints
    BY DEF Cache!Empty, Prints
  <2>3. Cache!Kept \in [0 .. (n - 1) -> Prints]
    BY <2>1, <2>2 DEF Cache!Kept, Cache!Slots
  <2> QED BY <1>1, <2>3
<1>5. CacheTypes'
  BY <1>1, <1>3, <1>4, CacheCall DEF CacheInv, CacheTypes
<1>6. /\ \A d \in CacheCalls \ {c} : caching'[d] = caching[d]
      /\ DOMAIN caching'[c].peers \subseteq changed
      /\ DOMAIN caching'[c].peers # {} => caching'[c].pc = "write"
  BY <1>1, <1>2, CacheCall
<1>7. IdleHasNone'
  BY <1>1, <1>2, <1>6 DEF CacheInv, IdleHasNone
<1>8. ASSUME NEW p \in CachedPeers \ unsure' PROVE PeerSound(p)'
  <2>1. CASE InFlight(p)
    <3>1. p \notin unsure /\ p \notin changed
      BY <1>1, <1>8, <2>1
    <3>2. PeerSound(p) /\ p \notin DOMAIN caching'[c].peers /\ p \notin DOMAIN caching[c].peers
      BY <1>2, <1>6, <3>1 DEF CacheInv
    <3>3. ASSUME NEW v \in Versions, Cache!Contains(p, v)' PROVE Cache!Contains(p, v)
      <4>1. CASE Cache!Old
        <5>1. PICK n \in Nat : slots \in [0 .. (n - 1) -> Prints]
          BY DEF CacheInv, CacheTypes
        <5>2. slots' = [i \in 0 .. (n - 1) |-> Cache!Empty] /\ slots' \in [0 .. (n - 1) -> Prints]
          BY <1>1, <4>1, <5>1 DEF Cache!Kept, Cache!Slots, Cache!Empty, Prints
        <5>3. n # 0
          BY <3>3, <5>2 DEF Cache!Contains, Cache!Slots
        <5>4. slots'[Cache!Index(p, n)] = Cache!Fingerprint(p, v)
          BY <3>3, <5>2, TableSize DEF Cache!Contains, Cache!Slots
        <5> QED BY <5>2, <5>3, <5>4, PositionInTable, NotEmpty
      <4>2. CASE ~Cache!Old
        BY <1>1, <3>3, <4>2 DEF Cache!Kept, Cache!Contains, Cache!Slots
      <4> QED BY <4>1, <4>2
    <3>4. \A d \in CacheCalls : HasPeer(d, p) = HasPeer(d, p)' /\ (HasPeer(d, p) => caching'[d] = caching[d])
      BY <1>6, <3>2 DEF HasPeer
    <3> QED BY <1>1, <3>2, <3>3, <3>4 DEF PeerSound
  <2>2. CASE ~InFlight(p)
    <3>1. \A d \in CacheCalls : HasPeer(d, p)' => d = c /\ caching'[d].pc = "write"
      BY <1>6, <2>2 DEF HasPeer
    <3>2. \A d \in CacheCalls : ~HasPeer(d, p)
      BY <1>2, <2>2 DEF HasPeer
    <3>3. ASSUME NEW v \in Versions, Cache!Contains(p, v)' PROVE written'[p] = v
      <4>1. CASE Cache!Old
        <5>1. PICK n \in Nat : slots \in [0 .. (n - 1) -> Prints]
          BY DEF CacheInv, CacheTypes
        <5>2. slots' = [i \in 0 .. (n - 1) |-> Cache!Empty] /\ slots' \in [0 .. (n - 1) -> Prints]
          BY <1>1, <4>1, <5>1 DEF Cache!Kept, Cache!Slots, Cache!Empty, Prints
        <5>3. n # 0
          BY <3>3, <5>2 DEF Cache!Contains, Cache!Slots
        <5>4. slots'[Cache!Index(p, n)] = Cache!Fingerprint(p, v)
          BY <3>3, <5>2, TableSize DEF Cache!Contains, Cache!Slots
        <5> QED BY <5>2, <5>3, <5>4, PositionInTable, NotEmpty
      <4>2. CASE ~Cache!Old
        <5>1. p \notin unsure
          BY <1>1, <1>8, <4>2
        <5>2. Cache!Contains(p, v)
          BY <1>1, <3>3, <4>2 DEF Cache!Kept, Cache!Contains, Cache!Slots
        <5> QED BY <1>1, <3>2, <5>1, <5>2 DEF CacheInv, PeerSound
      <4> QED BY <4>1, <4>2
    <3> QED BY <3>1, <3>3 DEF PeerSound
  <2> QED BY <2>1, <2>2
<1> QED BY <1>5, <1>7, <1>8 DEF CacheInv

(* remember: a position stands for the peer that was written to it last, and a table that
   grows for none *)
Remembers(p, w) ==
    \E table, size :
      /\ table = IF Cache!Slots = {} THEN [i \in 0 .. (MinSlots - 1) |-> Cache!Empty] ELSE slots
      /\ size = Cache!Cardinality(DOMAIN table)
      /\ \/ slots' = [i \in 0 .. (2 * size - 1) |-> Cache!Empty]
         \/ slots' = [table EXCEPT ![Cache!Index(p, size)] = Cache!Fingerprint(p, w)]
LEMMA RememberedSlots ==
    ASSUME CacheInv, NEW p \in CachedPeers, NEW w \in Nat, Remembers(p, w)
    PROVE  /\ \E n \in Nat : slots' \in [0 .. (n - 1) -> Prints]
           /\ \A q \in CachedPeers, v \in Versions :
                Cache!Contains(q, v)' => IF q = p THEN v = w ELSE Cache!Contains(q, v)
<1> PICK table, size :
      /\ table = IF Cache!Slots = {} THEN [i \in 0 .. (MinSlots - 1) |-> Cache!Empty] ELSE slots
      /\ size = Cache!Cardinality(DOMAIN table)
      /\ \/ slots' = [i \in 0 .. (2 * size - 1) |-> Cache!Empty]
         \/ slots' = [table EXCEPT ![Cache!Index(p, size)] = Cache!Fingerprint(p, w)]
  BY DEF Remembers
<1>0. Cache!Empty \in Prints /\ Cache!Fingerprint(p, w) \in Prints
  BY CacheAssumption DEF Cache!Empty, Cache!Fingerprint, Prints
<1>1. PICK n \in Nat \ {0} : table \in [0 .. (n - 1) -> Prints]
  <2>1. CASE Cache!Slots = {}
    BY <1>0, <2>1, CacheAssumption
  <2>2. CASE Cache!Slots # {}
    <3>1. PICK k \in Nat : slots \in [0 .. (k - 1) -> Prints]
      BY DEF CacheInv, CacheTypes
    <3>2. k # 0
      BY <2>2, <3>1 DEF Cache!Slots
    <3> QED BY <2>2, <3>1, <3>2
  <2> QED BY <2>1, <2>2
<1>2. size = n /\ DOMAIN table = 0 .. (n - 1)
  BY <1>1, TableSize
<1>3. CASE slots' = [i \in 0 .. (2 * size - 1) |-> Cache!Empty]
  <2>1. 2 * n \in Nat \ {0} /\ slots' \in [0 .. ((2 * n) - 1) -> Prints]
    BY <1>0, <1>2, <1>3
  <2>2. ASSUME NEW q \in CachedPeers, NEW v \in Versions, Cache!Contains(q, v)' PROVE FALSE
    <3>1. slots'[Cache!Index(q, 2 * n)] = Cache!Fingerprint(q, v)
      BY <2>1, <2>2, TableSize DEF Cache!Contains, Cache!Slots
    <3>2. Cache!Index(q, 2 * n) \in 0 .. ((2 * n) - 1)
      BY <2>1, PositionInTable
    <3> QED BY <1>2, <1>3, <3>1, <3>2, NotEmpty
  <2> QED BY <2>1, <2>2
<1>4. CASE slots' = [table EXCEPT ![Cache!Index(p, size)] = Cache!Fingerprint(p, w)]
  <2>1. slots' \in [0 .. (n - 1) -> Prints] /\ Cache!Index(p, n) \in 0 .. (n - 1)
    BY <1>0, <1>1, <1>2, <1>4, PositionInTable
  <2>2. ASSUME NEW q \in CachedPeers, NEW v \in Versions, Cache!Contains(q, v)'
        PROVE  IF q = p THEN v = w ELSE Cache!Contains(q, v)
    <3>1. slots'[Cache!Index(q, n)] = Cache!Fingerprint(q, v)
      BY <2>1, <2>2, TableSize DEF Cache!Contains, Cache!Slots
    <3>2. Cache!Index(q, n) \in 0 .. (n - 1)
      BY PositionInTable
    <3>3. CASE Cache!Index(q, n) = Cache!Index(p, n)
      <4>1. Cache!Fingerprint(p, w) = Cache!Fingerprint(q, v)
        BY <1>1, <1>2, <1>4, <2>1, <3>1, <3>3
      <4> QED BY <4>1, PrintsDiffer
    <3>4. CASE Cache!Index(q, n) # Cache!Index(p, n)
      <4>1. table[Cache!Index(q, n)] = Cache!Fingerprint(q, v) /\ q # p
        BY <1>1, <1>2, <1>4, <3>1, <3>2, <3>4
      <4>2. Cache!Slots # {}
        <5> SUFFICES ASSUME Cache!Slots = {} PROVE FALSE
          OBVIOUS
        <5>1. table = [i \in 0 .. (MinSlots - 1) |-> Cache!Empty]
          OBVIOUS
        <5>2. table[Cache!Index(q, n)] = Cache!Empty
          BY <1>2, <3>2, <5>1
        <5> QED BY <4>1, <5>2, NotEmpty
      <4>3. table = slots
        BY <4>2
      <4> QED BY <1>2, <4>1, <4>2, <4>3 DEF Cache!Contains, Cache!Slots
    <3> QED BY <3>3, <3>4
  <2> QED BY <2>1, <2>2
<1> QED BY <1>3, <1>4

LEMMA CacheRemember == ASSUME CacheInv, NEW c \in CacheCalls, Cache!Remember(c) PROVE CacheInv'
<1>1. PICK p \in DOMAIN caching[c].peers :
        /\ Remembers(p, caching[c].peers[p])
        /\ caching[c].pc \in {"written", "remember"}
        /\ caching' = [caching EXCEPT ![c] =
              IF DOMAIN caching[c].peers \ {p} = {} THEN [pc |-> "idle", peers |-> Cache!NoPeers]
              ELSE [pc |-> "remember",
                    peers |-> [q \in DOMAIN caching[c].peers \ {p} |-> caching[c].peers[q]]]]
        /\ UNCHANGED <<truth, written, unsure>>
  BY DEF Cache!Remember, Remembers
<1>2. p \in CachedPeers /\ caching[c].peers[p] \in Nat
  BY <1>1, CacheCall
<1>3. /\ \E n \in Nat : slots' \in [0 .. (n - 1) -> Prints]
      /\ \A q \in CachedPeers, v \in Versions :
           Cache!Contains(q, v)' => IF q = p THEN v = caching[c].peers[p] ELSE Cache!Contains(q, v)
  <2>1. PICK w \in Nat : w = caching[c].peers[p]
    BY <1>2
  <2>2. Remembers(p, w)
    BY <1>1, <2>1
  <2>3. p \in CachedPeers
    BY <1>2
  <2>4. /\ \E n \in Nat : slots' \in [0 .. (n - 1) -> Prints]
        /\ \A q \in CachedPeers, v \in Versions :
             Cache!Contains(q, v)' => IF q = p THEN v = w ELSE Cache!Contains(q, v)
    BY <2>2, <2>3, RememberedSlots
  <2> QED BY <2>1, <2>4
<1>4. /\ \A d \in CacheCalls \ {c} : caching'[d] = caching[d]
      /\ DOMAIN caching'[c].peers = DOMAIN caching[c].peers \ {p}
      /\ \A q \in DOMAIN caching'[c].peers : caching'[c].peers[q] = caching[c].peers[q]
      /\ caching'[c].pc = "idle" => DOMAIN caching'[c].peers = {}
      /\ caching'[c].pc \in {"idle", "remember"}
  <2>1. caching'[c] = IF DOMAIN caching[c].peers \ {p} = {} THEN [pc |-> "idle", peers |-> Cache!NoPeers]
                      ELSE [pc |-> "remember",
                            peers |-> [q \in DOMAIN caching[c].peers \ {p} |-> caching[c].peers[q]]]
    BY <1>1, CacheCall
  <2>2. DOMAIN Cache!NoPeers = {}
    BY DEF Cache!NoPeers
  <2>3. \A d \in CacheCalls \ {c} : caching'[d] = caching[d]
    BY <1>1, CacheCall
  <2> QED BY <2>1, <2>2, <2>3
<1>5. CacheTypes'
  <2>1. Cache!NoPeers \in PeerMaps
    <3>1. Cache!NoPeers \in [{} -> Nat]
      BY DEF Cache!NoPeers
    <3> QED BY <3>1 DEF PeerMaps
  <2>2. [q \in DOMAIN caching[c].peers \ {p} |-> caching[c].peers[q]] \in PeerMaps
    <3>1. [q \in DOMAIN caching[c].peers \ {p} |-> caching[c].peers[q]]
            \in [DOMAIN caching[c].peers \ {p} -> Nat]
      BY CacheCall
    <3>2. DOMAIN caching[c].peers \ {p} \in SUBSET CachedPeers
      BY CacheCall
    <3> QED BY <3>1, <3>2 DEF PeerMaps
  <2>3. caching' \in [CacheCalls -> [pc : {"idle", "write", "written", "remember"}, peers : PeerMaps]]
    BY <1>1, <2>1, <2>2, CacheCall
  <2> QED BY <1>1, <1>3, <2>3 DEF CacheInv, CacheTypes
<1>6. IdleHasNone'
  BY <1>4 DEF CacheInv, IdleHasNone
<1>7. ASSUME NEW q \in CachedPeers \ unsure' PROVE PeerSound(q)'
  <2>1. PeerSound(q) /\ written' = written
    BY <1>1, <1>7 DEF CacheInv
  <2>2. CASE q = p
    <3>1. HasPeer(c, q) /\ written[q] = caching[c].peers[q]
      BY <1>1, <2>1, <2>2 DEF PeerSound, HasPeer
    <3>2. \A d \in CacheCalls : ~HasPeer(d, q)'
      BY <1>4, <2>1, <2>2, <3>1 DEF PeerSound, HasPeer
    <3> QED BY <1>3, <2>1, <2>2, <3>1, <3>2 DEF PeerSound
  <2>3. CASE q # p
    <3>1. \A d \in CacheCalls : /\ HasPeer(d, q)' = HasPeer(d, q)
                                /\ HasPeer(d, q) => caching'[d].peers[q] = caching[d].peers[q]
      BY <1>4, <2>3 DEF HasPeer
    <3>2. \A d \in CacheCalls : HasPeer(d, q) => (caching'[d].pc = "write" <=> caching[d].pc = "write")
      BY <1>1, <1>4, <2>3 DEF HasPeer
    <3> QED BY <1>3, <2>1, <2>3, <3>1, <3>2 DEF PeerSound
  <2> QED BY <2>2, <2>3
<1> QED BY <1>5, <1>6, <1>7 DEF CacheInv

(* Every step of the cache keeps the invariant *)
THEOREM CacheInvariance == ASSUME CacheInv, Cache!Next PROVE CacheInv'
BY CacheChange, CacheElapse, CacheHear, CacheWrite, CacheRemember, CacheGivesUp
   DEF Cache!Next, Cache!CallRuns

(* A peer that is remembered, that no call is writing and about which nothing is unsure,
   is stored as it is remembered *)
THEOREM CacheCorrect == CacheInv => Cache!SkippedIsStored
BY DEF CacheInv, PeerSound, HasPeer, Cache!SkippedIsStored

-----------------------------------------------------------------------------
(* SqliteSession *)

RowType == [home : Nat, option : Nat, pts : Nat, channels : Nat, peer : SUBSET Facts]
CallType == [op : Sqlite!Ops \cup {"none"},
             pc : {"rest", "wait", "begin", "read", "write", "second", "commit"},
             value : Nat, facts : SUBSET Facts, alone : BOOLEAN, row : {"ok", "unread", "unwritten"}]
LooseType == [tables : SUBSET {"option", "peer"}, facts : SUBSET Facts]
SqliteTypes ==
    /\ disk \in [version : Nat, made : BOOLEAN, rows : RowType]
    /\ work \in [open : BOOLEAN, rows : RowType]
    /\ cached \in [home : Nat, option : Nat]
    /\ writer \in [Writers -> CallType]
    /\ acked \in [Sqlite!Plain -> Nat]
    /\ loose \in LooseType
    /\ split \in BOOLEAN
    /\ writes \in Nat

(* Where a call can be, and that it has the lock there, but for the transaction of
   set_home_dc_id *)
CallShape(w) ==
    /\ writer[w].op = "none" => writer[w] = Sqlite!Resting
    /\ writer[w].op = "none" <=> writer[w].pc = "rest"
    /\ writer[w].pc \in {"begin", "commit"} => Sqlite!Transacts(writer[w].op)
    /\ writer[w].pc = "second" => writer[w].op = "positions"
    /\ writer[w].pc = "read" => writer[w].op \in {"peer", "peers"}
    /\ writer[w].op \notin {"peer", "peers"} => writer[w].facts = {}
    /\ writer[w].row # "ok" => writer[w].op = "peers"
    /\ writer[w].row = "unwritten" => writer[w].pc = "commit"
    /\ \/ writer[w].pc \in {"rest", "wait"}
       \/ writer[w].op = "home" /\ writer[w].pc # "begin"
       \/ holder = w
(* A call that has read and writes the peer has all that can be read of it; cache_peers
   finds the row as it is in the file; a call that is about to commit has written its
   tables, but for a row that could not be written *)
CallHolds(w) ==
    /\ Sqlite!Owns(w) => work.open
    /\ writer[w].op \in {"peer", "peers"} /\ writer[w].pc = "write" /\ writer[w].row = "ok" =>
         Sqlite!Rows.peer \ Unreadable \subseteq writer[w].facts
    /\ writer[w].op = "peers" /\ writer[w].pc \in {"read", "write"} => work.rows.peer = disk.rows.peer
    /\ writer[w].pc = "second" => work.rows.pts = writer[w].value
    /\ writer[w].pc = "commit" =>
         /\ writer[w].op = "home" => work.rows.home = writer[w].value
         /\ writer[w].op \in {"positions", "account"} => work.rows.pts = writer[w].value
         /\ writer[w].op \in {"positions", "channel"} => work.rows.channels = writer[w].value
         /\ writer[w].op = "peers" /\ writer[w].row # "unwritten" => work.rows.peer = writer[w].facts
(* The cache has what the only call for a value stores *)
CacheAhead(w) ==
    writer[w].alone /\ writer[w].op \in {"home", "option"} => cached[writer[w].op] = writer[w].value
(* There is one transaction, and calls for the same table know of each other *)
OneOwner(w, x) == w # x => ~(Sqlite!Owns(w) /\ Sqlite!Owns(x))
Aware(w, x) ==
    w # x => \A t \in Sqlite!Tables : Sqlite!Touches(w, t) /\ Sqlite!Touches(x, t) => ~writer[w].alone
(* A table that has an answer for its value has no call *)
AckedFree == \A t \in Sqlite!Plain, w \in Writers : acked[t] # 0 => ~Sqlite!Touches(w, t)
(* A transaction differs from the file in the tables of its owner and in those that were
   answered inside it, and loses nothing that can be read about the peer unless its
   owner could not read it; only set_home_dc_id lets others into its transaction *)
Transaction(o) ==
    /\ Sqlite!Owns(o)
    /\ \A t \in Sqlite!Plain \ loose.tables : work.rows[t] = disk.rows[t] \/ Sqlite!Touches(o, t)
    /\ writer[o].row = "unread" \/ disk.rows.peer \ Unreadable \subseteq work.rows.peer
    /\ loose.facts \ Unreadable \subseteq work.rows.peer
    /\ writer[o].op = "home" \/ loose = Sqlite!NoneLoose
PeerKept == known \ Unreadable \subseteq disk.rows.peer
SqliteInv ==
    /\ SqliteTypes
    /\ \A w \in Writers : CallShape(w) /\ CallHolds(w) /\ CacheAhead(w)
    /\ \A w, x \in Writers : OneOwner(w, x) /\ Aware(w, x)
    /\ stage # "open" => \A w \in Writers : writer[w] = Sqlite!Resting
    /\ AckedFree
    /\ IF work.open THEN \E o \in Writers : Transaction(o) ELSE loose = Sqlite!NoneLoose
    /\ Sqlite!AckedIsStored /\ Sqlite!PositionsWhole /\ PeerKept

LEMMA WrittenIs ==
    /\ Sqlite!Written("home") = {"home"} /\ Sqlite!Written("option") = {"option"}
    /\ Sqlite!Written("positions") = {"pts", "channels"}
    /\ Sqlite!Written("account") = {"pts"} /\ Sqlite!Written("channel") = {"channels"}
    /\ Sqlite!Written("peer") = {"peer"} /\ Sqlite!Written("peers") = {"peer"}
BY DEF Sqlite!Written, Sqlite!FirstTable

LEMMA LooseIs ==
    /\ Sqlite!NoneLoose \in LooseType /\ Sqlite!NoneLoose.tables = {} /\ Sqlite!NoneLoose.facts = {}
BY DEF Sqlite!NoneLoose, LooseType

LEMMA CallIs ==
    ASSUME SqliteInv, NEW w \in Writers
    PROVE  /\ writer[w] \in CallType
           /\ writer[w].op \in {"none", "home", "option", "positions", "account", "channel", "peer", "peers"}
           /\ writer[w].pc \in {"rest", "wait", "begin", "read", "write", "second", "commit"}
           /\ writer[w].value \in Nat /\ writer[w].facts \subseteq Facts /\ writer[w].alone \in BOOLEAN
           /\ writer[w].row \in {"ok", "unread", "unwritten"}
           /\ CallShape(w) /\ CallHolds(w) /\ CacheAhead(w)
BY DEF SqliteInv, SqliteTypes, CallType, Sqlite!Ops

LEMMA RestIs ==
    /\ Sqlite!Resting \in CallType
    /\ Sqlite!Resting.op = "none" /\ Sqlite!Resting.pc = "rest" /\ Sqlite!Resting.alone
    /\ Sqlite!Resting.facts = {} /\ Sqlite!Resting.row = "ok"
BY DEF Sqlite!Resting, CallType

LEMMA ClosedIs ==
    Sqlite!Closed \in [open : BOOLEAN, rows : RowType] /\ ~Sqlite!Closed.open
<1>1. Sqlite!NoRows \in RowType
  BY DEF Sqlite!NoRows, RowType
<1> QED BY <1>1 DEF Sqlite!Closed

(* A statement changes the value of one table *)
RowWith(r, t, x) == [r EXCEPT ![t] = x]
LEMMA RowSet ==
    ASSUME NEW r \in RowType, NEW t \in Sqlite!Tables, NEW x,
           IF t = "peer" THEN x \in SUBSET Facts ELSE x \in Nat
    PROVE  /\ RowWith(r, t, x) \in RowType /\ RowWith(r, t, x)[t] = x
           /\ \A u \in Sqlite!Tables \ {t} : RowWith(r, t, x)[u] = r[u]
<1>1. DOMAIN r = {"home", "option", "pts", "channels", "peer"}
  BY DEF RowType
<1>2. RowWith(r, t, x) \in RowType
  <2>1. CASE t = "home" BY <2>1 DEF RowType, RowWith
  <2>2. CASE t = "option" BY <2>2 DEF RowType, RowWith
  <2>3. CASE t = "pts" BY <2>3 DEF RowType, RowWith
  <2>4. CASE t = "channels" BY <2>4 DEF RowType, RowWith
  <2>5. CASE t = "peer" BY <2>5 DEF RowType, RowWith
  <2> QED BY <2>1, <2>2, <2>3, <2>4, <2>5 DEF Sqlite!Tables, Sqlite!Plain
<1>3. RowWith(r, t, x)[t] = x /\ \A u \in Sqlite!Tables \ {t} : RowWith(r, t, x)[u] = r[u]
  BY <1>1 DEF Sqlite!Tables, Sqlite!Plain, RowWith
<1> QED BY <1>2, <1>3

LEMMA PutIs ==
    ASSUME SqliteTypes, NEW q \in RowType, Sqlite!Put(q)
    PROVE  /\ disk' \in [version : Nat, made : BOOLEAN, rows : RowType]
           /\ work' \in [open : BOOLEAN, rows : RowType]
           /\ work'.open = work.open /\ Sqlite!Rows' = q
           /\ IF work.open THEN disk' = disk /\ work'.rows = q ELSE work' = work /\ disk'.rows = q
<1>1. disk \in [version : Nat, made : BOOLEAN, rows : RowType] /\ work \in [open : BOOLEAN, rows : RowType]
  BY DEF SqliteTypes
<1>2. CASE work.open
  <2>1. work' = [work EXCEPT !.rows = q] /\ disk' = disk
    BY <1>2 DEF Sqlite!Put
  <2>2. work' \in [open : BOOLEAN, rows : RowType] /\ work'.open = work.open /\ work'.rows = q
    BY <1>1, <2>1
  <2> QED BY <1>1, <1>2, <2>1, <2>2 DEF Sqlite!Rows
<1>3. CASE ~work.open
  <2>1. disk' = [disk EXCEPT !.rows = q] /\ work' = work
    BY <1>3 DEF Sqlite!Put
  <2>2. disk' \in [version : Nat, made : BOOLEAN, rows : RowType] /\ disk'.rows = q
    BY <1>1, <2>1
  <2> QED BY <1>1, <1>3, <2>1, <2>2 DEF Sqlite!Rows
<1> QED BY <1>2, <1>3

LEMMA SqliteBegins == ASSUME Sqlite!Init PROVE SqliteInv
<1>1. Sqlite!NoRows \in RowType /\ Sqlite!NoRows.peer = {} /\ Sqlite!NoRows.pts = Sqlite!NoRows.channels
  BY DEF Sqlite!NoRows, RowType
<1>2. /\ disk \in [version : Nat, made : BOOLEAN, rows : RowType] /\ disk.rows = Sqlite!NoRows
      /\ work \in [open : BOOLEAN, rows : RowType] /\ ~work.open
      /\ cached \in [home : Nat, option : Nat] /\ acked \in [Sqlite!Plain -> Nat] /\ writes \in Nat
      /\ loose \in LooseType /\ loose = Sqlite!NoneLoose /\ split \in BOOLEAN
      /\ \A t \in Sqlite!Plain : acked[t] = 0
  BY <1>1, ClosedIs, LooseIs DEF Sqlite!Init
<1>3. writer \in [Writers -> CallType] /\ \A w \in Writers : writer[w] = Sqlite!Resting
  BY RestIs DEF Sqlite!Init
<1>4. SqliteTypes
  BY <1>2, <1>3 DEF SqliteTypes
<1>5. \A w \in Writers : CallShape(w) /\ CallHolds(w) /\ CacheAhead(w)
  BY <1>3, RestIs DEF CallShape, CallHolds, CacheAhead, Sqlite!Owns
<1>6. \A w, x \in Writers : OneOwner(w, x) /\ Aware(w, x)
  BY <1>3, RestIs DEF OneOwner, Aware, Sqlite!Owns, Sqlite!Touches
<1>7. Sqlite!AckedIsStored /\ Sqlite!PositionsWhole /\ PeerKept
  BY <1>1, <1>2 DEF Sqlite!AckedIsStored, Sqlite!PositionsWhole, PeerKept, Sqlite!Init
<1> QED BY <1>2, <1>3, <1>4, <1>5, <1>6, <1>7 DEF SqliteInv, AckedFree

(* A call that goes on keeps what it stores *)
Advances(w) ==
    /\ writer' \in [Writers -> CallType]
    /\ \A x \in Writers \ {w} : writer'[x] = writer[x]
    /\ writer'[w].op = writer[w].op /\ writer'[w].value = writer[w].value
    /\ writer'[w].alone = writer[w].alone
    /\ writer[w].op # "none" /\ writer'[w].pc # "rest"
    /\ UNCHANGED <<cached, stage, acked, known, loose, split, writes>>
(* A call that ends, with the lock it may have *)
Leaves(w) ==
    /\ writer' = [writer EXCEPT ![w] = Sqlite!Resting]
    /\ holder' = IF holder = w THEN Sqlite!Nobody ELSE holder
    /\ UNCHANGED <<cached, stage, writes>>

LEMMA AdvanceKeeps ==
    ASSUME SqliteInv, NEW w \in Writers, Advances(w)
    PROVE  /\ \A x \in Writers, t \in Sqlite!Tables : Sqlite!Touches(x, t)' <=> Sqlite!Touches(x, t)
           /\ \A x \in Writers : CacheAhead(x)'
           /\ \A x, y \in Writers : Aware(x, y)'
           /\ stage' # "open" => \A x \in Writers : writer'[x] = Sqlite!Resting
           /\ AckedFree'
<1>1. \A x \in Writers : /\ writer'[x].op = writer[x].op /\ writer'[x].value = writer[x].value
                         /\ writer'[x].alone = writer[x].alone
  BY DEF Advances
<1>2. \A x \in Writers, t \in Sqlite!Tables : Sqlite!Touches(x, t)' <=> Sqlite!Touches(x, t)
  BY <1>1 DEF Sqlite!Touches
<1>3. \A x \in Writers : CacheAhead(x)'
  BY <1>1, CallIs DEF CacheAhead, Advances
<1>4. \A x, y \in Writers : Aware(x, y)'
  BY <1>1, <1>2 DEF Aware, SqliteInv
<1>5. stage = "open"
  BY RestIs DEF SqliteInv, Advances
<1>6. AckedFree'
  BY <1>2 DEF AckedFree, SqliteInv, Advances, Sqlite!Tables
<1> QED BY <1>2, <1>3, <1>4, <1>5, <1>6 DEF Advances

LEMMA LeaveKeeps ==
    ASSUME SqliteInv, NEW w \in Writers, Leaves(w)
    PROVE  /\ writer' \in [Writers -> CallType]
           /\ writer'[w] = Sqlite!Resting /\ \A x \in Writers \ {w} : writer'[x] = writer[x]
           /\ \A x \in Writers, t \in Sqlite!Tables :
                Sqlite!Touches(x, t)' <=> Sqlite!Touches(x, t) /\ x # w
           /\ \A x \in Writers : Sqlite!Owns(x)' <=> Sqlite!Owns(x) /\ x # w
           /\ \A x \in Writers : CallShape(x)' /\ CacheAhead(x)'
           /\ \A x, y \in Writers : OneOwner(x, y)' /\ Aware(x, y)'
           /\ stage' # "open" => \A x \in Writers : writer'[x] = Sqlite!Resting
<1>1. /\ writer' \in [Writers -> CallType]
      /\ writer'[w] = Sqlite!Resting /\ \A x \in Writers \ {w} : writer'[x] = writer[x]
  BY RestIs DEF SqliteInv, SqliteTypes, Leaves
<1>2. \A x \in Writers, t \in Sqlite!Tables : Sqlite!Touches(x, t)' <=> Sqlite!Touches(x, t) /\ x # w
  BY <1>1, RestIs DEF Sqlite!Touches
<1>3. \A x \in Writers : Sqlite!Owns(x)' <=> Sqlite!Owns(x) /\ x # w
  BY <1>1, RestIs DEF Sqlite!Owns
<1>4. ASSUME NEW x \in Writers PROVE CallShape(x)' /\ CacheAhead(x)'
  <2>1. CASE x = w
    BY <1>1, <2>1, RestIs DEF CallShape, CacheAhead
  <2>2. CASE x # w
    <3>1. writer'[x] = writer[x] /\ cached' = cached /\ (holder = x => holder' = x)
      BY <1>1, <2>2 DEF Leaves
    <3> QED BY <3>1, CallIs DEF CallShape, CacheAhead
  <2> QED BY <2>1, <2>2
<1>5. \A x, y \in Writers : OneOwner(x, y)' /\ Aware(x, y)'
  BY <1>1, <1>2, <1>3 DEF OneOwner, Aware, SqliteInv
<1>6. stage' # "open" => \A x \in Writers : writer'[x] = Sqlite!Resting
  BY <1>1 DEF SqliteInv, Leaves
<1> QED BY <1>1, <1>2, <1>3, <1>4, <1>5, <1>6

LEMMA SqliteOpens ==
    ASSUME SqliteInv, Sqlite!Open \/ Sqlite!SetVersion
    PROVE  SqliteInv'
<1>1. /\ stage # "open" /\ UNCHANGED <<work, holder, writer, acked, known, loose, split, writes>>
      /\ \/ stage' # "open" /\ cached' = cached
         \/ cached' = [home |-> disk.rows.home, option |-> disk.rows.option]
      /\ disk' = disk \/ disk' = [disk EXCEPT !.made = TRUE] \/ disk' = [disk EXCEPT !.version = 1]
  BY DEF Sqlite!Open, Sqlite!SetVersion, Sqlite!Load
<1>2. disk \in [version : Nat, made : BOOLEAN, rows : RowType] /\ disk.rows \in RowType
  BY DEF SqliteInv, SqliteTypes
<1>3. disk' \in [version : Nat, made : BOOLEAN, rows : RowType] /\ disk'.rows = disk.rows
  <2>1. CASE disk' = disk BY <1>2, <2>1
  <2>2. CASE disk' = [disk EXCEPT !.made = TRUE] BY <1>2, <2>2
  <2>3. CASE disk' = [disk EXCEPT !.version = 1] BY <1>2, <2>3
  <2> QED BY <1>1, <2>1, <2>2, <2>3
<1>4. cached' \in [home : Nat, option : Nat]
  BY <1>1, <1>2 DEF RowType, SqliteInv, SqliteTypes
<1>5. SqliteTypes'
  BY <1>1, <1>3, <1>4 DEF SqliteInv, SqliteTypes
<1>6. \A w \in Writers : writer'[w] = writer[w] /\ writer[w] = Sqlite!Resting /\ writer[w].op = "none"
  BY <1>1, RestIs DEF SqliteInv
<1>7. Sqlite!Rows' = Sqlite!Rows
  BY <1>1, <1>3 DEF Sqlite!Rows
<1>8. \A w \in Writers : CallShape(w)' /\ CallHolds(w)' /\ CacheAhead(w)'
  BY <1>6, RestIs DEF CallShape, CallHolds, CacheAhead, Sqlite!Owns, Sqlite!Transacts
<1>9. \A w, x \in Writers : OneOwner(w, x)' /\ Aware(w, x)'
  BY <1>6, RestIs DEF OneOwner, Aware, Sqlite!Owns, Sqlite!Touches
<1>10. AckedFree' /\ (stage' # "open" => \A w \in Writers : writer'[w] = Sqlite!Resting)
  BY <1>6 DEF AckedFree, Sqlite!Touches
<1>11. ~work.open /\ ~work'.open /\ loose' = Sqlite!NoneLoose /\ loose = Sqlite!NoneLoose
  BY <1>1, <1>6, RestIs DEF SqliteInv, Transaction, Sqlite!Owns
<1>12. Sqlite!AckedIsStored'
  <2> SUFFICES ASSUME NEW t \in Sqlite!Plain, acked[t] # 0
               PROVE  /\ disk.rows[t] = acked[t]
                      /\ stage' = "open" /\ t \in {"home", "option"} => cached'[t] = acked[t]
    BY <1>1, <1>3, <1>11, LooseIs DEF Sqlite!AckedIsStored
  <2>1. disk.rows[t] = acked[t]
    BY <1>11, LooseIs DEF SqliteInv, Sqlite!AckedIsStored
  <2>2. ASSUME stage' = "open", t \in {"home", "option"} PROVE cached'[t] = disk.rows[t]
    <3>1. cached' = [home |-> disk.rows.home, option |-> disk.rows.option]
      BY <1>1, <2>2
    <3> QED BY <2>2, <3>1
  <2> QED BY <2>1, <2>2
<1>13. Sqlite!PositionsWhole' /\ PeerKept'
  BY <1>1, <1>3 DEF SqliteInv, Sqlite!PositionsWhole, PeerKept
<1> QED BY <1>1, <1>5, <1>8, <1>9, <1>10, <1>11, <1>12, <1>13 DEF SqliteInv

LEMMA SqliteCrash == ASSUME SqliteInv, Sqlite!Crash PROVE SqliteInv'
<1>1. /\ stage' = "closed" /\ work' = Sqlite!Closed /\ writer' = [w \in Writers |-> Sqlite!Resting]
      /\ cached' = [home |-> 0, option |-> 0] /\ UNCHANGED <<disk, known, split, writes>>
      /\ loose' = Sqlite!NoneLoose
      /\ acked' = [t \in Sqlite!Plain |-> IF t \in loose.tables THEN 0 ELSE acked[t]]
  BY DEF Sqlite!Crash, Sqlite!RollBack
<1>2. writer' \in [Writers -> CallType] /\ \A w \in Writers : writer'[w] = Sqlite!Resting
  BY <1>1, RestIs
<1>3. work' \in [open : BOOLEAN, rows : RowType] /\ ~work'.open
  BY <1>1, ClosedIs
<1>4. cached' \in [home : Nat, option : Nat] /\ acked' \in [Sqlite!Plain -> Nat]
  BY <1>1 DEF SqliteInv, SqliteTypes
<1>5. SqliteTypes'
  BY <1>1, <1>2, <1>3, <1>4, LooseIs DEF SqliteInv, SqliteTypes
<1>6. \A w \in Writers : CallShape(w)' /\ CallHolds(w)' /\ CacheAhead(w)'
  BY <1>2, RestIs DEF CallShape, CallHolds, CacheAhead, Sqlite!Owns
<1>7. \A w, x \in Writers : OneOwner(w, x)' /\ Aware(w, x)'
  BY <1>2, RestIs DEF OneOwner, Aware, Sqlite!Owns, Sqlite!Touches
<1>8. AckedFree'
  BY <1>2, RestIs DEF AckedFree, Sqlite!Touches
<1>9. Sqlite!AckedIsStored' /\ Sqlite!PositionsWhole' /\ PeerKept'
  BY <1>1, LooseIs DEF SqliteInv, Sqlite!AckedIsStored, Sqlite!PositionsWhole, PeerKept
<1> QED BY <1>1, <1>2, <1>3, <1>5, <1>6, <1>7, <1>8, <1>9 DEF SqliteInv

LEMMA SqliteCall ==
    ASSUME SqliteInv, NEW w \in Writers, NEW op \in Sqlite!Ops, Sqlite!Call(w, op)
    PROVE  SqliteInv'
<1> DEFINE overlapping == {x \in Writers : \E t \in Sqlite!Written(op) : Sqlite!Touches(x, t)}
<1> DEFINE New(facts) == [op |-> op, pc |-> "wait", value |-> writes', facts |-> facts,
                          alone |-> overlapping = {}, row |-> "ok"]
<1>1. PICK facts \in IF "peer" \in Sqlite!Written(op) THEN {{f} : f \in Facts} ELSE {{}} :
        /\ stage = "open" /\ writer[w] = Sqlite!Resting /\ writes' = writes + 1
        /\ writer' = [x \in Writers |-> IF x = w THEN New(facts)
                                        ELSE [writer[x] EXCEPT !.alone = @ /\ x \notin overlapping]]
        /\ cached' = IF op \in {"home", "option"} THEN [cached EXCEPT ![op] = writes'] ELSE cached
        /\ acked' = [t \in Sqlite!Plain |-> IF t \in Sqlite!Written(op) THEN 0 ELSE acked[t]]
        /\ UNCHANGED <<disk, work, holder, stage, known, loose, split>>
  BY DEF Sqlite!Call
<1>2. writes' \in Nat
  BY <1>1 DEF SqliteInv, SqliteTypes
<1>3. writer'[w] = New(facts) /\ New(facts) \in CallType
  <2>1. facts \in SUBSET Facts
    BY <1>1
  <2>2. (overlapping = {}) \in BOOLEAN
    OBVIOUS
  <2> HIDE DEF overlapping
  <2> QED BY <1>1, <1>2, <2>1, <2>2 DEF CallType
<1>4. /\ writer'[w].op = op /\ writer'[w].pc = "wait" /\ writer'[w].value = writes'
      /\ writer'[w].alone = (overlapping = {}) /\ writer'[w].facts = facts /\ writer'[w].row = "ok"
  <2> HIDE DEF overlapping
  <2> QED BY <1>3
<1>5. ASSUME NEW x \in Writers \ {w}
      PROVE  /\ writer'[x] \in CallType
             /\ writer'[x].op = writer[x].op /\ writer'[x].pc = writer[x].pc
             /\ writer'[x].value = writer[x].value /\ writer'[x].facts = writer[x].facts
             /\ writer'[x].row = writer[x].row
             /\ writer'[x].alone <=> writer[x].alone /\ x \notin overlapping
             /\ writer[x] = Sqlite!Resting => writer'[x] = Sqlite!Resting
  <2>1. writer'[x] = [writer[x] EXCEPT !.alone = writer[x].alone /\ x \notin overlapping]
    BY <1>1
  <2>2. writer[x] \in CallType
    BY CallIs
  <2>3. /\ writer'[x] \in CallType
        /\ writer'[x].op = writer[x].op /\ writer'[x].pc = writer[x].pc
        /\ writer'[x].value = writer[x].value /\ writer'[x].facts = writer[x].facts
        /\ writer'[x].row = writer[x].row
        /\ writer'[x].alone = (writer[x].alone /\ x \notin overlapping)
    BY <2>1, <2>2 DEF CallType
  <2>4. ASSUME writer[x] = Sqlite!Resting PROVE writer'[x] = Sqlite!Resting
    <3>1. ~Sqlite!Touches(x, "home") /\ x \notin overlapping
      BY <2>4, RestIs DEF Sqlite!Touches
    <3>2. writer'[x] = [Sqlite!Resting EXCEPT !.alone = TRUE]
      BY <2>1, <2>4, <3>1, RestIs
    <3> QED BY <3>2 DEF Sqlite!Resting
  <2> QED BY <2>3, <2>4
<1>6. writer' \in [Writers -> CallType]
  <2>1. \A x \in Writers : writer'[x] \in CallType
    BY <1>3, <1>5
  <2> QED BY <1>1, <2>1
<1>7. cached \in [home : Nat, option : Nat] /\ cached' \in [home : Nat, option : Nat]
  <2>1. cached \in [home : Nat, option : Nat]
    BY DEF SqliteInv, SqliteTypes
  <2>2. CASE op = "home" BY <1>1, <1>2, <2>1, <2>2
  <2>3. CASE op = "option" BY <1>1, <1>2, <2>1, <2>3
  <2> QED BY <1>1, <2>1, <2>2, <2>3
<1>8. /\ op \in {"home", "option"} => cached'[op] = writes'
      /\ \A t \in {"home", "option"} : t # op => cached'[t] = cached[t]
  BY <1>1, <1>7
<1>9. acked' \in [Sqlite!Plain -> Nat]
  BY <1>1 DEF SqliteInv, SqliteTypes
<1>10. SqliteTypes'
  BY <1>1, <1>2, <1>6, <1>7, <1>9 DEF SqliteInv, SqliteTypes
<1>11. op \in {"home", "option", "positions", "account", "channel", "peer", "peers"} /\ op # "none"
  BY DEF Sqlite!Ops
<1>12. /\ \A t \in Sqlite!Tables : Sqlite!Touches(w, t)' <=> t \in Sqlite!Written(op)
       /\ \A t \in Sqlite!Tables : ~Sqlite!Touches(w, t)
       /\ \A x \in Writers \ {w}, t \in Sqlite!Tables : Sqlite!Touches(x, t)' <=> Sqlite!Touches(x, t)
  BY <1>1, <1>4, <1>5, <1>11, RestIs DEF Sqlite!Touches
<1>13. /\ ~Sqlite!Owns(w)' /\ ~Sqlite!Owns(w)
       /\ \A x \in Writers \ {w} : Sqlite!Owns(x)' <=> Sqlite!Owns(x)
  BY <1>1, <1>4, <1>5, RestIs DEF Sqlite!Owns
<1>14. Sqlite!Rows' = Sqlite!Rows
  BY <1>1 DEF Sqlite!Rows
<1>15. ASSUME NEW x \in Writers PROVE CallShape(x)' /\ CallHolds(x)'
  <2>1. CASE x = w
    <3>1. op \notin {"peer", "peers"} => facts = {}
      BY <1>1, <1>11, WrittenIs
    <3> QED BY <1>4, <1>11, <1>13, <2>1, <3>1 DEF CallShape, CallHolds
  <2>2. CASE x # w
    <3>1. x \in Writers \ {w}
      BY <2>2
    <3>2. CallShape(x)'
      <4>1. /\ writer'[x].op = writer[x].op /\ writer'[x].pc = writer[x].pc
            /\ writer'[x].facts = writer[x].facts /\ writer'[x].row = writer[x].row
            /\ writer[x] = Sqlite!Resting => writer'[x] = Sqlite!Resting
        BY <1>5, <3>1
      <4>2. holder' = holder /\ CallShape(x)
        BY <1>1, CallIs
      <4> QED BY <4>1, <4>2 DEF CallShape
    <3>3. /\ writer'[x].op = writer[x].op /\ writer'[x].pc = writer[x].pc
          /\ writer'[x].value = writer[x].value /\ writer'[x].facts = writer[x].facts
          /\ writer'[x].row = writer[x].row
          /\ Sqlite!Owns(x)' <=> Sqlite!Owns(x)
          /\ work' = work /\ disk' = disk /\ CallHolds(x)
      BY <1>1, <1>5, <1>13, <3>1, CallIs
    <3>4. CallHolds(x)'
      BY <1>14, <3>3 DEF CallHolds
    <3> QED BY <3>2, <3>4
  <2> QED BY <2>1, <2>2
<1>16. ASSUME NEW x \in Writers PROVE CacheAhead(x)'
  <2>1. CASE x = w
    BY <1>4, <1>8, <2>1 DEF CacheAhead
  <2>2. CASE x # w
    <3> SUFFICES ASSUME writer[x].alone, x \notin overlapping, writer[x].op \in {"home", "option"}
                 PROVE  cached'[writer[x].op] = writer[x].value
      BY <1>5, <2>2 DEF CacheAhead
    <3>1. writer[x].op # op
      BY <1>11, WrittenIs DEF Sqlite!Touches
    <3>2. cached[writer[x].op] = writer[x].value
      BY CallIs DEF CacheAhead
    <3> QED BY <1>8, <3>1, <3>2
  <2> QED BY <2>1, <2>2
<1>17. \A x, y \in Writers : OneOwner(x, y)'
  BY <1>13 DEF SqliteInv, OneOwner
<1>18. ASSUME NEW x \in Writers, NEW y \in Writers PROVE Aware(x, y)'
  <2> SUFFICES ASSUME x # y, NEW t \in Sqlite!Tables, Sqlite!Touches(x, t)', Sqlite!Touches(y, t)'
               PROVE  ~writer'[x].alone
    BY DEF Aware
  <2>1. CASE x = w
    <3>1. t \in Sqlite!Written(op) /\ Sqlite!Touches(y, t)
      BY <1>12, <2>1
    <3>2. y \in overlapping
      BY <3>1
    <3> QED BY <1>4, <2>1, <3>2
  <2>2. CASE y = w
    <3>1. t \in Sqlite!Written(op) /\ Sqlite!Touches(x, t)
      BY <1>12, <2>2
    <3>2. x \in overlapping
      BY <3>1
    <3> QED BY <1>5, <2>2, <3>2
  <2>3. CASE x # w /\ y # w
    <3>1. Sqlite!Touches(x, t) /\ Sqlite!Touches(y, t)
      BY <1>12, <2>3
    <3>2. ~writer[x].alone
      BY <3>1 DEF SqliteInv, Aware
    <3> QED BY <1>5, <2>3, <3>2
  <2> QED BY <2>1, <2>2, <2>3
<1>19. AckedFree'
  <2> SUFFICES ASSUME NEW t \in Sqlite!Plain, NEW x \in Writers, acked'[t] # 0, Sqlite!Touches(x, t)'
               PROVE  FALSE
    BY DEF AckedFree
  <2>1. acked[t] # 0 /\ t \notin Sqlite!Written(op) /\ t \in Sqlite!Tables
    BY <1>1 DEF Sqlite!Tables
  <2> QED BY <1>12, <2>1 DEF SqliteInv, AckedFree
<1>20. IF work'.open THEN \E o \in Writers : Transaction(o)' ELSE loose' = Sqlite!NoneLoose
  <2> SUFFICES ASSUME work.open PROVE \E o \in Writers : Transaction(o)'
    BY <1>1 DEF SqliteInv
  <2>1. PICK o \in Writers : Transaction(o)
    BY DEF SqliteInv
  <2>2. o # w
    BY <1>13, <2>1 DEF Transaction
  <2>3. Transaction(o)'
    BY <1>1, <1>5, <1>12, <1>13, <2>1, <2>2 DEF Transaction, Sqlite!Tables
  <2> QED BY <2>3
<1>21. Sqlite!AckedIsStored'
  <2> SUFFICES ASSUME NEW t \in Sqlite!Plain, acked'[t] # 0
               PROVE  /\ IF t \in loose.tables THEN work.open /\ work.rows[t] = acked'[t]
                         ELSE disk.rows[t] = acked'[t]
                      /\ stage = "open" /\ t \in {"home", "option"} => cached'[t] = acked'[t]
    BY <1>1 DEF Sqlite!AckedIsStored
  <2>1. t \notin Sqlite!Written(op) /\ acked'[t] = acked[t]
    BY <1>1
  <2>2. t # op
    BY <1>11, <2>1, WrittenIs DEF Sqlite!Plain
  <2> QED BY <1>8, <2>1, <2>2 DEF SqliteInv, Sqlite!AckedIsStored
<1>22. Sqlite!PositionsWhole' /\ PeerKept'
  BY <1>1 DEF SqliteInv, Sqlite!PositionsWhole, PeerKept
<1> QED
  BY <1>1, <1>10, <1>15, <1>16, <1>17, <1>18, <1>19, <1>20, <1>21, <1>22 DEF SqliteInv

LEMMA SqliteLock ==
    ASSUME SqliteInv, NEW w \in Writers, Sqlite!Lock(w)
    PROVE  SqliteInv'
<1>1. /\ writer[w].pc = "wait" /\ holder = Sqlite!Nobody /\ holder' = w
      /\ UNCHANGED <<disk, work, cached, stage, acked, known, loose, split, writes>>
  BY DEF Sqlite!Lock
<1>2. PICK pc \in {"begin", "read", "write"} :
        /\ writer' = [writer EXCEPT ![w].pc = pc]
        /\ pc = "begin" <=> Sqlite!Transacts(writer[w].op)
        /\ pc = "read" <=> writer[w].op = "peer"
  BY DEF Sqlite!Lock, Sqlite!Transacts
<1>3. writer'[w] = [writer[w] EXCEPT !.pc = pc] /\ \A x \in Writers \ {w} : writer'[x] = writer[x]
  BY <1>2 DEF SqliteInv, SqliteTypes
<1>4. /\ writer'[w] \in CallType /\ writer'[w].pc = pc /\ writer'[w].op = writer[w].op
      /\ writer'[w].value = writer[w].value /\ writer'[w].alone = writer[w].alone
      /\ writer'[w].facts = writer[w].facts /\ writer'[w].row = writer[w].row
  BY <1>3, CallIs DEF CallType
<1>5. writer' \in [Writers -> CallType]
  BY <1>2, <1>3, <1>4 DEF SqliteInv, SqliteTypes
<1>6. writer[w].op # "none"
  BY <1>1, CallIs DEF CallShape
<1>7. Advances(w)
  BY <1>1, <1>3, <1>4, <1>5, <1>6 DEF Advances
<1>8. SqliteTypes'
  BY <1>1, <1>5 DEF SqliteInv, SqliteTypes
<1>9. ~Sqlite!Owns(w)' /\ ~Sqlite!Owns(w) /\ \A x \in Writers \ {w} : Sqlite!Owns(x)' <=> Sqlite!Owns(x)
  BY <1>1, <1>2, <1>3, <1>4 DEF Sqlite!Owns
<1>10. Sqlite!Rows' = Sqlite!Rows
  BY <1>1 DEF Sqlite!Rows
<1>11. ASSUME NEW x \in Writers PROVE CallShape(x)' /\ CallHolds(x)'
  <2>1. CASE x = w
    <3>1. CallShape(w)'
      BY <1>1, <1>2, <1>4, <1>6, CallIs DEF CallShape
    <3>2. CallHolds(w)'
      BY <1>2, <1>4, <1>9 DEF CallHolds, Sqlite!Transacts
    <3> QED BY <2>1, <3>1, <3>2
  <2>2. CASE x # w
    <3>1. writer'[x] = writer[x] /\ holder # x /\ CallShape(x) /\ CallHolds(x)
      BY <1>1, <1>3, <2>2, CallIs, WritersAssumption
    <3>2. (Sqlite!Owns(x)' <=> Sqlite!Owns(x)) /\ work' = work /\ disk' = disk
      BY <1>1, <1>9, <2>2
    <3> QED BY <1>10, <3>1, <3>2 DEF CallShape, CallHolds
  <2> QED BY <2>1, <2>2
<1>12. \A x, y \in Writers : OneOwner(x, y)'
  BY <1>9 DEF SqliteInv, OneOwner
<1>13. IF work'.open THEN \E o \in Writers : Transaction(o)' ELSE loose' = Sqlite!NoneLoose
  <2> SUFFICES ASSUME work.open PROVE \E o \in Writers : Transaction(o)'
    BY <1>1 DEF SqliteInv
  <2>1. PICK o \in Writers : Transaction(o)
    BY DEF SqliteInv
  <2>2. o # w
    BY <1>9, <2>1 DEF Transaction
  <2>3. Transaction(o)'
    BY <1>1, <1>3, <1>7, <1>9, <2>1, <2>2, AdvanceKeeps DEF Transaction, Sqlite!Tables
  <2> QED BY <2>3
<1>14. Sqlite!AckedIsStored' /\ Sqlite!PositionsWhole' /\ PeerKept'
  BY <1>1 DEF SqliteInv, Sqlite!AckedIsStored, Sqlite!PositionsWhole, PeerKept
<1> QED BY <1>7, <1>8, <1>11, <1>12, <1>13, <1>14, AdvanceKeeps DEF SqliteInv

(* The row is read, or the call goes on without it *)
RowRead(w) ==
    /\ writer[w].pc = "read" /\ writer' \in [Writers -> CallType]
    /\ \A x \in Writers \ {w} : writer'[x] = writer[x]
    /\ writer'[w].pc = "write" /\ writer'[w].op = writer[w].op
    /\ writer'[w].value = writer[w].value /\ writer'[w].alone = writer[w].alone
    /\ \/ writer'[w].row = writer[w].row /\ Sqlite!Rows.peer \ Unreadable \subseteq writer'[w].facts
       \/ writer'[w].row = "unread" /\ writer[w].op = "peers"
    /\ UNCHANGED <<disk, work, holder, cached, stage, acked, known, loose, split, writes>>
LEMMA SqliteRowRead ==
    ASSUME SqliteInv, NEW w \in Writers, RowRead(w)
    PROVE  SqliteInv'
<1>1. writer[w].pc = "read" /\ UNCHANGED <<disk, work, holder, cached, stage, acked, known, loose, split, writes>>
  BY DEF RowRead
<1>2. writer' \in [Writers -> CallType] /\ \A x \in Writers \ {w} : writer'[x] = writer[x]
  BY DEF RowRead
<1>3. /\ writer'[w].pc = "write" /\ writer'[w].op = writer[w].op
      /\ writer'[w].value = writer[w].value /\ writer'[w].alone = writer[w].alone
      /\ \/ writer'[w].row = writer[w].row /\ Sqlite!Rows.peer \ Unreadable \subseteq writer'[w].facts
         \/ writer'[w].row = "unread" /\ writer[w].op = "peers"
  BY DEF RowRead
<1>4. writer[w].op \in {"peer", "peers"} /\ holder = w
  BY <1>1, CallIs DEF CallShape
<1>5. Advances(w)
  BY <1>1, <1>2, <1>3, <1>4 DEF Advances
<1>6. SqliteTypes'
  BY <1>1, <1>2 DEF SqliteInv, SqliteTypes
<1>7. \A x \in Writers : Sqlite!Owns(x)' <=> Sqlite!Owns(x)
  BY <1>1, <1>2, <1>3 DEF Sqlite!Owns
<1>8. Sqlite!Rows' = Sqlite!Rows
  BY <1>1 DEF Sqlite!Rows
<1>9. ASSUME NEW x \in Writers PROVE CallShape(x)' /\ CallHolds(x)'
  <2>1. CASE x = w
    <3>1. CallShape(w)'
      BY <1>1, <1>3, <1>4, CallIs DEF CallShape
    <3>2. CallHolds(w)'
      BY <1>1, <1>3, <1>7, <1>8, CallIs DEF CallHolds
    <3> QED BY <2>1, <3>1, <3>2
  <2>2. CASE x # w
    <3>1. writer'[x] = writer[x] /\ holder' = holder /\ work' = work /\ disk' = disk /\ CallShape(x) /\ CallHolds(x)
      BY <1>1, <1>2, <2>2, CallIs
    <3> QED BY <1>7, <1>8, <3>1 DEF CallShape, CallHolds
  <2> QED BY <2>1, <2>2
<1>10. \A x, y \in Writers : OneOwner(x, y)'
  BY <1>7 DEF SqliteInv, OneOwner
<1>11. IF work'.open THEN \E o \in Writers : Transaction(o)' ELSE loose' = Sqlite!NoneLoose
  <2> SUFFICES ASSUME work.open PROVE \E o \in Writers : Transaction(o)'
    BY <1>1 DEF SqliteInv
  <2>1. PICK o \in Writers : Transaction(o)
    BY DEF SqliteInv
  <2>2. writer'[o].op = writer[o].op /\ (writer'[o].row = writer[o].row \/ writer'[o].row = "unread")
    BY <1>2, <1>3
  <2>3. Transaction(o)'
    BY <1>1, <1>5, <1>7, <2>1, <2>2, AdvanceKeeps DEF Transaction, Sqlite!Tables
  <2> QED BY <2>3
<1>12. Sqlite!AckedIsStored' /\ Sqlite!PositionsWhole' /\ PeerKept'
  BY <1>1 DEF SqliteInv, Sqlite!AckedIsStored, Sqlite!PositionsWhole, PeerKept
<1> QED BY <1>5, <1>6, <1>9, <1>10, <1>11, <1>12, AdvanceKeeps DEF SqliteInv

LEMMA SqliteRead ==
    ASSUME SqliteInv, NEW w \in Writers, Sqlite!Read(w)
    PROVE  SqliteInv'
<1>1. /\ writer[w].pc = "read"
      /\ UNCHANGED <<disk, work, holder, cached, stage, acked, known, loose, split, writes>>
  BY DEF Sqlite!Read
<1>2. PICK facts : facts = writer[w].facts \cup (Sqlite!Rows.peer \ Unreadable)
  OBVIOUS
<1>3. writer' = [writer EXCEPT ![w].pc = "write", ![w].facts = facts]
  BY <1>2 DEF Sqlite!Read, Sqlite!Readable
<1>4. facts \subseteq Facts
  BY <1>2, CallIs DEF SqliteInv, SqliteTypes, Sqlite!Rows, RowType
<1>5. /\ writer'[w] = [writer[w] EXCEPT !.pc = "write", !.facts = facts]
      /\ \A x \in Writers \ {w} : writer'[x] = writer[x]
  BY <1>3 DEF SqliteInv, SqliteTypes
<1>6. /\ writer'[w] \in CallType /\ writer'[w].pc = "write" /\ writer'[w].op = writer[w].op
      /\ writer'[w].value = writer[w].value /\ writer'[w].alone = writer[w].alone
      /\ writer'[w].facts = facts /\ writer'[w].row = writer[w].row
  BY <1>4, <1>5, CallIs DEF CallType
<1>7. writer' \in [Writers -> CallType]
  BY <1>3, <1>5, <1>6 DEF SqliteInv, SqliteTypes
<1>8. RowRead(w)
  BY <1>1, <1>2, <1>5, <1>6, <1>7 DEF RowRead
<1> QED BY <1>8, SqliteRowRead

LEMMA SqliteRowUnread ==
    ASSUME SqliteInv, NEW w \in Writers, Sqlite!RowUnread(w)
    PROVE  SqliteInv'
<1>1. /\ writer[w].pc = "read" /\ writer[w].op = "peers"
      /\ writer' = [writer EXCEPT ![w].pc = "write", ![w].row = "unread"]
      /\ UNCHANGED <<disk, work, holder, cached, stage, acked, known, loose, split, writes>>
  BY DEF Sqlite!RowUnread
<1>2. /\ writer'[w] = [writer[w] EXCEPT !.pc = "write", !.row = "unread"]
      /\ \A x \in Writers \ {w} : writer'[x] = writer[x]
  BY <1>1 DEF SqliteInv, SqliteTypes
<1>3. /\ writer'[w] \in CallType /\ writer'[w].pc = "write" /\ writer'[w].op = writer[w].op
      /\ writer'[w].value = writer[w].value /\ writer'[w].alone = writer[w].alone
      /\ writer'[w].row = "unread"
  BY <1>2, CallIs DEF CallType
<1>4. writer' \in [Writers -> CallType]
  BY <1>1, <1>2, <1>3 DEF SqliteInv, SqliteTypes
<1>5. RowRead(w)
  BY <1>1, <1>2, <1>3, <1>4 DEF RowRead
<1> QED BY <1>5, SqliteRowRead

LEMMA SqliteRowUnwritten ==
    ASSUME SqliteInv, NEW w \in Writers, Sqlite!RowUnwritten(w)
    PROVE  SqliteInv'
<1>1. /\ writer[w].pc = "write" /\ writer[w].op = "peers"
      /\ writer' = [writer EXCEPT ![w].pc = "commit", ![w].row = "unwritten"]
      /\ UNCHANGED <<disk, work, holder, cached, stage, acked, known, loose, split, writes>>
  BY DEF Sqlite!RowUnwritten
<1>2. /\ writer'[w] = [writer[w] EXCEPT !.pc = "commit", !.row = "unwritten"]
      /\ \A x \in Writers \ {w} : writer'[x] = writer[x]
  BY <1>1 DEF SqliteInv, SqliteTypes
<1>3. /\ writer'[w] \in CallType /\ writer'[w].pc = "commit" /\ writer'[w].op = writer[w].op
      /\ writer'[w].value = writer[w].value /\ writer'[w].alone = writer[w].alone
      /\ writer'[w].facts = writer[w].facts /\ writer'[w].row = "unwritten"
  BY <1>2, CallIs DEF CallType
<1>4. writer' \in [Writers -> CallType]
  BY <1>1, <1>2, <1>3 DEF SqliteInv, SqliteTypes
<1>5. Sqlite!Owns(w) /\ holder = w /\ Sqlite!Transacts(writer[w].op)
  BY <1>1, CallIs DEF CallShape, Sqlite!Owns, Sqlite!Transacts
<1>6. Advances(w)
  BY <1>1, <1>2, <1>3, <1>4 DEF Advances
<1>7. SqliteTypes'
  BY <1>1, <1>4 DEF SqliteInv, SqliteTypes
<1>8. \A x \in Writers : Sqlite!Owns(x)' <=> Sqlite!Owns(x)
  BY <1>1, <1>2, <1>3 DEF Sqlite!Owns
<1>9. Sqlite!Rows' = Sqlite!Rows
  BY <1>1 DEF Sqlite!Rows
<1>10. ASSUME NEW x \in Writers PROVE CallShape(x)' /\ CallHolds(x)'
  <2>1. CASE x = w
    <3>1. CallShape(w)'
      BY <1>1, <1>3, <1>5, CallIs DEF CallShape
    <3>2. CallHolds(w)'
      BY <1>1, <1>3, <1>8, CallIs DEF CallHolds
    <3> QED BY <2>1, <3>1, <3>2
  <2>2. CASE x # w
    <3>1. writer'[x] = writer[x] /\ holder' = holder /\ work' = work /\ disk' = disk /\ CallShape(x) /\ CallHolds(x)
      BY <1>1, <1>2, <2>2, CallIs
    <3> QED BY <1>8, <1>9, <3>1 DEF CallShape, CallHolds
  <2> QED BY <2>1, <2>2
<1>11. \A x, y \in Writers : OneOwner(x, y)'
  BY <1>8 DEF SqliteInv, OneOwner
<1>12. work'.open /\ Transaction(w)'
  <2>1. work.open /\ work.rows.peer = disk.rows.peer
    BY <1>1, <1>5, CallIs DEF CallHolds
  <2>2. PICK o \in Writers : Transaction(o)
    BY <2>1 DEF SqliteInv
  <2>3. o = w
    BY <1>5, <2>2 DEF SqliteInv, OneOwner, Transaction
  <2> QED BY <1>1, <1>3, <1>6, <1>8, <2>1, <2>2, <2>3, AdvanceKeeps DEF Transaction, Sqlite!Tables
<1>13. Sqlite!AckedIsStored' /\ Sqlite!PositionsWhole' /\ PeerKept'
  BY <1>1 DEF SqliteInv, Sqlite!AckedIsStored, Sqlite!PositionsWhole, PeerKept
<1> QED BY <1>6, <1>7, <1>10, <1>11, <1>12, <1>13, AdvanceKeeps DEF SqliteInv

(* A call that ends without an answer: its transaction is rolled back, to a file that
   knows no less about the peer than was read *)
LEMMA SqliteDropped ==
    ASSUME SqliteInv, NEW w \in Writers, Leaves(w), UNCHANGED <<disk, known, split>>,
           IF Sqlite!Owns(w) THEN Sqlite!RollBack ELSE UNCHANGED <<work, loose, acked>>
    PROVE  SqliteInv'
<1>0. \/ Sqlite!Owns(w) /\ work' = Sqlite!Closed /\ loose' = Sqlite!NoneLoose
         /\ acked' = [t \in Sqlite!Plain |-> IF t \in loose.tables THEN 0 ELSE acked[t]]
      \/ ~Sqlite!Owns(w) /\ UNCHANGED <<work, loose, acked>>
  BY DEF Sqlite!RollBack
<1>1. /\ writer' \in [Writers -> CallType]
      /\ writer'[w] = Sqlite!Resting /\ \A x \in Writers \ {w} : writer'[x] = writer[x]
      /\ \A x \in Writers, t \in Sqlite!Tables : Sqlite!Touches(x, t)' <=> Sqlite!Touches(x, t) /\ x # w
      /\ \A x \in Writers : Sqlite!Owns(x)' <=> Sqlite!Owns(x) /\ x # w
      /\ \A x \in Writers : CallShape(x)' /\ CacheAhead(x)'
      /\ \A x, y \in Writers : OneOwner(x, y)' /\ Aware(x, y)'
      /\ stage' # "open" => \A x \in Writers : writer'[x] = Sqlite!Resting
  BY LeaveKeeps
<1>2. /\ work' \in [open : BOOLEAN, rows : RowType] /\ loose' \in LooseType /\ acked' \in [Sqlite!Plain -> Nat]
      /\ \A t \in Sqlite!Plain : acked'[t] # 0 => acked'[t] = acked[t] /\ (Sqlite!Owns(w) => t \notin loose.tables)
  BY <1>0, ClosedIs, LooseIs DEF SqliteInv, SqliteTypes
<1>3. SqliteTypes'
  BY <1>1, <1>2 DEF SqliteInv, SqliteTypes, Leaves
<1>4. AckedFree'
  BY <1>1, <1>2 DEF SqliteInv, AckedFree, Sqlite!Tables
<1>5. ASSUME NEW x \in Writers PROVE CallHolds(x)'
  <2>1. CASE x = w
    BY <1>1, <2>1, RestIs DEF CallHolds
  <2>2. CASE x # w
    <3>1. writer'[x] = writer[x] /\ (Sqlite!Owns(x)' <=> Sqlite!Owns(x)) /\ CallHolds(x) /\ CallShape(x)
      BY <1>1, <2>2, CallIs
    <3>2. CASE ~Sqlite!Owns(w)
      <4>1. work' = work /\ Sqlite!Rows' = Sqlite!Rows
        BY <1>0, <3>2 DEF Sqlite!Rows
      <4> QED BY <3>1, <4>1 DEF CallHolds
    <3>3. CASE Sqlite!Owns(w)
      <4>1. ~Sqlite!Owns(x) /\ work.open /\ ~work'.open
        BY <1>0, <2>2, <3>3, ClosedIs, CallIs DEF SqliteInv, OneOwner, CallHolds
      <4>2. Transaction(w)
        BY <3>3, <4>1 DEF SqliteInv, OneOwner, Transaction
      <4>3. ASSUME writer[x].op \in {"peer", "peers"}, writer[x].pc = "write"
            PROVE  Sqlite!Rows'.peer \ Unreadable \subseteq Sqlite!Rows.peer
        <5>1. holder = x
          BY <3>1, <4>3 DEF CallShape
        <5>2. writer[w].op = "home" /\ writer[w].row = "ok"
          BY <2>2, <3>3, <5>1, CallIs DEF CallShape, Sqlite!Owns
        <5> QED BY <4>1, <4>2, <5>2 DEF Sqlite!Rows, Transaction
      <4>4. writer[x].pc \notin {"second", "commit"}
        BY <3>1, <4>1 DEF CallShape, Sqlite!Owns, Sqlite!Transacts
      <4>5. ~(writer[x].op = "peers" /\ writer[x].pc \in {"read", "write"})
        BY <4>1 DEF Sqlite!Owns, Sqlite!Transacts
      <4> QED BY <3>1, <4>1, <4>3, <4>4, <4>5 DEF CallHolds
    <3> QED BY <3>2, <3>3
  <2> QED BY <2>1, <2>2
<1>6. ASSUME work'.open PROVE \E o \in Writers : Transaction(o)'
  <2>1. ~Sqlite!Owns(w) /\ work' = work /\ loose' = loose
    BY <1>0, <1>6, ClosedIs
  <2>2. PICK o \in Writers : Transaction(o)
    BY <1>6, <2>1 DEF SqliteInv
  <2>3. o # w
    BY <2>1, <2>2 DEF Transaction
  <2>4. Transaction(o)'
    BY <1>1, <2>1, <2>2, <2>3 DEF Transaction, Sqlite!Tables
  <2> QED BY <2>4
<1>7. ~work'.open => loose' = Sqlite!NoneLoose
  BY <1>0 DEF SqliteInv
<1>8. Sqlite!AckedIsStored' /\ Sqlite!PositionsWhole' /\ PeerKept'
  <2>1. Sqlite!AckedIsStored'
    BY <1>0, <1>2, LooseIs DEF SqliteInv, Sqlite!AckedIsStored, Leaves
  <2> QED BY <2>1 DEF SqliteInv, Sqlite!PositionsWhole, PeerKept
<1> QED BY <1>1, <1>3, <1>4, <1>5, <1>6, <1>7, <1>8 DEF SqliteInv

LEMMA SqliteDrop ==
    ASSUME SqliteInv, NEW w \in Writers, Sqlite!Drop(w)
    PROVE  SqliteInv'
<1>1. Leaves(w) /\ UNCHANGED <<disk, known, split>>
  BY DEF Sqlite!Drop, Leaves
<1>2. IF Sqlite!Owns(w) THEN Sqlite!RollBack ELSE UNCHANGED <<work, loose, acked>>
  BY DEF Sqlite!Drop
<1> QED BY <1>1, <1>2, SqliteDropped

LEMMA SqliteBegin ==
    ASSUME SqliteInv, NEW w \in Writers, Sqlite!Begin(w)
    PROVE  SqliteInv'
<1>1. writer[w].pc = "begin" /\ UNCHANGED <<disk, cached, stage, acked, known, loose, split, writes>>
  BY DEF Sqlite!Begin
<1>2. holder = w /\ Sqlite!Transacts(writer[w].op) /\ ~Sqlite!Owns(w)
  BY <1>1, CallIs DEF CallShape, Sqlite!Owns
<1>3. CASE work.open
  <2>1. Leaves(w) /\ work' = work
    BY <1>1, <1>2, <1>3 DEF Sqlite!Begin, Leaves
  <2> QED BY <1>1, <1>2, <2>1, SqliteDropped
<1>4. CASE ~work.open
  <2>1. /\ work' = [open |-> TRUE, rows |-> disk.rows]
        /\ holder' = IF writer[w].op = "home" THEN Sqlite!Nobody ELSE w
    BY <1>4 DEF Sqlite!Begin
  <2>2. PICK pc \in {"read", "write"} :
          /\ writer' = [writer EXCEPT ![w].pc = pc]
          /\ pc = "read" <=> writer[w].op = "peers"
    BY <1>4 DEF Sqlite!Begin
  <2>3. disk.rows \in RowType
    BY DEF SqliteInv, SqliteTypes
  <2>4. work' \in [open : BOOLEAN, rows : RowType] /\ work'.open /\ work'.rows = disk.rows
    BY <2>1, <2>3
  <2>5. writer'[w] = [writer[w] EXCEPT !.pc = pc] /\ \A x \in Writers \ {w} : writer'[x] = writer[x]
    BY <2>2 DEF SqliteInv, SqliteTypes
  <2>6. /\ writer'[w] \in CallType /\ writer'[w].pc = pc /\ writer'[w].op = writer[w].op
        /\ writer'[w].value = writer[w].value /\ writer'[w].alone = writer[w].alone
        /\ writer'[w].facts = writer[w].facts /\ writer'[w].row = writer[w].row
    BY <2>5, CallIs DEF CallType
  <2>7. writer' \in [Writers -> CallType]
    BY <2>2, <2>5, <2>6 DEF SqliteInv, SqliteTypes
  <2>8. Advances(w)
    <3>1. writer[w].op # "none" /\ pc # "rest"
      BY <1>1, CallIs, RestIs DEF CallShape
    <3>2. writer'[w].pc # "rest"
      BY <2>6, <3>1
    <3> QED BY <1>1, <2>5, <2>6, <2>7, <3>1, <3>2 DEF Advances
  <2>9. SqliteTypes'
    BY <1>1, <2>4, <2>7 DEF SqliteInv, SqliteTypes
  <2>10. \A x \in Writers : ~Sqlite!Owns(x)
    BY <1>4, CallIs DEF CallHolds
  <2>11. Sqlite!Owns(w)' /\ \A x \in Writers \ {w} : ~Sqlite!Owns(x)'
    BY <1>2, <2>2, <2>5, <2>6, <2>10 DEF Sqlite!Owns
  <2>12. Sqlite!Rows' = Sqlite!Rows
    BY <1>4, <2>4 DEF Sqlite!Rows
  <2>13. ASSUME NEW x \in Writers PROVE CallShape(x)' /\ CallHolds(x)'
    <3>1. CASE x = w
      <4>1. CallShape(w)'
        BY <1>1, <1>2, <2>1, <2>2, <2>6, CallIs DEF CallShape, Sqlite!Transacts
      <4>2. CallHolds(w)'
        BY <1>1, <1>2, <2>2, <2>4, <2>6 DEF CallHolds, Sqlite!Transacts
      <4> QED BY <3>1, <4>1, <4>2
    <3>2. CASE x # w
      <4>1. writer'[x] = writer[x] /\ holder # x /\ CallShape(x) /\ CallHolds(x) /\ ~Sqlite!Owns(x)
        BY <1>2, <2>5, <2>10, <3>2, CallIs
      <4>2. CallShape(x)'
        BY <4>1 DEF CallShape
      <4>3. writer[x].pc \notin {"second", "commit"}
        BY <4>1 DEF CallShape, Sqlite!Owns, Sqlite!Transacts
      <4>4. ~(writer[x].op = "peers" /\ writer[x].pc \in {"read", "write"}) /\ ~Sqlite!Owns(x)'
        BY <2>11, <3>2, <4>1 DEF Sqlite!Owns, Sqlite!Transacts
      <4>5. CallHolds(x)'
        BY <2>12, <4>1, <4>3, <4>4 DEF CallHolds
      <4> QED BY <4>2, <4>5
    <3> QED BY <3>1, <3>2
  <2>14. \A x, y \in Writers : OneOwner(x, y)'
    BY <2>11 DEF OneOwner
  <2>15. loose = Sqlite!NoneLoose
    BY <1>4 DEF SqliteInv
  <2>16. Transaction(w)'
    BY <1>1, <2>4, <2>11, <2>15, LooseIs DEF Transaction
  <2>17. Sqlite!AckedIsStored' /\ Sqlite!PositionsWhole' /\ PeerKept'
    BY <1>1, <2>15, LooseIs DEF SqliteInv, Sqlite!AckedIsStored, Sqlite!PositionsWhole, PeerKept
  <2> QED BY <2>4, <2>8, <2>9, <2>13, <2>14, <2>16, <2>17, AdvanceKeeps DEF SqliteInv
<1> QED BY <1>3, <1>4

(* What an answer says is what the only call for a table stored, or an answer that has
   stood since *)
LEMMA AnswerKeeps ==
    ASSUME SqliteInv, NEW w \in Writers, writer[w].op # "none",
           Sqlite!Answered(w), UNCHANGED <<cached, stage, writes>>
    PROVE  /\ Leaves(w) /\ acked' \in [Sqlite!Plain -> Nat] /\ AckedFree'
           /\ \A t \in Sqlite!Plain : acked'[t] # 0 =>
                \/ /\ t \in Sqlite!Written(writer[w].op) /\ acked'[t] = writer[w].value
                   /\ t \in {"home", "option"} => cached[t] = writer[w].value
                \/ t \notin Sqlite!Written(writer[w].op) /\ acked'[t] = acked[t] /\ acked[t] # 0
<1> DEFINE tables == Sqlite!Written(writer[w].op)
<1>1. /\ acked' = [t \in Sqlite!Plain |-> IF t \in tables /\ writer[w].alone THEN writer[w].value ELSE acked[t]]
      /\ writer' = [writer EXCEPT ![w] = Sqlite!Resting]
      /\ holder' = IF holder = w THEN Sqlite!Nobody ELSE holder
  BY DEF Sqlite!Answered
<1>2. Leaves(w)
  BY <1>1 DEF Leaves
<1>3. acked' \in [Sqlite!Plain -> Nat]
  BY <1>1, CallIs DEF SqliteInv, SqliteTypes
<1>4. \A t \in Sqlite!Plain : t \in tables => Sqlite!Touches(w, t) /\ acked[t] = 0
  BY DEF SqliteInv, AckedFree, Sqlite!Touches
<1>5. AckedFree'
  <2> SUFFICES ASSUME NEW t \in Sqlite!Plain, NEW x \in Writers, acked'[t] # 0, Sqlite!Touches(x, t)'
               PROVE  FALSE
    BY DEF AckedFree
  <2>1. x # w /\ Sqlite!Touches(x, t) /\ t \in Sqlite!Tables
    BY <1>2, LeaveKeeps DEF Sqlite!Tables
  <2>2. CASE t \in tables
    <3>1. writer[w].alone /\ Sqlite!Touches(w, t)
      BY <1>1, <1>4, <2>2
    <3> QED BY <2>1, <3>1 DEF SqliteInv, Aware
  <2>3. CASE t \notin tables
    BY <1>1, <2>1, <2>3 DEF SqliteInv, AckedFree
  <2> QED BY <2>2, <2>3
<1>6. ASSUME NEW t \in Sqlite!Plain, acked'[t] # 0
      PROVE  \/ /\ t \in tables /\ acked'[t] = writer[w].value
                /\ t \in {"home", "option"} => cached[t] = writer[w].value
             \/ t \notin tables /\ acked'[t] = acked[t] /\ acked[t] # 0
  <2>1. CASE t \in tables
    <3>1. writer[w].alone /\ acked'[t] = writer[w].value
      BY <1>1, <1>4, <1>6, <2>1
    <3>2. ASSUME t \in {"home", "option"} PROVE writer[w].op = t
      BY <2>1, <3>2, CallIs, WrittenIs
    <3>3. t \in {"home", "option"} => cached[t] = writer[w].value
      BY <3>1, <3>2, CallIs DEF CacheAhead
    <3> QED BY <2>1, <3>1, <3>3
  <2>2. CASE t \notin tables
    BY <1>1, <1>6, <2>2
  <2> QED BY <2>1, <2>2
<1> QED BY <1>2, <1>3, <1>5, <1>6

(* A statement of the transaction's own call *)
OwnerStores(w, t, v, pc) ==
    /\ Sqlite!Owns(w) /\ t \in Sqlite!Written(writer[w].op)
    /\ v = IF t = "peer" THEN writer[w].facts ELSE writer[w].value
    /\ Sqlite!Put([Sqlite!Rows EXCEPT ![t] = v])
    /\ writer' = [writer EXCEPT ![w].pc = pc]
    /\ \/ writer[w].pc = "write" /\ writer[w].op = "positions" /\ t = "pts" /\ pc = "second"
       \/ writer[w].pc = "second" /\ writer[w].op = "positions" /\ t = "channels" /\ pc = "commit"
       \/ writer[w].pc = "write" /\ writer[w].op = "home" /\ t = "home" /\ pc = "commit"
       \/ writer[w].pc = "write" /\ writer[w].op = "account" /\ t = "pts" /\ pc = "commit"
       \/ writer[w].pc = "write" /\ writer[w].op = "channel" /\ t = "channels" /\ pc = "commit"
       \/ writer[w].pc = "write" /\ writer[w].op = "peers" /\ t = "peer" /\ pc = "commit"
    /\ UNCHANGED <<holder, cached, stage, acked, known, loose, split, writes>>
LEMMA SqliteStores ==
    ASSUME SqliteInv, NEW w \in Writers, NEW t, NEW v, NEW pc, OwnerStores(w, t, v, pc)
    PROVE  SqliteInv'
<1>1. /\ Sqlite!Owns(w) /\ v = IF t = "peer" THEN writer[w].facts ELSE writer[w].value
      /\ writer' = [writer EXCEPT ![w].pc = pc]
      /\ \/ writer[w].pc = "write" /\ writer[w].op = "positions" /\ t = "pts" /\ pc = "second"
         \/ writer[w].pc = "second" /\ writer[w].op = "positions" /\ t = "channels" /\ pc = "commit"
         \/ writer[w].pc = "write" /\ writer[w].op = "home" /\ t = "home" /\ pc = "commit"
         \/ writer[w].pc = "write" /\ writer[w].op = "account" /\ t = "pts" /\ pc = "commit"
         \/ writer[w].pc = "write" /\ writer[w].op = "channel" /\ t = "channels" /\ pc = "commit"
         \/ writer[w].pc = "write" /\ writer[w].op = "peers" /\ t = "peer" /\ pc = "commit"
      /\ UNCHANGED <<holder, cached, stage, acked, known, loose, split, writes>>
  BY DEF OwnerStores
<1>2. work.open /\ work.rows \in RowType /\ Sqlite!Rows = work.rows /\ SqliteTypes
  BY <1>1, CallIs DEF CallHolds, SqliteInv, SqliteTypes, Sqlite!Rows
<1>3. t \in Sqlite!Tables /\ IF t = "peer" THEN v \in SUBSET Facts ELSE v \in Nat
  BY <1>1, CallIs DEF Sqlite!Tables, Sqlite!Plain
<1>4. PICK q \in RowType :
        /\ Sqlite!Put(q) /\ q[t] = v /\ \A u \in Sqlite!Tables \ {t} : q[u] = work.rows[u]
  <2>1. PICK q : q = RowWith(work.rows, t, v)
    OBVIOUS
  <2>2. q \in RowType /\ q[t] = v /\ \A u \in Sqlite!Tables \ {t} : q[u] = work.rows[u]
    BY <1>2, <1>3, <2>1, RowSet
  <2>3. Sqlite!Put(q)
    BY <1>2, <2>1 DEF OwnerStores, RowWith
  <2> QED BY <2>2, <2>3
<1>5. /\ disk' = disk /\ work' \in [open : BOOLEAN, rows : RowType] /\ work'.open /\ work'.rows = q
      /\ Sqlite!Rows' = q
  BY <1>2, <1>4, PutIs
<1>6. writer'[w] = [writer[w] EXCEPT !.pc = pc] /\ \A x \in Writers \ {w} : writer'[x] = writer[x]
  BY <1>1 DEF SqliteInv, SqliteTypes
<1>7. /\ writer'[w] \in CallType /\ writer'[w].pc = pc /\ writer'[w].op = writer[w].op
      /\ writer'[w].value = writer[w].value /\ writer'[w].alone = writer[w].alone
      /\ writer'[w].facts = writer[w].facts /\ writer'[w].row = writer[w].row
  BY <1>1, <1>6, CallIs DEF CallType
<1>8. writer' \in [Writers -> CallType]
  BY <1>1, <1>6, <1>7 DEF SqliteInv, SqliteTypes
<1>9. Advances(w)
  BY <1>1, <1>6, <1>7, <1>8 DEF Advances
<1>10. SqliteTypes'
  BY <1>1, <1>5, <1>8 DEF SqliteInv, SqliteTypes
<1>11. Sqlite!Owns(w)' /\ \A x \in Writers \ {w} : ~Sqlite!Owns(x) /\ ~Sqlite!Owns(x)'
  BY <1>1, <1>6, <1>7 DEF SqliteInv, OneOwner, Sqlite!Owns
<1>12. writer[w].op # "home" => holder = w
  BY <1>1, CallIs DEF CallShape
<1>13. ASSUME NEW x \in Writers PROVE CallShape(x)' /\ CallHolds(x)'
  <2>1. CASE x = w
    <3>1. CallShape(w)'
      BY <1>1, <1>7, <1>12, CallIs DEF CallShape, Sqlite!Transacts
    <3>2. writer[w].pc = "second" => work.rows.pts = writer[w].value
      BY CallIs DEF CallHolds
    <3>3. CallHolds(w)'
      BY <1>1, <1>4, <1>5, <1>7, <3>2, CallIs DEF CallHolds, CallShape, Sqlite!Tables, Sqlite!Plain
    <3> QED BY <2>1, <3>1, <3>3
  <2>2. CASE x # w
    <3>1. writer'[x] = writer[x] /\ holder' = holder /\ CallShape(x) /\ CallHolds(x)
          /\ ~Sqlite!Owns(x) /\ ~Sqlite!Owns(x)'
      BY <1>1, <1>6, <1>11, <2>2, CallIs
    <3>2. CallShape(x)'
      BY <3>1 DEF CallShape
    <3>3. writer[x].pc \notin {"second", "commit"}
      BY <3>1 DEF CallShape, Sqlite!Owns, Sqlite!Transacts
    <3>4. ASSUME writer[x].op \in {"peer", "peers"}, writer[x].pc = "write"
          PROVE  Sqlite!Rows'.peer = Sqlite!Rows.peer
      <4>1. holder = x
        BY <3>1, <3>4 DEF CallShape
      <4>2. t # "peer"
        BY <1>1, <1>12, <2>2, <4>1
      <4> QED BY <1>2, <1>4, <1>5, <4>2 DEF Sqlite!Tables
    <3>5. ~(writer[x].op = "peers" /\ writer[x].pc \in {"read", "write"})
      BY <3>1 DEF Sqlite!Owns, Sqlite!Transacts
    <3>6. CallHolds(x)'
      BY <3>1, <3>3, <3>4, <3>5 DEF CallHolds
    <3> QED BY <3>2, <3>6
  <2> QED BY <2>1, <2>2
<1>14. \A x, y \in Writers : OneOwner(x, y)'
  BY <1>11 DEF OneOwner
<1>15. Transaction(w)'
  <2>1. Transaction(w)
    BY <1>2, <1>11 DEF SqliteInv, Transaction
  <2>2. ASSUME NEW u \in Sqlite!Plain \ loose.tables PROVE q[u] = disk.rows[u] \/ Sqlite!Touches(w, u)'
    <3>1. u \in Sqlite!Tables
      BY DEF Sqlite!Tables
    <3>2. CASE u = t
      BY <1>1, <1>7, <3>2 DEF Sqlite!Touches, OwnerStores
    <3>3. CASE u # t
      BY <1>4, <1>9, <2>1, <3>1, <3>3, AdvanceKeeps DEF Transaction
    <3> QED BY <3>2, <3>3
  <2>3. writer[w].row = "unread" \/ disk.rows.peer \ Unreadable \subseteq q.peer
    <3>1. CASE t = "peer"
      <4>1. writer[w].op = "peers" /\ writer[w].pc = "write" /\ writer[w].row # "unwritten"
        BY <1>1, <3>1, CallIs DEF CallShape
      <4>2. writer[w].row = "ok" => disk.rows.peer \ Unreadable \subseteq writer[w].facts
        BY <1>2, <4>1, CallIs DEF CallHolds
      <4> QED BY <1>1, <1>4, <3>1, <4>1, <4>2, CallIs
    <3>2. CASE t # "peer"
      BY <1>4, <2>1, <3>2 DEF Transaction, Sqlite!Tables
    <3> QED BY <3>1, <3>2
  <2>4. loose.facts \ Unreadable \subseteq q.peer
    <3>1. CASE t = "peer"
      BY <1>1, <2>1, <3>1, LooseIs DEF Transaction
    <3>2. CASE t # "peer"
      BY <1>4, <2>1, <3>2 DEF Transaction, Sqlite!Tables
    <3> QED BY <3>1, <3>2
  <2> QED BY <1>1, <1>5, <1>7, <1>11, <2>1, <2>2, <2>3, <2>4 DEF Transaction
<1>16. Sqlite!AckedIsStored'
  <2>1. ASSUME NEW u \in Sqlite!Plain, acked[u] # 0 PROVE q[u] = work.rows[u]
    <3>1. Sqlite!Touches(w, t)
      BY <1>1 DEF Sqlite!Touches, OwnerStores
    <3>2. u # t
      BY <2>1, <3>1 DEF SqliteInv, AckedFree
    <3> QED BY <1>4, <3>2 DEF Sqlite!Tables
  <2> QED BY <1>1, <1>5, <2>1 DEF SqliteInv, Sqlite!AckedIsStored
<1>17. Sqlite!PositionsWhole' /\ PeerKept'
  BY <1>1, <1>5 DEF SqliteInv, Sqlite!PositionsWhole, PeerKept
<1> QED BY <1>5, <1>9, <1>10, <1>13, <1>14, <1>15, <1>16, <1>17, AdvanceKeeps DEF SqliteInv

LEMMA SqliteWriteChannels ==
    ASSUME SqliteInv, NEW w \in Writers, Sqlite!WriteChannels(w)
    PROVE  SqliteInv'
<1>1. /\ writer[w].pc = "second" /\ writer' = [writer EXCEPT ![w].pc = "commit"]
      /\ Sqlite!Put([Sqlite!Rows EXCEPT !["channels"] = writer[w].value])
      /\ UNCHANGED <<holder, cached, stage, acked, known, loose, split, writes>>
  BY DEF Sqlite!WriteChannels, Sqlite!Store
<1>2. writer[w].op = "positions" /\ Sqlite!Owns(w)
  BY <1>1, CallIs DEF CallShape, Sqlite!Owns, Sqlite!Transacts
<1>3. "channels" \in Sqlite!Written(writer[w].op)
  BY <1>2, WrittenIs
<1>4. PICK v : v = writer[w].value
  OBVIOUS
<1>5. OwnerStores(w, "channels", v, "commit")
  BY <1>1, <1>2, <1>3, <1>4 DEF OwnerStores
<1> QED BY <1>5, SqliteStores

LEMMA SqliteCommit ==
    ASSUME SqliteInv, NEW w \in Writers, Sqlite!Commit(w)
    PROVE  SqliteInv'
<1>1. /\ writer[w].pc = "commit" /\ disk' = [disk EXCEPT !.rows = Sqlite!Rows] /\ work' = Sqlite!Closed
      /\ Sqlite!Answered(w) /\ Sqlite!Settled(w) /\ UNCHANGED <<cached, stage, writes>>
  BY DEF Sqlite!Commit
<1>2. Sqlite!Owns(w) /\ writer[w].op \in {"home", "positions", "account", "channel", "peers"}
  BY <1>1, CallIs DEF CallShape, Sqlite!Owns, Sqlite!Transacts
<1>3. work.open /\ Sqlite!Rows = work.rows
  BY <1>2, CallIs DEF CallHolds, Sqlite!Rows
<1>4. disk' \in [version : Nat, made : BOOLEAN, rows : RowType] /\ disk'.rows = work.rows
  <2>1. disk \in [version : Nat, made : BOOLEAN, rows : RowType] /\ work.rows \in RowType
    BY DEF SqliteInv, SqliteTypes
  <2> QED BY <1>1, <1>3, <2>1
<1>5. /\ Leaves(w) /\ acked' \in [Sqlite!Plain -> Nat] /\ AckedFree'
      /\ \A t \in Sqlite!Plain : acked'[t] # 0 =>
           \/ /\ t \in Sqlite!Written(writer[w].op) /\ acked'[t] = writer[w].value
              /\ t \in {"home", "option"} => cached[t] = writer[w].value
           \/ t \notin Sqlite!Written(writer[w].op) /\ acked'[t] = acked[t] /\ acked[t] # 0
  BY <1>1, <1>2, AnswerKeeps
<1>6. /\ writer' \in [Writers -> CallType]
      /\ writer'[w] = Sqlite!Resting /\ \A x \in Writers \ {w} : writer'[x] = writer[x]
      /\ \A x \in Writers : CallShape(x)' /\ CacheAhead(x)'
      /\ \A x \in Writers : Sqlite!Owns(x)' <=> Sqlite!Owns(x) /\ x # w
      /\ \A x, y \in Writers : OneOwner(x, y)' /\ Aware(x, y)'
      /\ stage' # "open" => \A x \in Writers : writer'[x] = Sqlite!Resting
  BY <1>5, LeaveKeeps
<1>7. work' \in [open : BOOLEAN, rows : RowType] /\ ~work'.open /\ Sqlite!Rows' = Sqlite!Rows
  BY <1>1, <1>3, <1>4, ClosedIs DEF Sqlite!Rows
<1>8. SqliteTypes' /\ loose' = Sqlite!NoneLoose
  <2>1. loose' = Sqlite!NoneLoose /\ split' \in BOOLEAN
    BY <1>1 DEF Sqlite!Settled, SqliteInv, SqliteTypes
  <2> QED BY <1>1, <1>4, <1>5, <1>6, <1>7, <2>1, LooseIs DEF SqliteInv, SqliteTypes
<1>9. ASSUME NEW x \in Writers PROVE CallHolds(x)'
  <2>1. CASE x = w
    BY <1>6, <2>1, RestIs DEF CallHolds
  <2>2. CASE x # w
    <3>1. writer'[x] = writer[x] /\ CallShape(x) /\ CallHolds(x) /\ ~Sqlite!Owns(x) /\ ~Sqlite!Owns(x)'
      BY <1>2, <1>6, <2>2, CallIs DEF SqliteInv, OneOwner
    <3>2. writer[x].pc \notin {"second", "commit"}
      BY <3>1 DEF CallShape, Sqlite!Owns, Sqlite!Transacts
    <3>3. ~(writer[x].op = "peers" /\ writer[x].pc \in {"read", "write"})
      BY <3>1 DEF Sqlite!Owns, Sqlite!Transacts
    <3> QED BY <1>7, <3>1, <3>2, <3>3 DEF CallHolds
  <2> QED BY <2>1, <2>2
<1>10. Transaction(w)
  <2>1. PICK o \in Writers : Transaction(o)
    BY <1>3 DEF SqliteInv
  <2>2. o = w
    BY <1>2, <2>1 DEF SqliteInv, OneOwner, Transaction
  <2> QED BY <2>1, <2>2
<1>11. Sqlite!AckedIsStored'
  <2> SUFFICES ASSUME NEW t \in Sqlite!Plain, acked'[t] # 0
               PROVE  /\ work.rows[t] = acked'[t]
                      /\ stage = "open" /\ t \in {"home", "option"} => cached[t] = acked'[t]
    BY <1>1, <1>4, <1>8, LooseIs DEF Sqlite!AckedIsStored
  <2>1. CASE t \in Sqlite!Written(writer[w].op)
    <3>1. acked'[t] = writer[w].value /\ (t \in {"home", "option"} => cached[t] = writer[w].value)
      BY <1>5, <2>1
    <3>2. work.rows[t] = writer[w].value
      BY <1>1, <1>2, <2>1, CallIs, WrittenIs DEF CallHolds, Sqlite!Plain
    <3> QED BY <3>1, <3>2
  <2>2. CASE t \notin Sqlite!Written(writer[w].op)
    <3>1. acked'[t] = acked[t] /\ acked[t] # 0
      BY <1>5, <2>2
    <3>2. t \notin loose.tables => work.rows[t] = disk.rows[t]
      BY <1>10, <2>2 DEF Transaction, Sqlite!Touches
    <3> QED BY <3>1, <3>2 DEF SqliteInv, Sqlite!AckedIsStored
  <2> QED BY <2>1, <2>2
<1>12. Sqlite!PositionsWhole'
  <2>1. CASE writer[w].op = "positions"
    BY <1>1, <1>4, <2>1, CallIs DEF CallHolds, Sqlite!PositionsWhole
  <2>2. CASE writer[w].op \in {"account", "channel"}
    BY <1>1, <2>2 DEF Sqlite!Settled, Sqlite!PositionsWhole
  <2>3. CASE writer[w].op \in {"home", "peers"}
    <3>1. split' = split
      BY <1>1, <2>3 DEF Sqlite!Settled
    <3>2. \A t \in {"pts", "channels"} : t \in Sqlite!Plain \ loose.tables /\ ~Sqlite!Touches(w, t)
      BY <2>3, WrittenIs DEF SqliteInv, SqliteTypes, LooseType, Sqlite!Plain, Sqlite!Touches
    <3>3. work.rows.pts = disk.rows.pts /\ work.rows.channels = disk.rows.channels
      BY <1>10, <3>2 DEF Transaction
    <3> QED BY <1>4, <3>1, <3>3 DEF SqliteInv, Sqlite!PositionsWhole
  <2> QED BY <1>2, <2>1, <2>2, <2>3
<1>13. PeerKept'
  <2>1. known' = Sqlite!Told(w) \cup loose.facts
    BY <1>1 DEF Sqlite!Settled
  <2>2. loose.facts \ Unreadable \subseteq work.rows.peer
    BY <1>10 DEF Transaction
  <2>3. writer[w].row # "unread" => known \ Unreadable \subseteq work.rows.peer
    BY <1>10 DEF SqliteInv, PeerKept, Transaction
  <2>4. CASE writer[w].op = "peers"
    <3>1. "peer" \in Sqlite!Written(writer[w].op)
      BY <2>4, WrittenIs
    <3>2. writer[w].row # "unwritten" => work.rows.peer = writer[w].facts
      BY <1>1, <2>4, CallIs DEF CallHolds
    <3>3. \/ writer[w].row = "unread" /\ Sqlite!Told(w) = known \cap writer[w].facts
          \/ writer[w].row = "unwritten" /\ Sqlite!Told(w) = known
          \/ writer[w].row = "ok" /\ Sqlite!Told(w) = known \cup writer[w].facts
      BY <3>1, CallIs DEF Sqlite!Told
    <3> QED BY <1>4, <2>1, <2>2, <2>3, <3>2, <3>3 DEF PeerKept
  <2>5. CASE writer[w].op # "peers"
    <3>1. "peer" \notin Sqlite!Written(writer[w].op) /\ writer[w].row = "ok"
      BY <1>2, <2>5, WrittenIs, CallIs DEF CallShape
    <3>2. Sqlite!Told(w) = known
      BY <3>1 DEF Sqlite!Told
    <3> QED BY <1>4, <2>1, <2>2, <2>3, <3>1, <3>2 DEF PeerKept
  <2> QED BY <2>4, <2>5
<1> QED BY <1>5, <1>6, <1>7, <1>8, <1>9, <1>11, <1>12, <1>13 DEF SqliteInv

(* A statement on its own, or inside the transaction of set_home_dc_id, of another call *)
LEMMA SqliteAlone ==
    ASSUME SqliteInv, NEW w \in Writers, NEW t \in {"option", "peer"}, NEW v,
           writer[w].pc = "write", writer[w].op = t, v = IF t = "peer" THEN writer[w].facts ELSE writer[w].value,
           Sqlite!Put([Sqlite!Rows EXCEPT ![t] = v]), Sqlite!Answered(w),
           IF work.open
           THEN /\ loose' = [tables |-> loose.tables \cup Sqlite!Written(writer[w].op),
                             facts |-> loose.facts \cup writer[w].facts]
                /\ UNCHANGED known
           ELSE known' = Sqlite!Told(w) /\ UNCHANGED loose,
           UNCHANGED <<cached, stage, split, writes>>
    PROVE  SqliteInv'
<1>1. Sqlite!Written(writer[w].op) = {t} /\ holder = w /\ ~Sqlite!Owns(w)
  BY CallIs, WrittenIs DEF CallShape, Sqlite!Owns, Sqlite!Transacts
<1>2. SqliteTypes /\ work.open \in BOOLEAN /\ Sqlite!Rows \in RowType
  BY DEF SqliteInv, SqliteTypes, Sqlite!Rows
<1>3. t \in Sqlite!Tables /\ IF t = "peer" THEN v \in SUBSET Facts ELSE v \in Nat
  BY CallIs DEF Sqlite!Tables, Sqlite!Plain
<1>4. PICK q \in RowType :
        /\ Sqlite!Put(q) /\ q[t] = v /\ \A u \in Sqlite!Tables \ {t} : q[u] = Sqlite!Rows[u]
  <2>1. PICK r \in RowType : r = Sqlite!Rows
    BY <1>2
  <2>2. PICK q : q = RowWith(r, t, v)
    OBVIOUS
  <2>3. q \in RowType /\ q[t] = v /\ \A u \in Sqlite!Tables \ {t} : q[u] = r[u]
    BY <1>3, <2>2, RowSet
  <2>4. Sqlite!Put(q)
    BY <2>1, <2>2 DEF RowWith
  <2> QED BY <2>1, <2>3, <2>4
<1>5. /\ disk' \in [version : Nat, made : BOOLEAN, rows : RowType]
      /\ work' \in [open : BOOLEAN, rows : RowType]
      /\ work'.open = work.open /\ Sqlite!Rows' = q
      /\ IF work.open THEN disk' = disk /\ work'.rows = q ELSE work' = work /\ disk'.rows = q
  BY <1>2, <1>4, PutIs
<1>6. /\ Leaves(w) /\ acked' \in [Sqlite!Plain -> Nat] /\ AckedFree'
      /\ \A u \in Sqlite!Plain : acked'[u] # 0 =>
           \/ /\ u = t /\ acked'[u] = writer[w].value
              /\ u \in {"home", "option"} => cached[u] = writer[w].value
           \/ u # t /\ acked'[u] = acked[u] /\ acked[u] # 0
  BY <1>1, AnswerKeeps
<1>7. /\ writer' \in [Writers -> CallType]
      /\ writer'[w] = Sqlite!Resting /\ \A x \in Writers \ {w} : writer'[x] = writer[x]
      /\ \A x \in Writers, u \in Sqlite!Tables : Sqlite!Touches(x, u)' <=> Sqlite!Touches(x, u) /\ x # w
      /\ \A x \in Writers : CallShape(x)' /\ CacheAhead(x)'
      /\ \A x \in Writers : Sqlite!Owns(x)' <=> Sqlite!Owns(x) /\ x # w
      /\ \A x, y \in Writers : OneOwner(x, y)' /\ Aware(x, y)'
      /\ stage' # "open" => \A x \in Writers : writer'[x] = Sqlite!Resting
  BY <1>6, LeaveKeeps
<1>8. SqliteTypes' /\ (work.open => loose'.tables = loose.tables \cup {t} /\ loose'.facts = loose.facts \cup writer[w].facts)
  <2>1. loose \in LooseType /\ writer[w].facts \subseteq Facts
    BY CallIs DEF SqliteInv, SqliteTypes
  <2>2. CASE work.open
    <3>1. loose' = [tables |-> loose.tables \cup {t}, facts |-> loose.facts \cup writer[w].facts]
      BY <1>1, <2>2
    <3>2. loose' \in LooseType /\ loose'.tables = loose.tables \cup {t} /\ loose'.facts = loose.facts \cup writer[w].facts
      BY <2>1, <3>1 DEF LooseType
    <3> QED BY <1>5, <1>6, <1>7, <3>2 DEF SqliteInv, SqliteTypes
  <2>3. CASE ~work.open
    BY <1>5, <1>6, <1>7, <2>3 DEF SqliteInv, SqliteTypes
  <2> QED BY <2>2, <2>3
<1>9. /\ t = "peer" => Sqlite!Rows.peer \ Unreadable \subseteq v /\ v = writer[w].facts
      /\ t = "option" => writer[w].facts = {}
      /\ writer[w].row = "ok"
  BY CallIs DEF CallHolds, CallShape
<1>10. ASSUME NEW x \in Writers PROVE CallHolds(x)'
  <2>1. CASE x = w
    BY <1>7, <2>1, RestIs DEF CallHolds
  <2>2. CASE x # w
    <3>1. writer'[x] = writer[x] /\ CallShape(x) /\ CallHolds(x) /\ (Sqlite!Owns(x)' <=> Sqlite!Owns(x))
      BY <1>7, <2>2, CallIs
    <3>2. ASSUME writer[x].op \in {"peer", "peers"}, writer[x].pc \in {"read", "write", "commit"}
          PROVE  FALSE
      BY <1>1, <2>2, <3>1, <3>2 DEF CallShape
    <3>3. ASSUME writer[x].pc \in {"second", "commit"}
          PROVE  \A u \in Sqlite!Tables \ {t} : work'.rows[u] = work.rows[u]
      <4>1. work.open
        BY <3>1, <3>3 DEF CallShape, CallHolds, Sqlite!Owns, Sqlite!Transacts
      <4> QED BY <1>4, <1>5, <4>1 DEF Sqlite!Rows
    <3>4. writer[x].pc = "second" => work'.rows.pts = writer[x].value
      BY <3>1, <3>3 DEF CallHolds, Sqlite!Tables, Sqlite!Plain
    <3>5. writer[x].pc = "commit" =>
            /\ writer[x].op = "home" => work'.rows.home = writer[x].value
            /\ writer[x].op \in {"positions", "account"} => work'.rows.pts = writer[x].value
            /\ writer[x].op \in {"positions", "channel"} => work'.rows.channels = writer[x].value
      BY <3>1, <3>3 DEF CallHolds, Sqlite!Tables, Sqlite!Plain
    <3> QED BY <1>5, <3>1, <3>2, <3>4, <3>5 DEF CallHolds
  <2> QED BY <2>1, <2>2
<1>11. ASSUME work'.open PROVE \E o \in Writers : Transaction(o)'
  <2>1. work.open /\ Sqlite!Rows = work.rows /\ disk' = disk /\ work'.rows = q
    BY <1>5, <1>11 DEF Sqlite!Rows
  <2>2. PICK o \in Writers : Transaction(o)
    BY <2>1 DEF SqliteInv
  <2>3. o # w
    BY <1>1, <2>2 DEF Transaction
  <2>4. writer[o].op = "home" /\ writer[o].row = "ok"
    BY <1>1, <2>2, <2>3, CallIs DEF Transaction, CallShape, Sqlite!Owns
  <2>5. ASSUME NEW u \in Sqlite!Plain \ loose'.tables PROVE q[u] = disk.rows[u] \/ Sqlite!Touches(o, u)'
    <3>1. u # t /\ u \notin loose.tables /\ u \in Sqlite!Tables
      BY <1>8, <2>1 DEF Sqlite!Tables
    <3> QED BY <1>4, <1>7, <2>1, <2>2, <2>3, <3>1 DEF Transaction
  <2>6. disk.rows.peer \ Unreadable \subseteq q.peer /\ loose'.facts \ Unreadable \subseteq q.peer
    <3>1. disk.rows.peer \ Unreadable \subseteq work.rows.peer /\ loose.facts \ Unreadable \subseteq work.rows.peer
      BY <2>2, <2>4 DEF Transaction
    <3>2. CASE t = "peer" BY <1>4, <1>8, <1>9, <2>1, <3>1, <3>2
    <3>3. CASE t = "option" BY <1>4, <1>8, <1>9, <2>1, <3>1, <3>3 DEF Sqlite!Tables
    <3> QED BY <3>2, <3>3
  <2>7. Transaction(o)'
    BY <1>7, <2>1, <2>2, <2>3, <2>4, <2>5, <2>6 DEF Transaction
  <2> QED BY <2>7
<1>12. \A u \in Sqlite!Tables \ {t} : disk'.rows[u] = disk.rows[u] /\ work'.rows[u] = work.rows[u]
  BY <1>4, <1>5 DEF Sqlite!Rows
<1>13. Sqlite!AckedIsStored'
  <2> SUFFICES ASSUME NEW u \in Sqlite!Plain, acked'[u] # 0
               PROVE  /\ IF u \in loose'.tables THEN work'.open /\ work'.rows[u] = acked'[u]
                         ELSE disk'.rows[u] = acked'[u]
                      /\ stage = "open" /\ u \in {"home", "option"} => cached[u] = acked'[u]
    BY DEF Sqlite!AckedIsStored
  <2>1. CASE u = t
    <3>1. acked'[u] = writer[w].value /\ t = "option" /\ cached[u] = writer[w].value /\ q[u] = writer[w].value
      BY <1>4, <1>6, <2>1 DEF Sqlite!Plain
    <3>2. CASE work.open
      BY <1>5, <1>8, <2>1, <3>1, <3>2
    <3>3. CASE ~work.open
      BY <1>5, <2>1, <3>1, <3>3, LooseIs DEF SqliteInv
    <3> QED BY <3>2, <3>3
  <2>2. CASE u # t
    <3>1. /\ acked'[u] = acked[u] /\ acked[u] # 0 /\ disk'.rows[u] = disk.rows[u] /\ work'.rows[u] = work.rows[u]
          /\ u \in loose'.tables <=> u \in loose.tables
          /\ work'.open = work.open
      BY <1>5, <1>6, <1>8, <1>12, <2>2 DEF Sqlite!Tables
    <3> QED BY <3>1 DEF SqliteInv, Sqlite!AckedIsStored
  <2> QED BY <2>1, <2>2
<1>14. Sqlite!PositionsWhole'
  BY <1>12 DEF SqliteInv, Sqlite!PositionsWhole, Sqlite!Tables, Sqlite!Plain
<1>15. PeerKept'
  <2>1. known \ Unreadable \subseteq disk.rows.peer
    BY DEF SqliteInv, PeerKept
  <2>2. CASE work.open
    BY <1>5, <2>1, <2>2 DEF PeerKept
  <2>3. CASE ~work.open /\ t = "peer"
    <3>1. known' = known \cup writer[w].facts
      BY <1>1, <1>9, <2>3 DEF Sqlite!Told
    <3> QED BY <1>4, <1>5, <1>9, <2>1, <2>3, <3>1 DEF PeerKept, Sqlite!Rows
  <2>4. CASE ~work.open /\ t = "option"
    <3>1. known' = known
      <4>1. writer[w].op = "option" /\ known' = Sqlite!Told(w)
        BY <1>1, <2>4
      <4>2. "peer" \notin Sqlite!Written(writer[w].op)
        BY <4>1, WrittenIs
      <4> QED BY <1>9, <4>1, <4>2 DEF Sqlite!Told
    <3> QED BY <1>12, <2>1, <2>4, <3>1 DEF PeerKept, Sqlite!Tables
  <2> QED BY <2>2, <2>3, <2>4
<1>16. ~work'.open => loose' = Sqlite!NoneLoose
  BY <1>5 DEF SqliteInv
<1> QED BY <1>6, <1>7, <1>8, <1>10, <1>11, <1>13, <1>14, <1>15, <1>16 DEF SqliteInv

LEMMA SqliteWrite ==
    ASSUME SqliteInv, NEW w \in Writers, Sqlite!Write(w)
    PROVE  SqliteInv'
<1>1. writer[w].pc = "write" /\ UNCHANGED <<cached, stage, split, writes>>
  BY DEF Sqlite!Write
<1>2. writer[w].op \in {"home", "option", "positions", "account", "channel", "peer", "peers"}
  BY <1>1, CallIs DEF CallShape
<1>3. PICK t \in Sqlite!Tables :
        t = Sqlite!FirstTable(writer[w].op) /\ Sqlite!Store(w, t)
  BY <1>2 DEF Sqlite!Write, Sqlite!FirstTable, Sqlite!Tables, Sqlite!Plain
<1>4. PICK v : v = IF t = "peer" THEN writer[w].facts ELSE writer[w].value
  OBVIOUS
<1>5. Sqlite!Put([Sqlite!Rows EXCEPT ![t] = v])
  BY <1>3, <1>4 DEF Sqlite!Store
<1>6. /\ writer[w].op \in {"positions", "account"} => t = "pts"
      /\ writer[w].op = "channel" => t = "channels"
      /\ writer[w].op \in {"peer", "peers"} => t = "peer"
      /\ writer[w].op \in {"home", "option"} => t = writer[w].op
      /\ t \in Sqlite!Written(writer[w].op)
  BY <1>2, <1>3, WrittenIs DEF Sqlite!FirstTable
<1>7. CASE writer[w].op \in {"home", "positions", "account", "channel", "peers"}
  <2>1. PICK pc : pc = IF writer[w].op = "positions" THEN "second" ELSE "commit"
    OBVIOUS
  <2>2. writer' = [writer EXCEPT ![w].pc = pc] /\ UNCHANGED <<holder, acked, known, loose>>
    BY <1>7, <2>1 DEF Sqlite!Write, Sqlite!Transacts
  <2>3. Sqlite!Owns(w)
    BY <1>1, <1>7 DEF Sqlite!Owns, Sqlite!Transacts
  <2>4. \/ writer[w].pc = "write" /\ writer[w].op = "positions" /\ t = "pts" /\ pc = "second"
        \/ writer[w].pc = "write" /\ writer[w].op = "home" /\ t = "home" /\ pc = "commit"
        \/ writer[w].pc = "write" /\ writer[w].op = "account" /\ t = "pts" /\ pc = "commit"
        \/ writer[w].pc = "write" /\ writer[w].op = "channel" /\ t = "channels" /\ pc = "commit"
        \/ writer[w].pc = "write" /\ writer[w].op = "peers" /\ t = "peer" /\ pc = "commit"
    BY <1>1, <1>6, <1>7, <2>1
  <2>5. OwnerStores(w, t, v, pc)
    BY <1>1, <1>4, <1>5, <1>6, <2>2, <2>3, <2>4 DEF OwnerStores
  <2> QED BY <2>5, SqliteStores
<1>8. CASE writer[w].op \in {"option", "peer"}
  <2>1. t \in {"option", "peer"} /\ writer[w].op = t
    BY <1>6, <1>8
  <2>2. /\ Sqlite!Answered(w)
        /\ IF work.open
           THEN /\ loose' = [tables |-> loose.tables \cup Sqlite!Written(writer[w].op),
                             facts |-> loose.facts \cup writer[w].facts]
                /\ UNCHANGED known
           ELSE known' = Sqlite!Told(w) /\ UNCHANGED loose
    BY <1>8, Zenon DEF Sqlite!Write, Sqlite!Transacts
  <2> QED BY <1>1, <1>4, <1>5, <2>1, <2>2, SqliteAlone
<1> QED BY <1>2, <1>7, <1>8

(* Every step of the SQLite session keeps the invariant *)
THEOREM SqliteInvariance == ASSUME SqliteInv, Sqlite!Next PROVE SqliteInv'
BY SqliteOpens, SqliteCrash, SqliteCall, SqliteLock, SqliteBegin, SqliteRead, SqliteRowUnread, SqliteWrite,
   SqliteRowUnwritten, SqliteWriteChannels, SqliteCommit, SqliteDrop
   DEF Sqlite!Next

(* What is known about the peer is in the file, and in an open transaction as well with
   what was answered inside it *)
THEOREM PeerNotForgottenCorrect == SqliteInv => Sqlite!PeerNotForgotten
<1> SUFFICES ASSUME SqliteInv, work.open, loose.facts # {}
             PROVE  (known \cup loose.facts) \ Unreadable \subseteq work.rows.peer
  BY DEF SqliteInv, PeerKept, Sqlite!PeerNotForgotten
<1>1. PICK o \in Writers : Transaction(o)
  BY DEF SqliteInv
<1>2. writer[o].op = "home" /\ writer[o].row = "ok"
  BY <1>1, LooseIs, CallIs DEF Transaction, CallShape
<1> QED BY <1>1, <1>2 DEF SqliteInv, PeerKept, Transaction

-----------------------------------------------------------------------------
(* The client *)

ClientInv ==
    /\ focus = "life" => LifeInv
    /\ focus = "login" => LoginInv
    /\ focus = "sqlite" => SqliteInv
    /\ focus = "cache" => CacheInv

(* A component that is not in focus, or rests, keeps its invariant *)
LEMMA ClientRests == ASSUME ClientInv, UNCHANGED clientVars PROVE ClientInv'
<1>1. UNCHANGED <<user, state, task, completion, pings>> => (LifeInv' <=> LifeInv)
  BY DEF LifeInv, LifeTypes, UsersSound, UserSound, TaskSound
<1>2. UNCHANGED <<place, twoFactor, account, home, recorded, login, result>> => (LoginInv' <=> LoginInv)
  BY DEF LoginInv, LoginTypes, ResultOrCall, FlowSteps, KnownThere, SignIn!Target,
         SignIn!SignedInIsRecorded, SignIn!PasswordAtHome
<1>3. UNCHANGED <<disk, work, holder, cached, writer, stage, acked, known, loose, split, writes>> =>
        (SqliteInv' <=> SqliteInv)
  BY DEF SqliteInv, SqliteTypes, CallShape, CallHolds, CacheAhead, OneOwner, Aware, AckedFree, Transaction,
         Sqlite!Owns, Sqlite!Touches, Sqlite!Rows, Sqlite!AckedIsStored, Sqlite!PositionsWhole,
         PeerKept
<1>4. UNCHANGED <<truth, written, slots, caching, unsure>> => (CacheInv' <=> CacheInv)
  BY DEF CacheInv, CacheTypes, IdleHasNone, PeerSound, HasPeer, Cache!Contains, Cache!Slots
<1> QED BY <1>1, <1>2, <1>3, <1>4 DEF ClientInv, clientVars, lifeVars, loginVars, sqliteVars, cacheVars

LEMMA ClientFocus ==
    ASSUME ClientNext
    PROVE  /\ focus' = focus
           /\ focus = "life" => Life!Next
           /\ focus = "login" => SignIn!Next
           /\ focus = "sqlite" => Sqlite!Next
           /\ focus = "cache" => Cache!Next
BY DEF ClientNext, InLife, InLogin, InSqlite, InCache, InDownload, InUpload, InSent

(* Whichever component a behaviour of the client is about keeps the invariant of that
   component: the life of the managed client, a login, the SQLite session or the cache
   of peers *)
THEOREM ClientInvariance == ClientSpec => []ClientInv
<1>1. ClientInit => ClientInv
  BY LifeBegins, LoginBegins, SqliteBegins, CacheBegins DEF ClientInit, ClientInv
<1>2. ClientInv /\ [ClientNext]_clientVars => ClientInv'
  <2>1. ASSUME ClientInv, ClientNext PROVE ClientInv'
    BY <2>1, ClientFocus, LifeInvariance, LoginInvariance, SqliteInvariance, CacheInvariance DEF ClientInv
  <2> QED BY <2>1, ClientRests
<1> QED BY <1>1, <1>2, PTL DEF ClientSpec

(* What the session has confirmed it keeps, over calls that overlap, fail, are dropped or
   refused a transaction, and kills, for any number of callers, facts (whichever of them
   can be read back), peers and slots *)
THEOREM SessionKeepsCorrect == ClientSpec => []SessionKeeps
<1>1. ClientInv => SessionKeeps
  BY CacheCorrect, PeerNotForgottenCorrect DEF ClientInv, SessionKeeps, SqliteInv
<1> QED BY <1>1, ClientInvariance, PTL

(* A login that returns the user has recorded it, the password is asked for where it is
   awaited, and the home datacenter moves late, whatever datacenters answer *)
THEOREM LoginRecordedCorrect == ClientSpec => LoginRecorded
<1>1. ClientInv => (focus = "login" => SignIn!SignedInIsRecorded /\ SignIn!PasswordAtHome)
  BY DEF ClientInv, LoginInv
<1>2. ClientInv /\ [ClientNext]_clientVars => [focus = "login" => SignIn!HomeMovesLate]_clientVars
  BY ClientFocus, HomeMovesLateCorrect DEF ClientInv
<1> QED BY <1>1, <1>2, ClientInvariance, PTL DEF ClientSpec, LoginRecorded

(* Callers agree on how the client ended, whichever operations any number of tasks call *)
THEOREM EndsAgreeCorrect == ClientSpec => EndsAgree
<1>1. ClientInv => (focus = "life" => /\ Life!StoppedForGood /\ Life!PanicIsReported
                                      /\ Life!OneVerdict /\ Life!TimeoutIsReported)
  BY LifeCorrect DEF ClientInv
<1>2. ClientInv /\ [ClientNext]_clientVars => [focus = "life" => Life!CheckStaysShared]_clientVars
  BY ClientFocus, CheckStaysSharedCorrect DEF ClientInv
<1> QED BY <1>1, <1>2, ClientInvariance, PTL DEF ClientSpec, EndsAgree
=============================================================================
