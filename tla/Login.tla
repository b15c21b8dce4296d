------------------------------- MODULE Login -------------------------------
(***************************************************************************)
(* Signing in: auth.rs and qr_login.rs of grammers-client.  An account     *)
(* lives at one datacenter; the session has a home datacenter, to which    *)
(* requests go, and records the user and the update positions once the     *)
(* login is complete.  Datacenters answer truthfully or oddly, requests    *)
(* and session writes fail, and the caller may drop its call at an await.  *)
(***************************************************************************)
EXTENDS Integers, FiniteSets

CONSTANTS
    LoginDcs,       \* the datacenters, above 0
    MaxVisited,     \* how many migrations one step of QR login follows
    MaxLoginFaults, \* failed requests and writes, odd answers, dropped calls
    MaxLogins       \* calls the application makes

VARIABLES
    place,      \* the account's datacenter
    twoFactor,  \* the account has a password
    account,    \* what each datacenter knows of this client's key
    home,       \* session: home_dc_id
    recorded,   \* session: the peer that is the user, and the update positions
    login,      \* the running call: its flow, step and locals
    result,     \* what the last call returned
    loginFaults,
    logins

loginVars == <<place, twoFactor, account, home, recorded, login, result, loginFaults, logins>>

NoDc == 0
Idle == [flow |-> "none", pc |-> "idle", dc |-> NoDc, visited |-> {}, state |-> FALSE, fresh |-> FALSE]
Fault == loginFaults > 0 /\ loginFaults' = loginFaults - 1
At(pc) == login.pc = pc
Goto(pc) == login' = [login EXCEPT !.pc = pc]
Returns(r) == login' = Idle /\ result' = r
Target == IF login.dc = NoDc THEN home ELSE login.dc

Moving == login.pc \in {"finish", "move home"}

(* The datacenter of the account accepts the proof of identity *)
Accepted(d) == [account EXCEPT ![d] = IF twoFactor /\ login.flow # "bot" THEN "challenge" ELSE "user"]

-----------------------------------------------------------------------------
(* The application calls *)

Begin(flow, pc) ==
    /\ login = Idle /\ logins > 0 /\ logins' = logins - 1
    /\ login' = [Idle EXCEPT !.flow = flow, !.pc = pc] /\ result' = "running"
    /\ UNCHANGED <<place, twoFactor, account, home, recorded, loginFaults>>
QrLoginStep == Begin("qr", "export")
BotSignIn == Begin("bot", "import bot")
RequestLoginCode == Begin("code", "send code")
SignIn == result = "code" /\ Begin("sign in", "sign in")
CheckPassword == result = "password" /\ Begin("password", "proof")
SignOut ==
    /\ login = Idle /\ account[home] = "user"
    /\ account' = [account EXCEPT ![home] = "none"] /\ result' = "none"
    /\ UNCHANGED <<place, twoFactor, home, recorded, login, loginFaults, logins>>

(* Any request or write of a call fails, and the call with it; or the      *)
(* caller drops it.  What was done by then stays done.                     *)
Fails ==
    /\ login # Idle /\ Fault /\ Returns("error")
    /\ account' \in {account} \cup
           (IF login.pc \in {"export", "import", "import bot", "sign in"} /\ Target = place
            THEN {Accepted(place)} ELSE {})
    /\ home' \in {home} \cup (IF Moving THEN {Target} ELSE {})
    /\ recorded' \in {recorded} \cup (IF At("record") THEN {[recorded EXCEPT !.user = TRUE]} ELSE {})
    /\ UNCHANGED <<place, twoFactor, logins>>

-----------------------------------------------------------------------------
(* QR login: export at home, then import where the answers say *)

Display ==
    /\ At("export") /\ Returns("display")
    /\ UNCHANGED <<place, twoFactor, account, home, recorded, loginFaults, logins>>
(* A token in the answer to an import makes no sense *)
TokenAgain ==
    /\ At("import") /\ Fault /\ Returns("error")
    /\ UNCHANGED <<place, twoFactor, account, home, recorded, logins>>
FaultyFollow(d) ==
    /\ d # NoDc /\ d \notin login.visited /\ Cardinality(login.visited) < MaxVisited
    /\ login' = [login EXCEPT !.pc = "import", !.dc = d, !.visited = @ \cup {d}]
    /\ home' = d /\ UNCHANGED result
CyclicFollow(d) ==
    /\ d # NoDc /\ login' = [login EXCEPT !.pc = "import", !.dc = d]
    /\ UNCHANGED <<home, result>>
Follow(d) ==
    /\ d # NoDc /\ d \notin login.visited /\ Cardinality(login.visited) < MaxVisited
    /\ login' = [login EXCEPT !.pc = "import", !.dc = d, !.visited = @ \cup {d}]
    /\ UNCHANGED <<home, result>>
Refuses(d) ==
    /\ d = NoDc \/ d \in login.visited \/ Cardinality(login.visited) >= MaxVisited
    /\ Returns("error") /\ UNCHANGED home
MigrateTo(d) ==
    /\ login.pc \in {"export", "import"}
    /\ login.pc = "import" \/ (d = place /\ place # home)
    /\ Follow(d) \/ Refuses(d)
    /\ UNCHANGED <<place, twoFactor, account, recorded, loginFaults, logins>>
Success ==
    /\ login.pc \in {"export", "import"} /\ Target = place
    /\ account' = Accepted(place)
    /\ Goto(IF twoFactor THEN "get password" ELSE "finish") /\ UNCHANGED result
    /\ UNCHANGED <<place, twoFactor, home, recorded, loginFaults, logins>>
SignUpRequired ==
    /\ login.pc \in {"export", "import", "sign in", "check"} /\ Fault /\ Returns("sign up")
    /\ UNCHANGED <<place, twoFactor, account, home, recorded, logins>>

(* password: the challenge comes from the datacenter of the account, which *)
(* becomes home only then                                                  *)
FaultyGetPassword ==
    /\ At("get password") /\ Returns("password")
    /\ UNCHANGED <<place, twoFactor, account, home, recorded, loginFaults, logins>>
GetPassword ==
    /\ At("get password")
    /\ IF login.flow = "qr" THEN Goto("move home") /\ UNCHANGED result ELSE Returns("password")
    /\ UNCHANGED <<place, twoFactor, account, home, recorded, loginFaults, logins>>
(* select_home, at the start of finish and at the end of password *)
AfterHome == IF At("finish") THEN Goto("state") /\ UNCHANGED result ELSE Returns("password")
FaultySelectHome ==
    /\ Moving /\ AfterHome
    /\ UNCHANGED <<place, twoFactor, account, home, recorded, loginFaults, logins>>
SelectHome ==
    /\ Moving /\ home' = Target /\ AfterHome
    /\ UNCHANGED <<place, twoFactor, account, recorded, loginFaults, logins>>

-----------------------------------------------------------------------------
(* bot_sign_in and request_login_code: one migration, then the request     *)
(* again.  The datacenter is mostly right about where the account lives.   *)
(* The connection to the old home is dropped: see Disconnect of SenderPool *)

Elsewhere ==
    /\ login.pc \in {"import bot", "send code"} /\ home # place
    /\ \E d \in LoginDcs \cup {NoDc} :
         /\ IF d = place THEN UNCHANGED loginFaults ELSE Fault
         /\ IF d = NoDc \/ login.visited # {} THEN Returns("error") /\ UNCHANGED home
            ELSE /\ login' = [login EXCEPT !.visited = {d}]
                 /\ home' = d /\ UNCHANGED result
    /\ UNCHANGED <<place, twoFactor, account, recorded, logins>>
BotAccepted ==
    /\ At("import bot") /\ home = place
    /\ account' = Accepted(home) /\ Goto("state")
    /\ UNCHANGED <<place, twoFactor, home, recorded, result, loginFaults, logins>>
CodeSent ==
    /\ At("send code") /\ home = place /\ Returns("code")
    /\ UNCHANGED <<place, twoFactor, account, home, recorded, loginFaults, logins>>
CodeAccepted ==
    /\ At("sign in") /\ home = place
    /\ account' = Accepted(home) /\ Goto(IF twoFactor THEN "get password" ELSE "state")
    /\ UNCHANGED <<place, twoFactor, home, recorded, result, loginFaults, logins>>
CodeRefused ==
    /\ At("sign in") /\ Returns("invalid code")
    /\ UNCHANGED <<place, twoFactor, account, home, recorded, loginFaults, logins>>

-----------------------------------------------------------------------------
(* check_password: parameters that are no good are asked for once more *)

Proof ==
    /\ At("proof") /\ Goto("check")
    /\ UNCHANGED <<place, twoFactor, account, home, recorded, result, loginFaults, logins>>
BadParameters ==
    /\ At("proof")
    /\ IF login.fresh THEN Returns("error")
       ELSE login' = [login EXCEPT !.pc = "fresh password"] /\ UNCHANGED result
    /\ UNCHANGED <<place, twoFactor, account, home, recorded, loginFaults, logins>>
FreshParameters ==
    /\ At("fresh password") /\ login' = [login EXCEPT !.pc = "proof", !.fresh = TRUE]
    /\ UNCHANGED <<place, twoFactor, account, home, recorded, result, loginFaults, logins>>
PasswordAccepted ==
    /\ At("check") /\ account[home] = "challenge"
    /\ account' = [account EXCEPT ![home] = "user"] /\ Goto("state")
    /\ UNCHANGED <<place, twoFactor, home, recorded, result, loginFaults, logins>>
(* InvalidPassword gives the token back *)
PasswordRefused ==
    /\ At("check") /\ Returns(IF account[home] = "challenge" THEN "password" ELSE "error")
    /\ UNCHANGED <<place, twoFactor, account, home, recorded, loginFaults, logins>>

-----------------------------------------------------------------------------
(* complete_login *)

GetState ==
    /\ At("state")
    /\ \/ login' = [login EXCEPT !.pc = "record", !.state = TRUE] /\ UNCHANGED loginFaults
       \/ login' = [login EXCEPT !.pc = "record", !.state = FALSE] /\ Fault
    /\ UNCHANGED <<place, twoFactor, account, home, recorded, result, logins>>
Record ==
    /\ At("record") /\ recorded' = [recorded EXCEPT !.user = TRUE]
    /\ IF login.state THEN Goto("positions") /\ UNCHANGED result ELSE Returns("user")
    /\ UNCHANGED <<place, twoFactor, account, home, loginFaults, logins>>
StorePositions ==
    /\ At("positions") /\ recorded' = [recorded EXCEPT !.positions = TRUE] /\ Returns("user")
    /\ UNCHANGED <<place, twoFactor, account, home, loginFaults, logins>>

Init ==
    /\ place \in LoginDcs /\ home \in LoginDcs /\ twoFactor \in BOOLEAN
    /\ account = [d \in LoginDcs |-> "none"] /\ recorded = [user |-> FALSE, positions |-> FALSE]
    /\ login = Idle /\ result = "none" /\ loginFaults = MaxLoginFaults /\ logins = MaxLogins

Steps ==
    \/ Display \/ TokenAgain \/ (\E d \in LoginDcs \cup {NoDc} : MigrateTo(d)) \/ Success \/ SignUpRequired
    \/ GetPassword \/ SelectHome \/ Elsewhere \/ BotAccepted \/ CodeSent \/ CodeAccepted \/ CodeRefused
    \/ Proof \/ BadParameters \/ FreshParameters \/ PasswordAccepted \/ PasswordRefused
    \/ GetState \/ Record \/ StorePositions
Next ==
    \/ QrLoginStep \/ BotSignIn \/ RequestLoginCode \/ SignIn \/ CheckPassword \/ SignOut
    \/ Steps \/ Fails

Spec == Init /\ [][Next]_loginVars

-----------------------------------------------------------------------------

(* "[Migrations] change the home DC only after authorization or an         *)
(* established password challenge" (qr_login_step): an import that fails,  *)
(* or leads elsewhere, leaves the session where it was.                    *)
HomeMovesLate ==
    login.flow = "qr" /\ home' # home => account[home'] \in {"user", "challenge"}

(* A call that returns the user has recorded it, and the session's home is *)
(* the datacenter where the key is authorized, whichever way the login     *)
(* took.                                                                   *)
SignedInIsRecorded == result = "user" => recorded.user /\ account[home] = "user"

(* A password is asked for only when the home datacenter waits for it:     *)
(* check_password sends the proof to the home datacenter.                  *)
PasswordAtHome == result = "password" => account[home] = "challenge"

(* What every call must come to, however the datacenters send it about *)
HasReturned == login = Idle
=============================================================================
