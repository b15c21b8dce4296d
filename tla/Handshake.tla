----------------------------- MODULE Handshake -----------------------------
(***************************************************************************)
(* The generation of an authorization key: generate_auth_key and           *)
(* run_dh_job of grammers-mtsender/src/sender.rs with the steps of         *)
(* grammers-mtproto/src/authentication.rs, over the plain session of       *)
(* mtp/plain.rs.  Several connections do it at once.  Every plain message  *)
(* has identifier 0, so whatever the stream brings next answers the        *)
(* request that waits; an answer may be repeated or arrive damaged.        *)
(* Attempt a's nonce, new nonce and exponent are all written a, and so are *)
(* the nonce and the exponent Telegram chooses for it.                     *)
(***************************************************************************)
EXTENDS Naturals, Sequences, FiniteSets

CONSTANTS
    Attempts,       \* connections that generate a key
    DhJobs,         \* permits of DH_JOBS
    MaxOddAnswers,  \* answers that are damaged or repeated
    MaxAbandoned    \* callers that go away

VARIABLES
    shake,      \* an attempt: where it is, and what Step2 and Step3 hold
    asked,      \* attempts whose request Telegram has not answered
    incoming,   \* the answers on each connection's stream
    verdict,    \* what Telegram decided about each attempt: its answer and its key
    jobs,       \* blocking jobs that run: step2 or step3 of an attempt
    permits,    \* what is left of DH_JOBS
    odd,        \* odd answers left
    abandoned   \* callers that may still go away

handshakeVars == <<shake, asked, incoming, verdict, jobs, permits, odd, abandoned>>

Nobody == "nobody"
Says == <<"ok", "retry", "fail">>
Undecided == [said |-> "nothing", key |-> <<>>, salt |-> <<>>]
Waiting == {"pq", "dh", "gen"}
Computing == {"step2", "step3"}
Ended == {"done", "invalid", "refused", "retry", "lost", "dropped"}

-----------------------------------------------------------------------------

(* Telegram's answers.  "content" is what an answer carries besides the    *)
(* nonces: one of the things a check looks at is wrong, or all are good.   *)
(* "half" is g_a, and "proof" what a hash in the answer is computed from.  *)
Answer(type, a) ==
    [type |-> type, nonce |-> a, serverNonce |-> a, content |-> "good", half |-> a, proof |-> <<>>]
KeyOf(a, half) == <<half, a>>
SaltOf(a, serverNonce) == <<a, serverNonce>>
Decision(n, a) == [said |-> Says[n], key |-> KeyOf(a, a), salt |-> SaltOf(a, a)]
Told(number, a) ==
    [Answer(Says[number], a) EXCEPT !.proof = <<number, a, KeyOf(a, a)>>]

Put(a, m) == incoming' = [incoming EXCEPT ![a] = Append(@, m)]
TelegramAnswers(a) ==
    /\ a \in asked
    /\ asked' = asked \ {a}
    /\ \/ shake[a].at = "pq" /\ Put(a, Answer("pq", a)) /\ UNCHANGED verdict
       \/ /\ shake[a].at \in {"dh", "gen"} /\ shake[a].serverNonce # a
          /\ Put(a, Answer("closed", a)) /\ UNCHANGED verdict
       \/ /\ shake[a].at = "dh" /\ shake[a].serverNonce = a
          /\ \E type \in {"dhOk", "dhFail"} : Put(a, [Answer(type, a) EXCEPT !.proof = <<a>>])
          /\ UNCHANGED verdict
       \/ /\ shake[a].at = "gen" /\ shake[a].serverNonce = a
          /\ \E n \in 1..3 :
               /\ verdict' = [verdict EXCEPT ![a] = Decision(n, a)]
               /\ Put(a, Told(n, a))
       \/ shake[a].at \notin Waiting /\ UNCHANGED <<incoming, verdict>>
    /\ UNCHANGED <<shake, jobs, permits, odd, abandoned>>

(* The first answer on a stream is damaged, or arrives twice *)
Damages == {"envelope", "pqSize", "factors", "fingerprints", "length", "padding", "unreadable",
            "trailing", "inner", "group", "time", "range"}
Damaged(m) ==
    {[m EXCEPT !.nonce = Nobody], [m EXCEPT !.serverNonce = Nobody], [m EXCEPT !.half = Nobody]}
      \cup {[m EXCEPT !.content = d] : d \in Damages}
      \cup {[m EXCEPT !.type = Says[n]] : n \in {k \in 1..3 : m.type \in {Says[i] : i \in 1..3}}}
Oddity(a) ==
    /\ odd > 0 /\ incoming[a] # <<>>
    /\ odd' = odd - 1
    /\ incoming' \in {[incoming EXCEPT ![a][1] = m] : m \in Damaged(incoming[a][1])}
                       \cup {[incoming EXCEPT ![a] = <<@[1]>> \o @]}
    /\ UNCHANGED <<shake, asked, verdict, jobs, permits, abandoned>>

-----------------------------------------------------------------------------

(* step1 and its request *)
Step1(a) ==
    /\ shake[a].at = "start"
    /\ shake' = [shake EXCEPT ![a].at = "pq"]
    /\ asked' = asked \cup {a}
    /\ UNCHANGED <<incoming, verdict, jobs, permits, odd, abandoned>>

(* Plain::deserialize, and the answer read as the type that the request    *)
(* returns: anything else ends the attempt.  pq and DH answers go to a     *)
(* job, which waits for a permit; create_key runs at once.                 *)
Expected == [pq |-> {"pq"}, dh |-> {"dhOk", "dhFail"}, gen |-> {"ok", "retry", "fail"}]
Readable(a, m) == m.content # "envelope" /\ m.type \in Expected[shake[a].at]

CheckNonces(a, m) == m.nonce = a /\ m.serverNonce = shake[a].serverNonce

FaultyCheckNewNonceHash(a, m, number) == Tail(m.proof) = <<a, KeyOf(a, shake[a].half)>>
CheckNewNonceHash(a, m, number) == m.proof = <<number, a, KeyOf(a, shake[a].half)>>

Number(m) == CHOOSE n \in 1..3 : Says[n] = m.type
HastyCreateKey(a, m) ==
    IF m.type = "retry" THEN "retry"
    ELSE IF ~CheckNonces(a, m) \/ ~CheckNewNonceHash(a, m, Number(m)) THEN "invalid"
    ELSE <<"done", "retry", "refused">>[Number(m)]
CreateKey(a, m) ==
    IF ~CheckNonces(a, m) \/ ~CheckNewNonceHash(a, m, Number(m)) THEN "invalid"
    ELSE <<"done", "retry", "refused">>[Number(m)]

Receive(a) ==
    /\ shake[a].at \in Waiting /\ incoming[a] # <<>>
    /\ LET m == incoming[a][1]
       IN  /\ incoming' = [incoming EXCEPT ![a] = Tail(@)]
           /\ shake' = [shake EXCEPT ![a] =
                IF m.type = "closed" THEN [@ EXCEPT !.at = "lost"]
                ELSE IF ~Readable(a, m) THEN [@ EXCEPT !.at = "invalid"]
                ELSE IF @.at = "gen" THEN [@ EXCEPT !.at = CreateKey(a, m)]
                ELSE [@ EXCEPT !.at = IF shake[a].at = "pq" THEN "step2" ELSE "step3", !.answer = <<m>>]]
    /\ UNCHANGED <<asked, verdict, jobs, permits, odd, abandoned>>

(* run_dh_job: a permit, then the job on another thread.  The job keeps    *)
(* the permit until it ends, whether or not somebody still waits for it.   *)
StartJob(a) ==
    /\ shake[a].at \in Computing /\ a \notin jobs /\ permits > 0
    /\ permits' = permits - 1
    /\ jobs' = jobs \cup {a}
    /\ UNCHANGED <<shake, asked, incoming, verdict, odd, abandoned>>

(* do_step2: only the client's own nonce can be checked yet *)
Step2(a, m) ==
    IF m.nonce # a \/ m.content \in {"pqSize", "factors", "fingerprints"}
    THEN [shake[a] EXCEPT !.at = "invalid", !.answer = <<>>]
    ELSE [shake[a] EXCEPT !.at = "dh", !.serverNonce = m.serverNonce, !.answer = <<>>]

(* do_step3: a refusal is checked like an answer, by its new nonce hash.   *)
(* Damage to what a hash covers changes what the hash is compared with.    *)
AnswerHash(m) == m.proof = <<m.half>>
Step3(a, m) ==
    IF \/ ~CheckNonces(a, m)
       \/ ~AnswerHash(m)
       \/ m.type = "dhOk" /\ m.content \in {"length", "padding", "unreadable", "trailing", "inner", "group", "time", "range"}
    THEN [shake[a] EXCEPT !.at = "invalid", !.answer = <<>>]
    ELSE IF m.type = "dhFail" THEN [shake[a] EXCEPT !.at = "refused", !.answer = <<>>]
    ELSE [shake[a] EXCEPT !.at = "gen", !.half = m.half, !.answer = <<>>]

FaultyRelease(a) == IF shake[a].at \in Computing THEN permits + 1 ELSE permits
Release(a) == permits + 1
JobEnds(a) ==
    /\ a \in jobs
    /\ jobs' = jobs \ {a}
    /\ permits' = Release(a)
    /\ shake' = CASE shake[a].at = "step2" -> [shake EXCEPT ![a] = Step2(a, @.answer[1])]
                  [] shake[a].at = "step3" -> [shake EXCEPT ![a] = Step3(a, @.answer[1])]
                  [] OTHER -> shake
    /\ asked' = IF shake'[a].at \in Waiting THEN asked \cup {a} ELSE asked
    /\ UNCHANGED <<incoming, verdict, odd, abandoned>>

(* The caller goes away: the connection closes, a started job goes on *)
FaultyDropPermit(a) == IF a \in jobs THEN permits + 1 ELSE permits
DropPermit(a) == permits
Abandon(a) ==
    /\ abandoned > 0 /\ shake[a].at \notin Ended
    /\ abandoned' = abandoned - 1
    /\ shake' = [shake EXCEPT ![a].at = "dropped", ![a].answer = <<>>]
    /\ asked' = asked \ {a}
    /\ incoming' = [incoming EXCEPT ![a] = <<>>]
    /\ permits' = DropPermit(a)
    /\ UNCHANGED <<verdict, jobs, odd>>

-----------------------------------------------------------------------------

Init ==
    /\ shake = [a \in Attempts |-> [at |-> "start", serverNonce |-> Nobody, half |-> Nobody, answer |-> <<>>]]
    /\ asked = {}
    /\ incoming = [a \in Attempts |-> <<>>]
    /\ verdict = [a \in Attempts |-> Undecided]
    /\ jobs = {}
    /\ permits = DhJobs
    /\ odd = MaxOddAnswers
    /\ abandoned = MaxAbandoned

Progress(a) == TelegramAnswers(a) \/ Step1(a) \/ Receive(a) \/ StartJob(a) \/ JobEnds(a)
Next == \E a \in Attempts : Progress(a) \/ Oddity(a) \/ Abandon(a)

Spec == Init /\ [][Next]_handshakeVars

-----------------------------------------------------------------------------

(* A connection that goes on with a key goes on with the key and the salt  *)
(* that Telegram holds for it: no repeated or damaged answer makes         *)
(* create_key return a key that Telegram did not accept                    *)
KeyAgreed ==
    \A a \in Attempts : shake[a].at = "done" =>
        verdict[a] = [said |-> "ok", key |-> KeyOf(a, shake[a].half), salt |-> SaltOf(a, shake[a].serverNonce)]

(* The caller hears of a retry only when Telegram asked for one: the       *)
(* checks are performed for failures too                                   *)
RetryIsTelegrams == \A a \in Attempts : shake[a].at = "retry" => verdict[a].said = "retry"

(* No more blocking jobs run than DH_JOBS allows, although callers go away *)
(* while their jobs run                                                    *)
JobsBounded == Cardinality(jobs) <= DhJobs

(* What every attempt must come to: none waits for a permit that is never  *)
(* given back                                                              *)
HasEnded(a) == shake[a].at \in Ended
=============================================================================
