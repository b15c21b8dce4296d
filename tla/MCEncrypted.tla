----------------------------- MODULE MCEncrypted ----------------------------
(* Instances of Encrypted for TLC *)
EXTENDS Encrypted, TLC

CONSTANTS r1

(* The local clock is right, slow or fast *)
Clocked == {-64, 0, 48}

Bounds == [updates |-> 0, containers |-> 0, services |-> 0, resends |-> 0, reorders |-> 0, whims |-> 0,
           ticks |-> 0, jumps |-> 0, timer |-> FALSE, batch |-> 1, salt |-> 5, requests |-> Requests,
           size |-> 2]
(* Replays: more updates than the window holds, late, again and in containers *)
Replays == {[Bounds EXCEPT !.updates = 3, !.containers = 1, !.resends = 1, !.reorders = 1, !.ticks = 2,
                          !.batch = 9, !.requests = {}]}
(* A wrong clock that jumps *)
Clocks == {[Bounds EXCEPT !.jumps = 1, !.ticks = 1, !.reorders = 1]}
(* Salts that are unknown or change, and a request for them that fails *)
Rotation == {[Bounds EXCEPT !.ticks = 1, !.whims = 1, !.salt = n] : n \in {0, 5}}
(* Acknowledgements that come one by one or in batches, and requests that leave
   no room for them *)
Acks == {[Bounds EXCEPT !.updates = 1, !.services = 1, !.batch = n, !.timer = TRUE, !.size = k] :
            n \in {1, 2}, k \in {2, 5}}
Scenarios == Replays \cup Clocks \cup Rotation \cup Acks
=============================================================================
