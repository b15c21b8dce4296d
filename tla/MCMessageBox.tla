---------------------------- MODULE MCMessageBox ----------------------------
(* Instances of MessageBox for TLC *)
EXTENDS MessageBox

Event(key, pts, count, msg) ==
    [kind |-> "pts", key |-> key, pts |-> pts, count |-> count, msg |-> msg]

(* One channel: a message, a read marker that leaves the pts alone, and an
   edit after it *)
ChannelEvents == {Event(2, 2, 1, TRUE), Event(2, 2, 0, FALSE), Event(2, 3, 1, FALSE)}

(* The account alone: a message, an edit, and an update of the secret chats *)
AccountEvents == {Event(0, 2, 1, TRUE), Event(0, 3, 1, FALSE), Event(1, 2, 1, FALSE)}

(* An account and a channel whose updates account differences also carry *)
MixedEvents == {Event(0, 2, 1, TRUE), Event(2, 2, 1, FALSE)}

(* Two channels *)
TwoChannelEvents == {Event(2, 2, 1, TRUE), Event(3, 2, 1, FALSE)}
=============================================================================
