------------------------------- MODULE Paging -------------------------------
(***************************************************************************)
(* The listings of grammers-client: IterBuffer (iter_buffer.rs) and the    *)
(* iterators over messages, search results, dialogs, participants and      *)
(* profile photos that are built on it.  A call of next() gives the first  *)
(* buffered item, or asks Telegram for the next page; the caller may drop  *)
(* the call at any of its awaits, and may repeat a call that failed.       *)
(***************************************************************************)
EXTENDS Integers, Sequences, SequencesExt

CONSTANTS
    Histories,      \* what may be listed: sets of identifiers above 0
    Limits,         \* limit(): how many items the caller wants
    MaxListed,      \* more than any listing has: no limit
    MaxPage,        \* MAX_LIMIT, MAX_PARTICIPANT_LIMIT, MAX_PHOTO_LIMIT
    MaxPageFaults   \* failed requests and writes, and calls that are dropped

VARIABLES
    kind,       \* which iterator
    history,    \* what Telegram holds
    iter,       \* the iterator: buffer, limit, fetched, last_chunk, total
    query,      \* its request: offset, min_id and limit
    step,       \* where a call of next or total is, and the answer it has
    given,      \* the items next() has returned
    ended,      \* next() has returned None
    cut,        \* a call was given up when it had a page that is not asked for again
    again,      \* a reverse listing repeats its first request, or a global search
                \* one whose page it has buffered
    pageFaults

pagingVars == <<kind, history, iter, query, step, given, ended, cut, again, pageFaults>>

Kinds == {"messages", "reverse", "search", "global", "dialogs", "participants", "photos",
          "chat", "forbidden"}
ByPosition == kind \in {"participants", "photos"}
SmallGroup == kind \in {"chat", "forbidden"}
NoAnswer == [items |-> <<>>, users |-> 0, whole |-> FALSE]
Idle == [pc |-> "idle", op |-> "none", answer |-> NoAnswer]
Fault == pageFaults > 0 /\ pageFaults' = pageFaults - 1

Few(a, b) == IF a < b THEN a ELSE b
Taken(s, n) == SubSeq(s, 1, Few(n, Len(s)))
Descending(S) == SetToSortSeq(S, LAMBDA a, b : a > b)
Ascending(S) == SetToSortSeq(S, LAMBDA a, b : a < b)
(* The identifier of an item.  The messages that a global search finds are *)
(* those of two chats in turn, and each chat numbers its own               *)
Id(i) == IF kind = "global" THEN (i + 1) \div 2 ELSE i
(* What a listing should give, in the order it should give it *)
Listing ==
    CASE kind = "reverse" -> Ascending(history)
      [] kind = "forbidden" -> Taken(Descending(history), 1)
      [] OTHER -> Descending(history)

-----------------------------------------------------------------------------
(* Telegram's answers.  Pages of messages are counted in identifiers, so   *)
(* that those of deleted messages make a page short.  A full page of       *)
(* participants may leave one out that its users still name; a small group *)
(* is given whole, and one that the user may not see as the user alone.    *)

Below(h) == {i \in history : h = 0 \/ i < h}
InWindow(rest) == SelectSeq(rest, LAMBDA i : i > rest[1] - query.limit)
From(n) == SubSeq(Listing, n + 1, Len(Listing))
Pages ==
    CASE kind = "messages" -> {InWindow(Descending(Below(query.offset)))}
      [] kind = "reverse" -> {Taken(Ascending({i \in history : i > query.minId}), query.limit)}
      [] kind \in {"search", "global", "dialogs"} -> {Taken(Descending(Below(query.offset)), query.limit)}
      [] ByPosition -> {Taken(From(query.offset), query.limit)}
      [] SmallGroup -> {Listing}
Answers ==
    LET Answer(p, u, w) == [items |-> p, users |-> u, whole |-> w]
    IN  {Answer(p, Len(p), w) : p \in Pages, w \in {FALSE}}
        \cup {Answer(p, Len(p), TRUE) : p \in {q \in Pages : kind # "participants" /\ Len(q) = Len(Listing)}}
        \cup {Answer(Front(p), Len(p), FALSE) :
                p \in {q \in Pages : kind = "participants" /\ Len(q) = query.limit /\ Len(q) > 1}}

-----------------------------------------------------------------------------
(* IterBuffer *)

LimitReached == iter.fetched >= iter.limit
AtEnd == LimitReached \/ (iter.buffer = <<>> /\ iter.last)
DetermineLimit == IF iter.fetched < iter.limit THEN Few(iter.limit - iter.fetched, MaxPage) ELSE 1
(* pop_item, which ends the call of next *)
PopItem(it) ==
    IF it.buffer = <<>>
    THEN iter' = [it EXCEPT !.last = @ \/ SmallGroup] /\ ended' = TRUE /\ UNCHANGED given
    ELSE /\ iter' = [it EXCEPT !.buffer = Tail(@), !.fetched = @ + 1,
                               !.last = @ \/ (SmallGroup /\ Len(it.buffer) = 1)]
         /\ given' = Append(given, Head(it.buffer)) /\ UNCHANGED ended

(* next() and what next_raw settles without a request.  A small group that *)
(* has been given becomes ParticipantIterInner::Empty                      *)
ReturnNone ==
    /\ step = Idle /\ AtEnd /\ ~ended /\ ended' = TRUE
    /\ UNCHANGED <<kind, history, iter, query, step, given, cut, again, pageFaults>>
ReturnBuffered ==
    /\ step = Idle /\ ~AtEnd /\ iter.buffer # <<>> /\ PopItem(iter)
    /\ UNCHANGED <<kind, history, query, step, cut, again, pageFaults>>
(* A reverse listing starts above the last message that was given *)
Request ==
    IF kind # "reverse" THEN [query EXCEPT !.limit = DetermineLimit]
    ELSE [limit |-> DetermineLimit, minId |-> query.offset,
          offset |-> IF query.offset = 0 THEN 1 ELSE query.offset]
Ask ==
    /\ step = Idle /\ ~AtEnd /\ iter.buffer = <<>>
    /\ query' = Request /\ step' = [Idle EXCEPT !.pc = "invoke", !.op = "next"]
    /\ UNCHANGED <<kind, history, iter, given, ended, cut, again, pageFaults>>
(* total(): members and photos fill the buffer, which must be empty; the   *)
(* others ask for one item and keep only the count                         *)
AskTotal ==
    /\ step = Idle /\ ~iter.total /\ ~ended /\ ~(SmallGroup /\ iter.last)
    /\ IF (ByPosition \/ SmallGroup) /\ iter.buffer # <<>>
       THEN step' = [Idle EXCEPT !.pc = "panic"] /\ UNCHANGED query
       ELSE /\ query' = [query EXCEPT !.limit = IF ByPosition THEN DetermineLimit
                                                ELSE IF kind = "search" THEN 0 ELSE 1]
            /\ step' = [Idle EXCEPT !.pc = "invoke", !.op = "total"]
    /\ UNCHANGED <<kind, history, iter, given, ended, cut, again, pageFaults>>
Counts == step.op = "total" /\ ~ByPosition /\ ~SmallGroup
Count ==
    /\ step.pc = "invoke" /\ Counts
    /\ iter' = [iter EXCEPT !.total = TRUE] /\ step' = Idle
    /\ UNCHANGED <<kind, history, query, given, ended, cut, again, pageFaults>>

(* fill_buffer: the page arrives, and whether it is the last one is known. *)
(* Its items reach the buffer after further awaits, for peers and, for     *)
(* dialogs, for the positions of their channels                            *)
FaultyIsLast(a) == a.whole \/ Len(a.items) < query.limit
IsLast(a) ==
    CASE kind \in {"messages", "search", "global"} ->
           a.whole \/ a.items = <<>> \/ Id(a.items[1]) <= query.limit
      [] kind = "reverse" -> a.whole \/ a.items = <<>>
      [] kind \in {"dialogs", "photos"} -> a.whole \/ Len(a.items) < query.limit
      [] kind = "participants" -> a.users < query.limit
      [] SmallGroup -> FALSE
Arrive ==
    \E a \in Answers :
      /\ step.pc = "invoke" /\ ~Counts
      /\ step' = [step EXCEPT !.pc = "fill", !.answer = a]
      /\ iter' = [iter EXCEPT !.last = IsLast(a), !.total = @ \/ ~(kind = "participants" \/ SmallGroup)]
      /\ query' = IF kind = "participants" THEN [query EXCEPT !.offset = @ + Len(a.items)] ELSE query
      /\ UNCHANGED <<kind, history, given, ended, cut, again, pageFaults>>
(* The offset of the next request *)
FaultyOffset(items) == IF iter.last \/ items = <<>> THEN query.offset ELSE query.offset + Len(items)
Offset(items) ==
    IF iter.last \/ items = <<>> \/ kind = "participants" \/ SmallGroup THEN query.offset
    ELSE IF kind = "photos" THEN query.offset + Len(items)
    ELSE items[Len(items)]
Filled == [iter EXCEPT !.buffer = @ \o step.answer.items, !.total = kind # "forbidden"]
(* A global search looks up the chat of the last message before it moves   *)
(* its offset, when the page is in the buffer already                      *)
LooksUp == kind = "global" /\ step.pc = "fill" /\ ~iter.last /\ step.answer.items # <<>>
LookUp ==
    /\ LooksUp /\ iter' = Filled /\ step' = [step EXCEPT !.pc = "lookup"]
    /\ UNCHANGED <<kind, history, query, given, ended, cut, again, pageFaults>>
Fill ==
    LET items == step.answer.items
        filled == IF step.pc = "lookup" THEN iter ELSE Filled
    IN  /\ step.pc \in {"fill", "lookup"} /\ ~LooksUp /\ step' = Idle
        /\ query' = [query EXCEPT !.offset = Offset(items)]
        /\ IF step.op = "next" THEN PopItem(filled) ELSE iter' = filled /\ UNCHANGED <<given, ended>>
        /\ UNCHANGED <<kind, history, cut, again, pageFaults>>

(* The request fails, a position cannot be stored, or the caller drops its *)
(* call at an await; there is none between the page and the buffer of      *)
(* photos                                                                  *)
GivenUp ==
    /\ step.pc \in (IF kind = "photos" THEN {"invoke"} ELSE {"invoke", "fill", "lookup"}) /\ Fault
    /\ step' = Idle
    /\ cut' = (cut \/ (step.pc = "fill" /\ step.answer.items # <<>>
                        /\ (iter.last \/ kind = "participants")))
    /\ again' = (again \/ (kind = "reverse" /\ query.minId = 0 /\ step.op = "next")
                        \/ step.pc = "lookup")
    /\ UNCHANGED <<kind, history, iter, query, given, ended>>

Init ==
    /\ kind \in Kinds /\ history \in Histories
    /\ \E n \in Limits :
         iter = [buffer |-> <<>>, fetched |-> 0, last |-> FALSE, total |-> FALSE,
                 limit |-> IF SmallGroup THEN MaxListed ELSE n]
    /\ query = [offset |-> 0, minId |-> 0, limit |-> 0] /\ step = Idle
    /\ given = <<>> /\ ended = FALSE /\ cut = FALSE /\ again = FALSE /\ pageFaults = MaxPageFaults

Next ==
    \/ ReturnNone \/ ReturnBuffered \/ Ask \/ AskTotal \/ Count \/ Arrive \/ LookUp \/ Fill
    \/ GivenUp

Spec == Init /\ [][Next]_pagingVars

-----------------------------------------------------------------------------

(* An iterator gives its items in the order of the listing and none twice, *)
(* whatever pages Telegram makes, calls that fail and calls the caller     *)
(* drops: the offset of every request follows what has been given.  Only a *)
(* global search given up while it looks up a chat repeats a page.         *)
GivenOnce ==
    \A i, j \in 1 .. Len(given) :
      i < j => \/ IF kind = "reverse" THEN given[i] < given[j] ELSE given[i] > given[j]
               \/ kind = "global" /\ again

(* No item is left out: next() answers None only after every item, or as   *)
(* many as limit() asked for.  It is so for calls that failed and were     *)
(* repeated, except where a call was given up between the arrival of a     *)
(* page and its buffering, and for the first request of a reverse listing. *)
(* A global search may end early: NoneWhenNothingIsLeft.                   *)
NothingSkipped ==
    ~cut /\ ~again =>
      /\ IsPrefix(given, Listing)
      /\ ended /\ kind # "global" => Len(given) = Few(iter.limit, Len(Listing))

(* "Returns None if the limit is reached or there are no messages left",   *)
(* for a global search without any fault                                   *)
NoneWhenNothingIsLeft ==
    kind = "global" /\ ended /\ pageFaults = MaxPageFaults => Len(given) = Few(iter.limit, Len(Listing))
=============================================================================
