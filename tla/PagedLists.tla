----------------------------- MODULE PagedLists -----------------------------
(***************************************************************************)
(* The lists that are read page by page with $sort, $skip and $limit, and  *)
(* a client who walks through one of them from page 1 to totalPages while  *)
(* its documents change.                                                   *)
(*                                                                         *)
(* The lists differ in the field that orders them, in whether a document   *)
(* can leave them, and in how an answer reads its rows and its total: in   *)
(* one query, one after the other, or side by side.  The lookups that join *)
(* other collections find documents that nothing deletes and are left out. *)
(***************************************************************************)
EXTENDS Naturals, FiniteSets

CONSTANTS
  Docs,    \* the documents that may be in the list
  Limits,  \* the page sizes that clients ask for: @Min(1)
  MaxKey   \* bounds the values of the field that orders the list

VARIABLES
  shape, \* what kind of list it is
  key,   \* key[d]: the field that orders the list, or 0 if d is not in it
  walk,  \* the client's place in the list, and what it has read
  past   \* history of the walk

pagVars == <<shape, key, walk, past>>

-----------------------------------------------------------------------------
(* The lists *)

\* order: "created" by time of creation, "touched" by a time that is set again,
\* "edited" by a field with any values, "ranked" by any values that are never equal;
\* reads: which query comes first.
Shapes == [order  : {"created", "touched", "edited", "ranked"},
           leaves : BOOLEAN,
           reads  : {"both", "rows", "total", "parallel"}]

Conversations  == [order |-> "touched", leaves |-> FALSE, reads |-> "parallel"]
ChatMessages   == [order |-> "created", leaves |-> FALSE, reads |-> "parallel"]
FoundMessages  == [order |-> "created", leaves |-> FALSE, reads |-> "total"]
BookingList    == [order |-> "edited",  leaves |-> TRUE,  reads |-> "rows"]
Notifications  == [order |-> "created", leaves |-> TRUE,  reads |-> "parallel"]
UserList       == [order |-> "edited",  leaves |-> TRUE,  reads |-> "parallel"]
Categories     == [order |-> "ranked",  leaves |-> TRUE,  reads |-> "rows"]
AdminServices  == [order |-> "edited",  leaves |-> FALSE, reads |-> "both"]
PublicServices == [order |-> "edited",  leaves |-> TRUE,  reads |-> "both"]
BarberServices == [order |-> "ranked",  leaves |-> TRUE,  reads |-> "both"]
AllBarbers     == [order |-> "created", leaves |-> FALSE, reads |-> "parallel"]
FoundBarbers   == [order |-> "edited",  leaves |-> TRUE,  reads |-> "parallel"]

Lists == {Conversations, ChatMessages, FoundMessages, BookingList, Notifications, UserList,
          Categories, AdminServices, PublicServices, BarberServices, AllBarbers, FoundBarbers}

-----------------------------------------------------------------------------
InList == {d \in Docs : key[d] > 0}
Before(d, e) == IF walk.asc THEN key[d] < key[e] ELSE key[d] > key[e]

\* Mutant of Orders: the rows are not sorted.
OrdersAny == {o \in [1 .. Cardinality(InList) -> InList] :
                \A i, j \in DOMAIN o : i # j => o[i] # o[j]}

\* $sort, or the order of an array: equal keys come in any order, another one for
\* each query.
Orders == {o \in [1 .. Cardinality(InList) -> InList] :
             \A i, j \in DOMAIN o : i < j => o[i] # o[j] /\ ~ Before(o[j], o[i])}

Tied == \E d, e \in InList : d # e /\ key[d] = key[e]

\* Mutant of Skip: pages are counted from 0.
SkipZero(page, limit) == page * limit

Skip(page, limit) == (page - 1) * limit

\* Mutant of TotalPages: the last, incomplete page is left out.
TotalPagesDown(total, limit) == total \div limit

\* Math.ceil(total / limit)
TotalPages(total, limit) == (total + limit - 1) \div limit

\* size is the number of documents the rows came from; seen and twice name those that
\* stay in their place and were shown, and shown on two pages.
WalkOps == {"idle", "ask", "rows", "total", "done"}
NoWalk == [op |-> "idle", page |-> 0, limit |-> 0, asc |-> FALSE, total |-> 0,
           size |-> 0, rows |-> {}, seen |-> {}, twice |-> {}]
Walk == [op : WalkOps, page : Nat, limit : Limits \cup {0}, asc : BOOLEAN, total : Nat,
         size : Nat, rows : SUBSET Docs, seen : SUBSET Docs, twice : SUBSET Docs]

\* steady: in the list, and in their place, since the walk began; pulled and pushed:
\* a document before another left, or came; tied: rows were read when keys were
\* equal; short: the last total was less than the list the last rows came from.
Past == [steady : SUBSET Docs, pulled : BOOLEAN, pushed : BOOLEAN, tied : BOOLEAN,
         short : BOOLEAN]
NoPast == [steady |-> {}, pulled |-> FALSE, pushed |-> FALSE, tied |-> FALSE, short |-> FALSE]

ASSUME PagedConstants ==
  /\ IsFiniteSet(Docs)
  /\ Limits \subseteq Nat \ {0}
  /\ MaxKey \in Nat

PagInit ==
  /\ shape \in Lists
  /\ key \in [Docs -> {0}]
  /\ walk = NoWalk
  /\ past = NoPast

-----------------------------------------------------------------------------
(* The walk *)

\* The client asks for the first page; only lists with sortOrder can be ascending.
Ask(limit, asc) ==
  /\ walk.op = "idle"
  /\ asc => shape.order = "edited"
  /\ walk' = [NoWalk EXCEPT !.op = "ask", !.page = 1, !.limit = limit, !.asc = asc]
  /\ past' = [NoPast EXCEPT !.steady = InList]
  /\ UNCHANGED <<shape, key>>

\* The rows of the page, in an order that the query may use.
RowsOf(o) ==
  LET skip == Skip(walk.page, walk.limit)
  IN  {o[i] : i \in {j \in DOMAIN o : skip < j /\ j <= skip + walk.limit}}

\* The walk when a page is answered: the client asks for the next one, or is done.
Answered(rows, total, size) ==
  LET last == walk.page >= TotalPages(total, walk.limit)
  IN  /\ walk' = [walk EXCEPT !.op = IF last THEN "done" ELSE "ask",
                              !.page = IF last THEN @ ELSE @ + 1,
                              !.total = 0, !.size = 0, !.rows = {},
                              !.seen = @ \cup (rows \cap past.steady),
                              !.twice = @ \cup (walk.seen \cap rows)]
      /\ past' = [past EXCEPT !.tied = @ \/ Tied, !.short = last /\ total < size]

\* $facet, or a slice of one document: rows and total of one moment.
ReadBoth ==
  /\ walk.op = "ask" /\ shape.reads = "both"
  /\ \E o \in Orders : Answered(RowsOf(o), Cardinality(InList), Cardinality(InList))
  /\ UNCHANGED <<shape, key>>

\* The rows are read first.
ReadRows ==
  /\ walk.op = "ask" /\ shape.reads \in {"rows", "parallel"}
  /\ \E o \in Orders : walk' = [walk EXCEPT !.op = "rows", !.rows = RowsOf(o),
                                            !.size = Cardinality(InList)]
  /\ past' = [past EXCEPT !.tied = @ \/ Tied]
  /\ UNCHANGED <<shape, key>>

CountAfter ==
  /\ walk.op = "rows"
  /\ Answered(walk.rows, Cardinality(InList), walk.size)
  /\ UNCHANGED <<shape, key>>

\* The total is counted first.
Count ==
  /\ walk.op = "ask" /\ shape.reads \in {"total", "parallel"}
  /\ walk' = [walk EXCEPT !.op = "total", !.total = Cardinality(InList)]
  /\ UNCHANGED <<shape, key, past>>

RowsAfter ==
  /\ walk.op = "total"
  /\ \E o \in Orders : Answered(RowsOf(o), walk.total, Cardinality(InList))
  /\ UNCHANGED <<shape, key>>

-----------------------------------------------------------------------------
(* The documents *)

Newest == IF InList = {} THEN 0
          ELSE CHOOSE k \in {key[d] : d \in InList} : \A d \in InList : key[d] <= k

\* d gets key k: whom it was before, and whom it is before now.
SetKey(d, k) ==
  /\ key' = [key EXCEPT ![d] = k]
  /\ past' = IF walk.op = "idle" THEN past
             ELSE LET others == InList \ {d}
                      before(x) == \E e \in others : IF walk.asc THEN x < key[e] ELSE x > key[e]
                  IN  [past EXCEPT !.steady = @ \ {d},
                                   !.pulled = @ \/ (d \in InList /\ before(key[d])
                                                    /\ ~ (shape.order = "touched" /\ k > 0)),
                                   !.pushed = @ \/ (k > 0 /\ before(k))]
  /\ walk' = [walk EXCEPT !.seen = @ \ {d}, !.twice = @ \ {d}]
  /\ UNCHANGED shape

\* The values that a new document, or a changed one, may have.
MayBe(k) == CASE shape.order = "edited" -> TRUE
              [] shape.order = "ranked" -> \A d \in InList : key[d] # k
              [] OTHER -> k = Newest + 1

\* A document is inserted, or enters the list because its fields match now.
Insert(d, k) ==
  /\ d \notin InList /\ MayBe(k)
  /\ SetKey(d, k)

\* createMessage sets lastMessageAt of its conversation.
Touch(d, k) ==
  /\ d \in InList /\ shape.order = "touched" /\ MayBe(k)
  /\ SetKey(d, k)

\* The field that orders the list is changed, or the array is replaced.
Move(d, k) ==
  /\ d \in InList /\ shape.order \in {"edited", "ranked"} /\ k # key[d] /\ MayBe(k)
  /\ SetKey(d, k)

\* A document is deleted, or does not match any more.
Leave(d) ==
  /\ d \in InList /\ shape.leaves
  /\ SetKey(d, 0)

-----------------------------------------------------------------------------
PagNext ==
  \/ \E limit \in Limits, asc \in BOOLEAN : Ask(limit, asc)
  \/ ReadBoth \/ ReadRows \/ CountAfter \/ Count \/ RowsAfter
  \/ \E d \in Docs :
       \/ \E k \in 1 .. MaxKey : Insert(d, k) \/ Touch(d, k) \/ Move(d, k)
       \/ Leave(d)

PagSpec == PagInit /\ [][PagNext]_pagVars

-----------------------------------------------------------------------------
(* Properties *)

\* Type invariant; no page after the first is asked for beyond the documents there can
\* be.
PagTypeOK ==
  /\ shape \in Lists
  /\ key \in [Docs -> 0 .. MaxKey]
  /\ walk \in Walk
  /\ walk.op # "idle" => walk.page \in {1} \cup 1 .. Cardinality(Docs) /\ walk.limit \in Limits
  /\ past \in Past
  /\ past.steady \subseteq InList
  /\ walk.twice \subseteq walk.seen /\ walk.seen \subseteq past.steady

\* Pages fit together.  A document that stays in its place is shown in one of them,
\* unless a document before it left, or keys were equal (two bookings at the same
\* time), or the total was counted before the rows and the list grew in between.  It
\* is shown on two pages only if another came before it meanwhile, or keys were equal.
\* New documents, and conversations that move to the front, hide nobody else.
PagesFitTogether ==
  /\ walk.op = "done" =>
       \A d \in past.steady \ walk.seen :
         \/ past.pulled
         \/ past.tied
         \/ past.short /\ shape.reads \in {"total", "parallel"}
  /\ walk.twice # {} => past.pushed \/ past.tied
=============================================================================
