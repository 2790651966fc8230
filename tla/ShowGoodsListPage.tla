--------------------------- MODULE ShowGoodsListPage ---------------------------
(***************************************************************************)
(* src/ShowGoodsListPage.js: the goods found by a search, with buttons to  *)
(* sort them and to leave out those that are sold out.                     *)
(*                                                                         *)
(* The server sorts and filters the list that the page sends it.  What is  *)
(* sent is not state.goodsList but one of two module-level lists,          *)
(* OriginGoodsList and OriginExistedGoodsList, which outlive the page.     *)
(* While a request is under way the page shows LoadingPage, which has no   *)
(* buttons; a second tap may still come before that is painted.            *)
(*                                                                         *)
(* A list is known by the search that found it, by whether it was filtered *)
(* and by its order.  showGoodsList is the head of goodsList, cut from it  *)
(* wherever Is_LoadingFinsh is set; goodsList stands for both.             *)
(***************************************************************************)
EXTENDS Naturals

CONSTANTS Query,        \* what may be searched for; also a small kind
          AllGoods,     \* the search behind the "hot goods" of the home tab
          NothingFound, \* the queries that find no goods
          SoldOut,      \* the queries whose goods are all sold out
          NoList,       \* the -1 of goodsList and of the two global lists
          Failed,       \* the globals of apiHelper after a failure
          Slot,         \* bound of the model: the requests under way at once
          Free          \* an unused slot

ASSUME GoodsListAssumption == /\ AllGoods \in Query
                              /\ NothingFound \cup SoldOut \subseteq Query

References == {"sales", "price"}

Unsorted == <<"none", "none">>

List == [query : Query, stocked : BOOLEAN,
         order : {Unsorted} \cup (References \X {"up", "down"})]

\* A request carries the list it will be answered with, NoList if it was sent
\* without one; `more` counts the presses that are to follow it; `own` holds
\* until the page that sent it is unmounted.
Request == [kind : {"search", "sort", "stock"}, goods : List \cup {NoList},
            more : 0..2, own : BOOLEAN]

ASSUME DistinctValues == /\ NoList \notin List
                         /\ Failed \notin List \cup {NoList}
                         /\ Free \notin Request

VARIABLES open,       \* the page is mounted
          query,      \* what was searched for last (state.searchContent)
          loaded,     \* state.Is_LoadingFinsh
          painted,    \* the list and its buttons are on the screen
          goodsList,  \* state.goodsList (and state.showGoodsList)
          button,     \* state.saleBtnCommand and state.priceBtnCommand
          stock,      \* state.stockBtnCommand
          origin,     \* the global OriginGoodsList
          existed,    \* the global OriginExistedGoodsList
          register,   \* the globals of apiHelper: the goods or the failure
          req,        \* req[s]: the request under way in slot s
          failed,     \* a request of this visit has failed
          hurried,    \* a button was pressed before LoadingPage was painted
          disturbed,  \* in this visit an answer to another page arrived
          overtaken   \* in this visit an answer to an earlier visit arrived

page    == <<open, query, loaded, goodsList, button, stock>>
globals == <<origin, existed, register>>
history == <<failed, hurried, disturbed, overtaken>>
vars    == <<page, painted, globals, req, history>>

Found(q) == [query |-> q, stocked |-> FALSE, order |-> Unsorted]

Stocked(l) == IF l = NoList THEN NoList ELSE [l EXCEPT !.stocked = TRUE]

Sorted(l, order) == IF l = NoList THEN NoList ELSE [l EXCEPT !.order = order]

\* length == 0, which is false of a list that is not there.
Empty(l) == /\ l # NoList
            /\ l.query \in NothingFound \/ (l.stocked /\ l.query \in SoldOut)

TypeOK == /\ {open, loaded, painted, failed, hurried, disturbed, overtaken} \subseteq BOOLEAN
          /\ query \in Query
          /\ goodsList \in List \cup {NoList}
          /\ button \in [References -> {"normal", "up", "down"}]
          /\ stock \in {"all", "exist"}
          /\ {origin, existed} \subseteq List \cup {NoList}
          /\ register \in List \cup {Failed}
          /\ req \in [Slot -> Request \cup {Free}]

\* What the constructor and freshPageFunction set.
Fresh == /\ loaded' = FALSE
         /\ goodsList' = NoList
         /\ button' = [r \in References |-> "normal"]
         /\ stock' = "all"

Init == /\ open = FALSE
        /\ query = AllGoods
        /\ loaded = FALSE
        /\ painted = FALSE
        /\ goodsList = NoList
        /\ button = [r \in References |-> "normal"]
        /\ stock = "all"
        /\ origin = NoList
        /\ existed = NoList
        /\ register = Failed
        /\ req = [s \in Slot |-> Free]
        /\ failed = FALSE
        /\ hurried = FALSE
        /\ disturbed = FALSE
        /\ overtaken = FALSE

OwnPending == \E s \in Slot : req[s] # Free /\ req[s].own
------------------------------------------------------------------------------
(* Coming and going *)

\* r is sent from one of the slots that are free in `slots`.
Send(slots, r) == \E s \in Slot : slots[s] = Free /\ req' = [slots EXCEPT ![s] = r]

Search(q, more) == [kind |-> "search", goods |-> Found(q), more |-> more, own |-> TRUE]

\* componentDidMount: freshPageFunction up to its first request.  The hot goods
\* are all goods, on which the sale button is then pressed twice.
Open(q) == /\ ~ open
           /\ open' = TRUE
           /\ query' = q
           /\ Fresh
           /\ failed' = FALSE
           /\ hurried' = FALSE
           /\ disturbed' = FALSE
           /\ overtaken' = FALSE
           /\ Send(req, Search(q, IF q = AllGoods THEN 2 ELSE 0))
           /\ UNCHANGED <<painted, globals>>

\* Back to the home tab: the page is unmounted.  What its handlers still do is
\* to write globals.
Leave == /\ open
         /\ open' = FALSE
         /\ painted' = FALSE
         /\ Fresh
         /\ req' = [s \in Slot |-> IF req[s] = Free THEN Free ELSE [req[s] EXCEPT !.own = FALSE]]
         /\ UNCHANGED <<query, globals, history>>

\* The screen catches up with the state.
Paint == /\ open
         /\ painted # loaded
         /\ painted' = loaded
         /\ UNCHANGED <<page, globals, req, history>>
------------------------------------------------------------------------------
(* The buttons *)

\* A press reaches what is on the screen, which may be behind the state.
Touched == /\ open
           /\ painted
           /\ hurried' = (hurried \/ ~ loaded)
           /\ UNCHANGED <<open, painted, globals, failed, disturbed, overtaken>>

\* searchFromSearchHeader up to its request.
SearchFromSearchHeader(q) == /\ Touched
                             /\ query' = q
                             /\ Fresh
                             /\ Send(req, Search(q, 0))

\* The list a sort button works on.
Source == IF stock = "all" THEN origin ELSE existed

\* The next command of a sort button.
NextCommand(command, goods) ==
    CASE command = "up"   -> "down"
      [] command = "down" -> "up"
      [] OTHER            -> IF Empty(goods) THEN "normal" ELSE "up"

\* Mutant: the status in the globals is not looked at.
SortUnchecked(reference, goods, slots, more) ==
    LET command == NextCommand(button[reference], goods)
    IN  /\ button' = [r \in References |-> IF r = reference THEN command ELSE "normal"]
        /\ IF command = "normal"
           THEN goodsList' = register' /\ loaded' = TRUE /\ req' = slots
           ELSE /\ goodsList' = NoList
                /\ loaded' = FALSE
                /\ Send(slots, [kind |-> "sort", goods |-> Sorted(goods, <<reference, command>>),
                                more |-> more, own |-> TRUE])

\* _sortBySaleBtn or _sortByPriceBtn on the list `goods`, up to the request.
\* Without a command there is no request, and what getAPI() returns is what the
\* globals hold.
Sort(reference, goods, slots, more) ==
    LET command == NextCommand(button[reference], goods)
    IN  /\ button' = [r \in References |-> IF r = reference THEN command ELSE "normal"]
        /\ IF command = "normal"
           THEN /\ goodsList' = IF register' = Failed THEN NoList ELSE register'
                /\ loaded' = (register' # Failed)
                /\ req' = slots
           ELSE /\ goodsList' = NoList
                /\ loaded' = FALSE
                /\ Send(slots, [kind |-> "sort", goods |-> Sorted(goods, <<reference, command>>),
                                more |-> more, own |-> TRUE])

PressSort(reference) == /\ Touched
                        /\ Sort(reference, Source, req, 0)
                        /\ UNCHANGED <<query, stock>>

\* Mutant: the sort buttons keep their commands.
CheckByStockKeepsOrder ==
    /\ Touched
    /\ IF stock = "exist"
       THEN /\ goodsList' = origin
            /\ stock' = "all"
            /\ loaded' = (origin # NoList)
            /\ UNCHANGED req
       ELSE /\ goodsList' = NoList
            /\ loaded' = FALSE
            /\ Send(req, [kind |-> "stock", goods |-> Stocked(origin), more |-> 0, own |-> TRUE])
            /\ UNCHANGED stock
    /\ UNCHANGED <<query, button>>

\* _checkByStockBtn: from "exist" back to all goods at once, from "all" up to
\* the request.
CheckByStock == /\ Touched
                /\ button' = [r \in References |-> "normal"]
                /\ IF stock = "exist"
                   THEN /\ goodsList' = origin
                        /\ stock' = "all"
                        /\ loaded' = (origin # NoList)
                        /\ UNCHANGED req
                   ELSE /\ goodsList' = NoList
                        /\ loaded' = FALSE
                        /\ Send(req, [kind |-> "stock", goods |-> Stocked(origin),
                                      more |-> 0, own |-> TRUE])
                        /\ UNCHANGED stock
                /\ UNCHANGED query
------------------------------------------------------------------------------
(* The handlers after their requests *)

Freed(s) == [req EXCEPT ![s] = Free]

\* The request fails, or brings the list it was sent for.  A request sent
\* without a list always fails.
Outcome(s, ok) == /\ req[s] # Free
                  /\ ok => req[s].goods # NoList
                  /\ register' = IF ok THEN req[s].goods ELSE Failed
                  /\ failed' = (failed \/ (req[s].own /\ ~ ok))
                  /\ overtaken' = (overtaken \/ (open /\ ~ req[s].own))
                  /\ UNCHANGED <<open, query, painted, hurried, disturbed>>

\* Mutant: Is_LoadingFinsh is not set.
ShowNoFlag(s, ok) == /\ goodsList' = IF ok THEN req[s].goods ELSE goodsList
                     /\ req' = Freed(s)
                     /\ UNCHANGED <<loaded, button>>

\* goodsList takes the answer, if there is one, and the page is shown if there
\* is a list, of this or of an earlier answer.
Show(s, ok) == /\ goodsList' = IF ok THEN req[s].goods ELSE goodsList
               /\ loaded' = (loaded \/ goodsList' # NoList)
               /\ req' = Freed(s)
               /\ UNCHANGED button

\* Of a page that is unmounted only the globals are changed.
Ignore(s) == req' = Freed(s) /\ UNCHANGED <<loaded, goodsList, button>>

\* The second press for the hot goods of a page that is unmounted: its state no
\* longer changes, so it asks for the order of the first press again.
PressInVain(s) == /\ req' = [req EXCEPT ![s] = [kind |-> "sort", more |-> 0, own |-> FALSE,
                                               goods |-> Sorted(origin, <<"sales", "up">>)]]
                  /\ UNCHANGED <<loaded, goodsList, button>>

\* fetchAllGoodsList, fetchGoodsListByString or fetchGoodsListBySmallKind and
\* the rest of the handler; for the hot goods that is the first press of the
\* sale button, whether or not the goods were loaded.  If it makes no request the
\* second press follows at once and changes nothing.
SearchAnswered(s, ok) ==
    /\ Outcome(s, ok)
    /\ req[s].kind = "search"
    /\ origin' = IF ok THEN req[s].goods ELSE origin
    /\ \/ req[s].own /\ req[s].more = 0 /\ Show(s, ok)
       \/ req[s].own /\ req[s].more # 0 /\ Sort("sales", origin', Freed(s), 1)
       \/ ~ req[s].own /\ Ignore(s)
    /\ UNCHANGED <<stock, existed>>

\* fetchGoodsListBySortBtnCommand after its request and the rest of the handler;
\* for the hot goods that may be the second press of the sale button.
SortAnswered(s, ok) ==
    /\ Outcome(s, ok)
    /\ req[s].kind = "sort"
    /\ \/ req[s].own /\ req[s].more = 0 /\ Show(s, ok)
       \/ req[s].own /\ req[s].more # 0 /\ Sort("sales", Source, Freed(s), 0)
       \/ ~ req[s].own /\ req[s].more = 0 /\ Ignore(s)
       \/ ~ req[s].own /\ req[s].more # 0 /\ PressInVain(s)
    /\ UNCHANGED <<stock, origin, existed>>

\* fetchGoodsListByStockBtnCommand after its request and the rest of the
\* handler, which sets the button whether or not the request succeeded.
StockAnswered(s, ok) ==
    /\ Outcome(s, ok)
    /\ req[s].kind = "stock"
    /\ existed' = IF ok THEN req[s].goods ELSE existed
    /\ stock' = IF req[s].own THEN "exist" ELSE stock
    /\ IF req[s].own THEN Show(s, ok) ELSE Ignore(s)
    /\ UNCHANGED origin

Answered(s) == \E ok \in BOOLEAN : \/ SearchAnswered(s, ok)
                                   \/ SortAnswered(s, ok)
                                   \/ StockAnswered(s, ok)

\* A request of another page is answered; the globals of apiHelper hold its
\* goods, or its failure.  An answer without goods counts as an empty list.
Elsewhere == /\ register' \in {Found(q) : q \in Query} \cup {Failed}
             /\ disturbed' = (disturbed \/ open)
             /\ UNCHANGED <<page, painted, origin, existed, req, failed, hurried, overtaken>>
------------------------------------------------------------------------------
Next == \/ \E q \in Query : Open(q)
        \/ \E q \in Query \ {AllGoods} : SearchFromSearchHeader(q)
        \/ Leave
        \/ Paint
        \/ \E reference \in References : PressSort(reference)
        \/ CheckByStock
        \/ \E s \in Slot : Answered(s)
        \/ Elsewhere

Spec == Init /\ [][Next]_vars
------------------------------------------------------------------------------
(* Properties *)

\* The list that the search, the stock button and the sort buttons on the screen
\* ask for.
Asked == [query |-> query, stocked |-> stock = "exist",
          order |-> IF button["sales"] # "normal" THEN <<"sales", button["sales"]>>
                    ELSE IF button["price"] # "normal" THEN <<"price", button["price"]>>
                    ELSE Unsorted]

ShowsAsked == goodsList = Asked \/ (Empty(goodsList) /\ Empty(Asked))

\* In a visit without double taps, and while no answer to an earlier visit comes
\* in, the list on the page is of the last search, filtered and sorted as the
\* buttons say; not so for the hot goods after a failure, nor for an empty list
\* after another page's answer (ShowGoodsListPage.js:374-508).
ListMatchesButtons ==
    /\ open /\ loaded
    /\ ~ hurried /\ ~ overtaken
    /\ failed => query # AllGoods
    /\ disturbed => ~ Empty(Asked)
    => ShowsAsked

\* LoadingPage, which has no buttons, stays only for a request that is under way,
\* after one that failed, or where a sort button that made no request found the
\* failure of another (ShowGoodsListPage.js:99-144, 417, 466, 502).
LoadingHasReason ==
    open /\ ~ loaded => \/ OwnPending
                        \/ failed
                        \/ overtaken
                        \/ disturbed /\ Empty(Source)
==============================================================================
