------------------------------- MODULE ShowPage -------------------------------
(***************************************************************************)
(* src/ShowPage.js: the home tab.  It loads all goods on every focus and   *)
(* pull, and cuts its rows from them: the main kinds and the four goods    *)
(* that sell best (the advertisements, chosen at random, are left out).    *)
(* didBlur clears the goods and leaves the rows and the flag as they are.  *)
(*                                                                         *)
(* The network keeps the order of the requests.                            *)
(***************************************************************************)
EXTENDS Naturals, Sequences, SequencesExt

\* Tabs states what is assumed of the constants.
CONSTANTS Good,
          Sales,      \* g_salesamount of each good
          MainKind,   \* g_mainkind of each good
          Catalogue,  \* the lists of goods that the server may send
          None,       \* an undefined element
          NoAnswer, Failed,  \* a load without an answer yet, and one that failed
          Lossy,      \* the network may lose a request or an answer
          MaxFlight   \* bound of the model: requests under way at once

VARIABLES shown,      \* the tab has the focus
          loaded,     \* state.Is_LoadingFinsh
          goodsList,
          goodsKindList,
          hotGoodsList,
          refreshing, \* state.Is_Refresh: the timer of a second is running
          net,        \* the answers to the loads under way, oldest first
          broken      \* render threw

homeVars == <<shown, loaded, goodsList, goodsKindList, hotGoodsList, refreshing, net,
              broken>>

rows == <<goodsKindList, hotGoodsList>>

KindNames == {MainKind[g] : g \in Good}

TypeOK == /\ {shown, loaded, refreshing, broken} \subseteq BOOLEAN
          /\ goodsList \in Catalogue \cup {<<>>}
          /\ goodsKindList \in Seq(KindNames)
          /\ hotGoodsList \in Seq(Good \cup {None})
          /\ net \in Seq(Catalogue \cup {NoAnswer, Failed})

\* The application is started; the tab is mounted.
Init == /\ shown = FALSE
        /\ loaded = FALSE
        /\ goodsList = <<>>
        /\ goodsKindList = <<>>
        /\ hotGoodsList = <<>>
        /\ refreshing = FALSE
        /\ net = <<>>
        /\ broken = FALSE
------------------------------------------------------------------------------
(* The rows *)

\* _createGoodsKindList: a Map keeps its keys in the order of their first use.
KindsOf(list) ==
    FoldLeft(LAMBDA seen, g : IF Contains(seen, MainKind[g]) THEN seen ELSE Append(seen, MainKind[g]),
             <<>>, list)

\* Mutant: of goods that sell equally well the last is taken, and the first of
\* them removed.
BestOfLast(list) ==
    LET best == {i \in DOMAIN list : \A j \in DOMAIN list : Sales[list[i]] >= Sales[list[j]]}
    IN  IF list = <<>> THEN <<None, list>> ELSE <<list[Max(best)], RemoveAt(list, Min(best))>>

\* The first of the goods that sell best, and the list without it.
BestOf(list) ==
    LET best == {i \in DOMAIN list : \A j \in DOMAIN list : Sales[list[i]] >= Sales[list[j]]}
    IN  IF list = <<>> THEN <<None, list>> ELSE <<list[Min(best)], RemoveAt(list, Min(best))>>

\* _createHotGoodsList: four times the best of what is left.
HotGoodsOf(list) ==
    LET best[n \in 0..4] ==   \* the best n, and the others
            IF n = 0 THEN <<<<>>, list>>
            ELSE LET next == BestOf(best[n - 1][2]) IN <<Append(best[n - 1][1], next[1]), next[2]>>
    IN  best[4][1]

\* The rest of freshPageFunction, with the goods of a list; a row of the hot
\* goods that has an undefined element breaks the render.
Create(list) == /\ goodsKindList' = KindsOf(list)
                /\ hotGoodsList' = HotGoodsOf(list)
                /\ loaded' = TRUE
                /\ broken' = Contains(HotGoodsOf(list), None)
------------------------------------------------------------------------------
(* The tab *)

\* freshPageFunction up to its await.
Fresh == /\ loaded' = FALSE
         /\ Len(net) < MaxFlight
         /\ net' = Append(net, NoAnswer)

\* willFocus.
Focus == /\ ~ shown
         /\ shown' = TRUE
         /\ Fresh
         /\ UNCHANGED <<goodsList, rows, refreshing, broken>>

\* didBlur.
Blur == /\ shown
        /\ shown' = FALSE
        /\ goodsList' = <<>>
        /\ UNCHANGED <<loaded, rows, refreshing, net, broken>>

Rendered == shown /\ loaded

\* reFreshFunction.
PullToRefresh == /\ Rendered
                 /\ ~ refreshing
                 /\ refreshing' = TRUE
                 /\ UNCHANGED <<shown, loaded, goodsList, rows, net, broken>>

\* Its timer, on whatever tab the user is.
RefreshTimer == /\ refreshing
                /\ refreshing' = FALSE
                /\ Fresh
                /\ UNCHANGED <<shown, goodsList, rows, broken>>

\* fetchAllGoodsList with status 200.
LoadAnswered == /\ net # <<>>
                /\ Head(net) \in Catalogue
                /\ net' = Tail(net)
                /\ goodsList' = Head(net)
                /\ IF Head(net) = <<>> THEN UNCHANGED <<loaded, rows, broken>> ELSE Create(Head(net))
                /\ UNCHANGED <<shown, refreshing>>

\* Mutant: the goods that are there are not shown again.
LoadFailedWaits == /\ net # <<>>
                   /\ Head(net) = Failed
                   /\ net' = Tail(net)
                   /\ UNCHANGED <<shown, loaded, goodsList, rows, refreshing, broken>>

\* The same with status 404 or 500.
LoadFailed == /\ net # <<>>
              /\ Head(net) = Failed
              /\ net' = Tail(net)
              /\ IF goodsList = <<>> THEN UNCHANGED <<loaded, rows, broken>> ELSE Create(goodsList)
              /\ UNCHANGED <<shown, goodsList, refreshing>>

\* The server answers, or the request or its answer is lost (external).
Serve == \E i \in DOMAIN net :
            /\ net[i] = NoAnswer
            /\ \A j \in 1..(i - 1) : net[j] # NoAnswer
            /\ \E a \in Catalogue \cup (IF Lossy THEN {Failed} ELSE {}) : net' = [net EXCEPT ![i] = a]
            /\ UNCHANGED <<shown, loaded, goodsList, rows, refreshing, broken>>

\* The application is started again.
Restart == /\ shown' = FALSE
           /\ loaded' = FALSE
           /\ goodsList' = <<>>
           /\ goodsKindList' = <<>>
           /\ hotGoodsList' = <<>>
           /\ refreshing' = FALSE
           /\ net' = <<>>
           /\ broken' = FALSE
------------------------------------------------------------------------------
(* Properties *)

\* Four goods or more give four different hot goods, which sell no worse than
\* any other and stand in the order of their sales, whatever goods sell equally
\* well (ShowPage.js:183-208).
HotGoodsAreBest ==
    Rendered /\ Len(goodsList) >= 4 =>
        /\ Len(hotGoodsList) = 4
        /\ Cardinality(ToSet(hotGoodsList)) = 4
        /\ ToSet(hotGoodsList) \subseteq ToSet(goodsList)
        /\ \A i \in 1..3 : Sales[hotGoodsList[i]] >= Sales[hotGoodsList[i + 1]]
        /\ \A g \in ToSet(goodsList) \ ToSet(hotGoodsList) : Sales[g] <= Sales[hotGoodsList[4]]

\* The tab stays on "loading" only while a load is under way, or when it has no
\* goods (ShowPage.js:53-65).
LoadingHasReason == shown /\ ~ loaded => net # <<>> \/ goodsList = <<>>
==============================================================================
