--------------------------------- MODULE Tabs ---------------------------------
(***************************************************************************)
(* The tab navigator of src/TabNavigator.js with its home tab and its tab  *)
(* of kinds.  A press on a main kind of the home tab opens the tab of      *)
(* kinds with the index of the kind among those of the home tab's goods;   *)
(* the tab of kinds uses it as an index of the list of main kinds that it  *)
(* loads itself.                                                           *)
(*                                                                         *)
(* "other" stands for the other tabs and for the pages above the tabs.     *)
(***************************************************************************)
EXTENDS Naturals, Sequences

CONSTANTS Good, Sales, MainKind, Catalogue, None, NoAnswer, Failed,  \* of the home tab
          Kinds,                                   \* the main kinds, in the server's order
          Barren, NotSet, Empty,                   \* of the tab of kinds
          Lossy,                                   \* the network may lose a request or an answer
          HomeFlight, KindsFlight                  \* bounds: requests of a tab under way at once

\* There are main kinds, and no list has a good twice.
ASSUME TabsAssumption == /\ Sales \in [Good -> Nat]
                         /\ Kinds \in Seq({MainKind[g] : g \in Good}) /\ Kinds # <<>>
                         /\ Catalogue \subseteq Seq(Good)
                         /\ \A list \in Catalogue :
                               \A i, j \in DOMAIN list : list[i] = list[j] => i = j
                         /\ Barren \subseteq DOMAIN Kinds
                         /\ None \notin Good
                         /\ {NoAnswer, Failed} \cap Catalogue = {} /\ NoAnswer # Failed
                         /\ {NotSet, Empty} \cap DOMAIN Kinds = {} /\ NotSet # Empty
                         /\ Lossy \in BOOLEAN
                         /\ {HomeFlight, KindsFlight} \subseteq Nat \ {0}

VARIABLES tab,    \* the tab in front
          asked,  \* the kind that was pressed on the home tab for this visit (history)
          homeLoaded, goodsList, goodsKindList, hotGoodsList, refreshing, homeNet, broken,
          kindsLoaded, hasKinds, smallKinds, pressIndex, param, kindsNet, kindsFailed

Home == INSTANCE ShowPage WITH shown <- (tab = "home"), loaded <- homeLoaded, net <- homeNet,
                               MaxFlight <- HomeFlight

KindsTab == INSTANCE ShowKindsPage WITH shown <- (tab = "kinds"), loaded <- kindsLoaded,
                                        net <- kindsNet, failed <- kindsFailed,
                                        MainKinds <- Len(Kinds), MaxFlight <- KindsFlight

homeState == <<homeLoaded, goodsList, goodsKindList, hotGoodsList, refreshing, homeNet, broken>>
kindsState == <<kindsLoaded, hasKinds, smallKinds, pressIndex, param, kindsNet, kindsFailed>>

vars == <<tab, asked, homeState, kindsState>>

AllTypesOK == /\ tab \in {"home", "kinds", "other"}
              /\ asked \in Home!KindNames \cup {NotSet}
              /\ Home!TypeOK
              /\ KindsTab!TypeOK

\* The user has logged in.
Init == /\ tab = "other"
        /\ asked = NotSet
        /\ Home!Init
        /\ KindsTab!Init
------------------------------------------------------------------------------
\* Every step but Restart is one of an application that is not broken.
OpenHome == /\ ~ broken
            /\ tab = "other"
            /\ tab' = "home"
            /\ Home!Focus
            /\ UNCHANGED <<asked, kindsState>>

OpenKinds == /\ ~ broken
             /\ tab = "other"
             /\ tab' = "kinds"
             /\ KindsTab!Focus(param)
             /\ asked' = NotSet
             /\ UNCHANGED homeState

HomeToKinds == /\ ~ broken
               /\ tab = "home"
               /\ tab' = "kinds"
               /\ Home!Blur
               /\ KindsTab!Focus(param)
               /\ asked' = NotSet

KindsToHome == /\ ~ broken
               /\ tab = "kinds"
               /\ tab' = "home"
               /\ KindsTab!Blur
               /\ Home!Focus
               /\ UNCHANGED asked

\* Another tab, or a page above the tabs.
Leave == /\ ~ broken
         /\ tab # "other"
         /\ tab' = "other"
         /\ \/ Home!Blur /\ UNCHANGED kindsState
            \/ KindsTab!Blur /\ UNCHANGED homeState
         /\ UNCHANGED asked

\* _onShowKindPress of the home tab.
PressKind(i) == /\ ~ broken
                /\ Home!Rendered
                /\ i \in DOMAIN goodsKindList
                /\ asked' = goodsKindList[i]
                /\ tab' = "kinds"
                /\ Home!Blur
                /\ KindsTab!Focus(i)

\* _onLeftFlatListBtnPress of the tab of kinds.
PressMain(k) == /\ ~ broken
                /\ asked' = NotSet
                /\ UNCHANGED <<tab, homeState>>
                /\ KindsTab!Press(k)

HomeSteps == /\ ~ broken
             /\ UNCHANGED <<tab, asked, kindsState>>
             /\ \/ Home!PullToRefresh
                \/ Home!RefreshTimer
                \/ Home!LoadAnswered
                \/ Home!LoadFailed
                \/ Home!Serve

KindsSteps == /\ ~ broken
              /\ UNCHANGED <<tab, asked, homeState>>
              /\ KindsTab!Answer \/ KindsTab!Serve

\* The render of the home tab threw, and the user starts the application again.
Restart == /\ broken
           /\ tab' = "other"
           /\ asked' = NotSet
           /\ Home!Restart
           /\ KindsTab!Restart

Next == \/ OpenHome
        \/ OpenKinds
        \/ HomeToKinds
        \/ KindsToHome
        \/ Leave
        \/ \E i \in DOMAIN Kinds : PressKind(i) \/ PressMain(i)
        \/ HomeSteps
        \/ KindsSteps
        \/ Restart

Spec == Init /\ [][Next]_vars
------------------------------------------------------------------------------
(* Properties *)

HotGoodsAreBest == Home!HotGoodsAreBest
LoadingHasReason == Home!LoadingHasReason /\ KindsTab!LoadingHasReason
SettledShowsHighlighted == KindsTab!SettledShowsHighlighted

\* The server sends goods in the order of its main kinds, and some of every kind.
ServersOrder == \A list \in Catalogue \ {<<>>} : Home!KindsOf(list) = Kinds

\* A visit that began with a press on the home tab shows, until another kind is
\* pressed, the kind of that press and no one else's small kinds, whatever
\* earlier visits left under way, if the server's two lists agree
\* (ShowPage.js:298-304, ShowKindsPage.js:55-78).
OpensPressedKind ==
    ServersOrder /\ KindsTab!Rendered /\ kindsNet = <<>> /\ ~ kindsFailed /\ asked # NotSet =>
        /\ Kinds[pressIndex] = asked
        /\ smallKinds \in {pressIndex, Empty}
==============================================================================
