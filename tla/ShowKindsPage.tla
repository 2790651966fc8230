---------------------------- MODULE ShowKindsPage ----------------------------
(***************************************************************************)
(* src/ShowKindsPage.js: the tab of kinds.  A list of the main kinds, one  *)
(* of which is highlighted, and the small kinds of that one.  A focus      *)
(* loads the main kinds and then the small kinds; a press on a main kind   *)
(* loads its small kinds.  The home tab may ask for a kind by its index,   *)
(* in the parameter pressIndex of the tab, which stays set and is applied  *)
(* by every focus.                                                         *)
(*                                                                         *)
(* Indices count from 1.  The main kinds on the server do not change.  The *)
(* network keeps the order of the requests.                                *)
(***************************************************************************)
EXTENDS Naturals, Sequences, SequencesExt

\* Tabs states what is assumed of the constants.
CONSTANTS MainKinds,  \* the number of main kinds
          Barren,     \* those that have no small kinds
          NotSet,     \* the -1 of G_scList, and an undefined parameter
          Empty,      \* an empty list
          Lossy,      \* the network may lose a request or an answer
          MaxFlight   \* bound of the model: requests under way at once

VARIABLES shown,      \* the tab has the focus
          loaded,     \* state.Is_LoadingFinsh
          hasKinds,   \* state.KindsInfo is not empty
          smallKinds, \* state.G_scList: whose small kinds it has
          pressIndex, \* state.PressIndex
          param,      \* the parameter pressIndex
          net,        \* the requests under way, oldest first
          failed      \* a request failed since small kinds were last loaded

kindsVars == <<shown, loaded, hasKinds, smallKinds, pressIndex, param, net, failed>>

Index == 1..MainKinds

\* loadKindsInfo of freshPageFunction, and loadSmallKindByMainKind of it or of a press.
Request == [op : {"kinds", "small", "pressed"}, of : Index, answer : {"none", "SUCCESS", "FAILED"}]

TypeOK == /\ {shown, loaded, hasKinds, failed} \subseteq BOOLEAN
          /\ smallKinds \in Index \cup {NotSet, Empty}
          /\ pressIndex \in Index
          /\ param \in Index \cup {NotSet}
          /\ net \in Seq(Request)

\* The application is started.
Init == /\ shown = FALSE
        /\ loaded = TRUE
        /\ hasKinds = FALSE
        /\ smallKinds = NotSet
        /\ pressIndex = 1
        /\ param = NotSet
        /\ net = <<>>
        /\ failed = FALSE
------------------------------------------------------------------------------
NewRequest(op, k) == [op |-> op, of |-> k, answer |-> "none"]

Send(r) == /\ Len(net) < MaxFlight
           /\ net' = Append(net, r)

\* Mutant: the parameter is read after the requests, too late for this focus.
FocusAsBefore(p) == /\ ~ shown
                    /\ shown' = TRUE
                    /\ loaded' = FALSE
                    /\ param' = p
                    /\ pressIndex' = IF param = NotSet THEN pressIndex ELSE param
                    /\ Send(NewRequest("kinds", 1))
                    /\ UNCHANGED <<hasKinds, smallKinds, failed>>

\* Mutant: a visit without a parameter is not told from one with.
FocusUnset(p) == /\ ~ shown
                 /\ shown' = TRUE
                 /\ loaded' = FALSE
                 /\ param' = p
                 /\ pressIndex' = p
                 /\ Send(NewRequest("kinds", 1))
                 /\ UNCHANGED <<hasKinds, smallKinds, failed>>

\* willFocus with parameter p: freshPageFunction up to its first await.
Focus(p) == /\ ~ shown
            /\ shown' = TRUE
            /\ loaded' = FALSE
            /\ param' = p
            /\ pressIndex' = IF p = NotSet THEN pressIndex ELSE p
            /\ Send(NewRequest("kinds", 1))
            /\ UNCHANGED <<hasKinds, smallKinds, failed>>

\* didBlur: cleanFunction.
Blur == /\ shown
        /\ shown' = FALSE
        /\ hasKinds' = FALSE
        /\ smallKinds' = Empty
        /\ UNCHANGED <<loaded, pressIndex, param, net, failed>>

Rendered == shown /\ loaded

\* Mutant: the request reads the highlighted kind before it has changed.
PressBeforeState(k) == /\ Rendered
                       /\ hasKinds
                       /\ loaded' = FALSE
                       /\ smallKinds' = NotSet
                       /\ pressIndex' = k
                       /\ Send(NewRequest("pressed", pressIndex))
                       /\ UNCHANGED <<shown, hasKinds, param, failed>>

\* _onLeftFlatListBtnPress up to its await.
Press(k) == /\ Rendered
            /\ hasKinds
            /\ loaded' = FALSE
            /\ smallKinds' = NotSet
            /\ pressIndex' = k
            /\ Send(NewRequest("pressed", k))
            /\ UNCHANGED <<shown, hasKinds, param, failed>>

\* loadKindsInfo; then the small kinds of the highlighted kind, if there are
\* main kinds.
KindsAnswered(r) ==
    /\ r.op = "kinds"
    /\ r.answer # "none"
    /\ hasKinds' = (hasKinds \/ r.answer = "SUCCESS")
    /\ net' = Tail(net) \o (IF hasKinds' THEN <<NewRequest("small", pressIndex)>> ELSE <<>>)
    /\ failed' = (failed \/ r.answer = "FAILED")
    /\ UNCHANGED <<shown, loaded, smallKinds, pressIndex, param>>

\* loadSmallKindByMainKind; then "loading" ends: after a focus if the list is
\* not empty, after a press always, as -1 has no length.
SmallAnswered(r) ==
    /\ r.op \in {"small", "pressed"}
    /\ r.answer # "none"
    /\ smallKinds' = IF r.answer = "FAILED" THEN smallKinds
                     ELSE IF r.of \in Barren THEN Empty ELSE r.of
    /\ loaded' = (loaded \/ r.op = "pressed" \/ smallKinds' # Empty)
    /\ failed' = (r.answer = "FAILED")
    /\ net' = Tail(net)
    /\ UNCHANGED <<shown, hasKinds, pressIndex, param>>

Answer == /\ net # <<>>
          /\ KindsAnswered(Head(net)) \/ SmallAnswered(Head(net))

\* The server answers, or the request or its answer is lost (external).
Serve == \E i \in DOMAIN net :
            /\ net[i].answer = "none"
            /\ \A j \in 1..(i - 1) : net[j].answer # "none"
            /\ \E a \in {"SUCCESS"} \cup (IF Lossy THEN {"FAILED"} ELSE {}) :
                  net' = [net EXCEPT ![i].answer = a]
            /\ UNCHANGED <<shown, loaded, hasKinds, smallKinds, pressIndex, param, failed>>
\* The application is started again.
Restart == /\ shown' = FALSE
           /\ loaded' = TRUE
           /\ hasKinds' = FALSE
           /\ smallKinds' = NotSet
           /\ pressIndex' = 1
           /\ param' = NotSet
           /\ net' = <<>>
           /\ failed' = FALSE
------------------------------------------------------------------------------
(* Properties *)

\* When all is answered and nothing failed, the small kinds that are shown are
\* those of the highlighted kind, however focuses, blurs and presses overlapped
\* (ShowKindsPage.js:50-78, 95-146).
SettledShowsHighlighted ==
    Rendered /\ net = <<>> /\ ~ failed =>
        smallKinds = IF pressIndex \in Barren THEN Empty ELSE pressIndex

\* The tab stays on "loading" only while a request is under way, after one that
\* failed, or on a kind that has no small kinds (ShowKindsPage.js:64-72).
LoadingHasReason == shown /\ ~ loaded => net # <<>> \/ failed \/ pressIndex \in Barren
==============================================================================
