------------------------------- MODULE CartPage -------------------------------
(***************************************************************************)
(* src/CartPage.js and src/StackCartPage.js: the cart, loaded from the     *)
(* server each time the page gets the focus and after each command on it.  *)
(*                                                                         *)
(* A handler runs up to its first await and sends a request; what follows  *)
(* the await is one step, taken when the answer is there, and the answer   *)
(* is the request's own (module ApiHelper).  Nothing stops the user from   *)
(* giving a command while another is under way, so any number of requests  *)
(* overlap.  cartList and totalPrice are written together by every line    *)
(* that writes one of them; cartList stands for both.                      *)
(*                                                                         *)
(* The server is external: it holds the cart, and executes, refuses        *)
(* (WARNING, 500) or loses a request.                                      *)
(***************************************************************************)
EXTENDS Naturals, Sequences, SequencesExt

CONSTANTS Good,       \* the goods
          MaxAmount,  \* bound of the model: the most of a good in the cart
          NoCart,     \* the -1 of state.cartList: nothing loaded
          NotHanded,  \* OrderPage has not been opened
          Stacked,    \* TRUE for StackCartPage, FALSE for the tab CartPage
          InOrder,    \* the network keeps the order of the requests
          Lossy,      \* the network may lose a request or an answer
          MaxFlight   \* bound of the model: requests under way at once

Cart == [Good -> 0..MaxAmount]

ASSUME CartAssumption == /\ Good # {}
                         /\ MaxAmount \in Nat \ {0}
                         /\ MaxFlight \in Nat \ {0}
                         /\ NoCart \notin Cart
                         /\ NotHanded \notin Cart \cup {NoCart}
                         /\ {Stacked, InOrder, Lossy} \subseteq BOOLEAN

VARIABLES shown,     \* the page is mounted and has, or is gaining, the focus
          loaded,    \* state.Is_LoadingFinsh
          cartList,  \* state.cartList (and state.totalPrice)
          net,       \* the requests under way, oldest first
          cart,      \* the user's cart on the server
          handed,    \* the cart last handed to OrderPage as its parameter
          failed     \* a request of the page failed since the cart was last loaded

page == <<shown, loaded, cartList>>
vars == <<page, net, cart, handed, failed>>

Commands == {"delete", "minus", "plus", "clear"}

\* `own` holds until the page that sent the request is unmounted, and never
\* for the "add" that another page sends.
Request == [op : Commands \cup {"load", "add"}, good : Good, own : BOOLEAN,
            answer : {"none", "SUCCESS", "WARNING", "FAILED"},
            cart : Cart \cup {NoCart}]

NewRequest(op, g, own) ==
    [op |-> op, good |-> g, own |-> own, answer |-> "none", cart |-> NoCart]

\* A load names no good; any will do.
Load(own) == NewRequest("load", CHOOSE g \in Good : TRUE, own)

TypeOK == /\ shown \in BOOLEAN
          /\ loaded \in BOOLEAN
          /\ cartList \in Cart \cup {NoCart}
          /\ net \in Seq(Request)
          /\ cart \in Cart
          /\ handed \in Cart \cup {NoCart, NotHanded}
          /\ failed \in BOOLEAN

Init == /\ shown = FALSE
        /\ loaded = FALSE
        /\ cartList = NoCart
        /\ net = <<>>
        /\ cart \in Cart
        /\ handed = NotHanded
        /\ failed = FALSE
------------------------------------------------------------------------------
(* The page *)

Send(r) == /\ Len(net) < MaxFlight
           /\ net' = Append(net, r)

\* Mutant: a page that is loaded is not loaded again.
FocusOnlyOnce == /\ ~ shown
                 /\ shown' = TRUE
                 /\ IF loaded THEN UNCHANGED net ELSE Send(Load(TRUE))
                 /\ UNCHANGED <<loaded, cartList, cart, handed, failed>>

\* willFocus: freshPageFunction up to its await.
Focus == /\ ~ shown
         /\ shown' = TRUE
         /\ loaded' = FALSE
         /\ Send(Load(TRUE))
         /\ UNCHANGED <<cartList, cart, handed, failed>>

\* didBlur: cleanFunction, which StackCartPage does not listen for.
Blur == /\ shown
        /\ shown' = FALSE
        /\ cartList' = IF Stacked THEN cartList ELSE NoCart
        /\ UNCHANGED <<loaded, net, cart, handed, failed>>

\* The page is popped; its listeners and its state are gone, and setState of a
\* handler that is still waiting does nothing.  The next visit is a new page.
Unmount == /\ shown' = FALSE
           /\ loaded' = FALSE
           /\ cartList' = NoCart
           /\ net' = [i \in DOMAIN net |-> [net[i] EXCEPT !.own = FALSE]]
           /\ UNCHANGED <<cart, handed, failed>>

\* The buttons exist only while the cart is rendered.
Rendered == shown /\ loaded

\* _onDeleteGoodsPress, _onChangeGoodsPress and _onCleanCartPress, up to their
\* awaits.
Press(op, g) == /\ Rendered
                /\ op # "clear" => cartList[g] > 0
                /\ Send(NewRequest(op, g, TRUE))
                /\ UNCHANGED <<page, cart, handed, failed>>

\* _onGoToPayPress.
GoToPay == /\ Rendered
           /\ handed' = cartList
           /\ UNCHANGED <<page, net, cart, failed>>

\* ShowGoodPage puts a good into the cart; its own state is not modelled here.
AddElsewhere(g) == /\ ~ shown
                   /\ Send(NewRequest("add", g, FALSE))
                   /\ UNCHANGED <<page, cart, handed, failed>>
------------------------------------------------------------------------------
(* The handlers after their awaits *)

\* Requests that were sent before request i and answered before it, when the
\* network keeps their order.
InTurn(i) == InOrder => i = 1

\* Mutant: the flag is not set again after the load.
LoadAnsweredNoFlag(i) ==
    /\ net[i].op = "load"
    /\ net[i].answer = "SUCCESS"
    /\ IF net[i].own
       THEN cartList' = net[i].cart /\ failed' = FALSE
       ELSE UNCHANGED <<cartList, failed>>
    /\ net' = RemoveAt(net, i)
    /\ UNCHANGED <<shown, loaded, cart, handed>>

\* fetchCartListByUsername and the rest of freshPageFunction, with a cart.
LoadAnswered(i) ==
    /\ net[i].op = "load"
    /\ net[i].answer = "SUCCESS"
    /\ IF net[i].own
       THEN cartList' = net[i].cart /\ loaded' = TRUE /\ failed' = FALSE
       ELSE UNCHANGED <<cartList, loaded, failed>>
    /\ net' = RemoveAt(net, i)
    /\ UNCHANGED <<shown, cart, handed>>

\* Mutant: the flag is set without looking at cartList.
LoadFailedLoaded(i) ==
    /\ net[i].op = "load"
    /\ net[i].answer = "FAILED"
    /\ loaded' = (loaded \/ net[i].own)
    /\ failed' = (failed \/ net[i].own)
    /\ net' = RemoveAt(net, i)
    /\ UNCHANGED <<shown, cartList, cart, handed>>

\* The same with status 404 or 500: an alert, and the cart of an earlier load,
\* if there is one, is shown again.
LoadFailed(i) ==
    /\ net[i].op = "load"
    /\ net[i].answer = "FAILED"
    /\ IF net[i].own
       THEN loaded' = (loaded \/ cartList # NoCart) /\ failed' = TRUE
       ELSE UNCHANGED <<loaded, failed>>
    /\ net' = RemoveAt(net, i)
    /\ UNCHANGED <<shown, cartList, cart, handed>>

\* Mutant: the page is reset to "loading" and no load is sent.
CommandDoneNoLoad(i) ==
    /\ net[i].op \in Commands
    /\ net[i].answer = "SUCCESS"
    /\ loaded' = (loaded /\ ~ net[i].own)
    /\ net' = RemoveAt(net, i)
    /\ UNCHANGED <<shown, cartList, cart, handed, failed>>

\* Mutant: the cart is not loaded again after a command.
CommandDoneNoRefresh(i) ==
    /\ net[i].op \in Commands
    /\ net[i].answer = "SUCCESS"
    /\ net' = RemoveAt(net, i)
    /\ UNCHANGED <<page, cart, handed, failed>>

\* A command of the page succeeded: freshPageFunction up to its await.
CommandDone(i) ==
    /\ net[i].op \in Commands
    /\ net[i].answer = "SUCCESS"
    /\ loaded' = (loaded /\ ~ net[i].own)
    /\ net' = Append(RemoveAt(net, i), Load(net[i].own))
    /\ UNCHANGED <<shown, cartList, cart, handed, failed>>

\* A command was refused or failed: an alert.  Of the "add" of another page
\* nothing reaches this one.
CommandOver(i) ==
    /\ \/ net[i].op \in Commands /\ net[i].answer \in {"WARNING", "FAILED"}
       \/ net[i].op = "add" /\ net[i].answer # "none"
    /\ failed' = (failed \/ (net[i].own /\ net[i].answer = "FAILED"))
    /\ net' = RemoveAt(net, i)
    /\ UNCHANGED <<page, cart, handed>>

Answer(i) == /\ InTurn(i)
             /\ \/ LoadAnswered(i)
                \/ LoadFailed(i)
                \/ CommandDone(i)
                \/ CommandOver(i)
------------------------------------------------------------------------------
(* The server and the network (external) *)

\* The next request to reach the server, when the network keeps their order.
Arrives(i) == /\ net[i].answer = "none"
              /\ InOrder => \A j \in 1..(i - 1) : net[j].answer # "none"

\* Mutant: an amount may fall below zero.
ExecutedNegative(r) ==
    CASE r.op = "delete"          -> [cart EXCEPT ![r.good] = 0]
      [] r.op = "minus"           -> [cart EXCEPT ![r.good] = @ - 1]
      [] r.op \in {"plus", "add"} -> [cart EXCEPT ![r.good] = IF @ < MaxAmount THEN @ + 1 ELSE @]
      [] r.op = "clear"           -> [g \in Good |-> 0]
      [] r.op = "load"            -> cart

\* The cart after a request was executed; amounts saturate at the bound.
Executed(r) ==
    CASE r.op = "delete"        -> [cart EXCEPT ![r.good] = 0]
      [] r.op = "minus"         -> [cart EXCEPT ![r.good] = IF @ > 0 THEN @ - 1 ELSE 0]
      [] r.op \in {"plus", "add"} -> [cart EXCEPT ![r.good] = IF @ < MaxAmount THEN @ + 1 ELSE @]
      [] r.op = "clear"         -> [g \in Good |-> 0]
      [] r.op = "load"          -> cart

\* The server executes request i.
Serve(i) == /\ Arrives(i)
            /\ cart' = Executed(net[i])
            /\ net' = [net EXCEPT ![i].answer = "SUCCESS",
                                  ![i].cart = IF net[i].op = "load" THEN cart ELSE NoCart]
            /\ UNCHANGED <<page, handed, failed>>

\* The server refuses a command and changes nothing.
Refuse(i) == /\ Arrives(i)
             /\ net[i].op # "load"
             /\ net' = [net EXCEPT ![i].answer = "WARNING"]
             /\ UNCHANGED <<page, cart, handed, failed>>

\* The page will see a failure: the request was lost on its way, or was
\* executed and its answer lost (404), or the server failed on it (500).
Lose(i) == /\ Lossy
           /\ Arrives(i)
           /\ cart' \in {cart, Executed(net[i])}
           /\ net' = [net EXCEPT ![i].answer = "FAILED"]
           /\ UNCHANGED <<page, handed, failed>>

Server(i) == Serve(i) \/ Refuse(i) \/ Lose(i)
------------------------------------------------------------------------------
User == \/ Focus
        \/ Blur
        \/ Unmount
        \/ \E op \in Commands, g \in Good : Press(op, g)
        \/ GoToPay
        \/ \E g \in Good : AddElsewhere(g)

Next == User \/ \E i \in DOMAIN net : Answer(i) \/ Server(i)

Spec == Init /\ [][Next]_vars

\* Every request is answered and every answer handled; nothing is assumed of
\* the user.  The client sets no timeout, so this is an assumption about the
\* network, which reports a request it has lost as a failure.
FairSpec == Spec /\ \A i \in 1..MaxFlight :
                       /\ WF_vars(i \in DOMAIN net /\ Answer(i))
                       /\ WF_vars(i \in DOMAIN net /\ Server(i))
------------------------------------------------------------------------------
(* Properties *)

\* Whatever is rendered or handed to OrderPage is a cart, never the -1 of a
\* page that is not loaded: cleanFunction clears cartList but leaves
\* Is_LoadingFinsh, and a failed load leaves both (CartPage.js:57-75, 270).
PayGetsCart == /\ Rendered => cartList # NoCart
               /\ handed # NoCart

\* The page stays on "loading" only while its load is under way, or after a failure
\* that left it without any cart (CartPage.js:57-67).
LoadingHasReason ==
    shown /\ ~ loaded =>
        (failed /\ cartList = NoCart) \/ \E i \in DOMAIN net : net[i].op = "load" /\ net[i].own

\* On a network that keeps the order of the requests: when all is answered and
\* nothing failed since the last load, the page shows the cart of the server,
\* however the commands overlapped (CartPage.js:219-302).
SettledShowsServerCart ==
    InOrder /\ Rendered /\ net = <<>> /\ ~ failed => cartList = cart

\* Unless a request fails the page does not stay on "loading" (CartPage.js:57-67,
\* 304).
LoadingEnds == (shown /\ ~ loaded) ~> (loaded \/ ~ shown \/ failed)
==============================================================================
