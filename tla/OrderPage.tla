------------------------------ MODULE OrderPage ------------------------------
(***************************************************************************)
(* src/OrderPage.js: one visit to the page that confirms and pays an       *)
(* order, with a cart and an address to pay for.                           *)
(*                                                                         *)
(* Paying starts two activities that talk through two flags of the state:  *)
(* _onPay creates the order, then empties the cart, and sets               *)
(* AnimatedDisabled and FetchDataInAnimted when the server has answered;   *)
(* the animation of _onPayAnimated looks at the flags each time it ends,   *)
(* and replays, opens the success page or takes the overlay down.  The     *)
(* overlay is what keeps the user from pressing the button again.          *)
(*                                                                         *)
(* What follows an await is one step, taken when the answer is there; the  *)
(* answer is the request's own (module ApiHelper).  setState does nothing  *)
(* once the page is unmounted.  The server and the network are external.   *)
(***************************************************************************)
EXTENDS FiniteSets

CONSTANTS Attempt,     \* bound of the model: the presses of the pay button
          LoadSlot,    \* bound of the model: address loads under way at once
          Address,     \* the user's addresses
          NoAddress,   \* the "" of a user without address
          NoInfo,      \* the -1 of state.defaultDeliveryInfo
          Lossy,       \* a payment's requests and answers may be lost or fail
          LossyLoads,  \* and so may the loads of the address
          FastTaps,    \* a second tap may come before the overlay is painted
          MayLeave,    \* the user may leave before the success page is shown
          Patient      \* the user waits on AddressPage for its request

Info == Address \cup {NoAddress}

ASSUME OrderAssumption == /\ NoAddress \notin Address
                          /\ NoInfo \notin Info
                          /\ Info \cap {"free", "sent", "failed", "none"} = {}
                          /\ {Lossy, LossyLoads, FastTaps, MayLeave, Patient} \subseteq BOOLEAN

VARIABLES nav,        \* the page on top: "shown" is this one
          loaded,     \* state.Is_LoadingFinsh
          info,       \* state.defaultDeliveryInfo
          loads,      \* loads[s]: a load of the default address
          overlay,    \* state.AnimatedViewContainerTop is 0
          painted,    \* the overlay as the screen has it
          disabled,   \* state.AnimatedDisabled
          fetched,    \* state.FetchDataInAnimted
          anim,       \* the attempts whose animation is still running
          phase,      \* phase[k]: where _onPay of attempt k is
          answer,     \* answer[k]: the answer to the request k waits for
          fromGood,   \* state.isFromGoodPage: bought without the cart
          celebrated, \* the success page was opened in this visit
          default,    \* the default address on the server
          change,     \* the default that AddressPage asks the server for
          ordered,    \* the attempts whose order the server has recorded
          cleared     \* the attempts for which the server emptied the cart

screen  == <<nav, loaded, info, loads>>
payment == <<overlay, disabled, fetched, anim, phase, answer, celebrated>>
server  == <<default, change, ordered, cleared>>
vars    == <<screen, painted, payment, fromGood, server>>

TypeOK == /\ nav \in {"shown", "address", "success", "gone"}
          /\ loaded \in BOOLEAN
          /\ info \in Info \cup {NoInfo}
          /\ loads \in [LoadSlot -> Info \cup {"free", "sent", "failed"}]
          /\ {overlay, painted, disabled, fetched} \subseteq BOOLEAN
          /\ anim \subseteq Attempt
          /\ phase \in [Attempt -> {"unused", "creating", "cleaning",
                                    "bought", "refused", "notCleaned"}]
          /\ answer \in [Attempt -> {"none", "SUCCESS", "WARNING", "FAILED"}]
          /\ fromGood \in BOOLEAN
          /\ celebrated \in BOOLEAN
          /\ default \in Info
          /\ change \in Info \cup {"none"}
          /\ ordered \subseteq Attempt
          /\ cleared \subseteq Attempt

\* The state of the page when it is mounted and its first willFocus has sent
\* the first load.
Mount == /\ loaded = FALSE
         /\ info = NoInfo
         /\ \E s \in LoadSlot : loads = [t \in LoadSlot |-> IF t = s THEN "sent" ELSE "free"]
         /\ overlay = FALSE
         /\ painted = FALSE
         /\ disabled = FALSE
         /\ fetched = FALSE
         /\ anim = {}
         /\ phase = [k \in Attempt |-> "unused"]
         /\ answer = [k \in Attempt |-> "none"]
         /\ fromGood \in BOOLEAN
         /\ celebrated = FALSE
         /\ default \in Info
         /\ change = "none"
         /\ ordered = {}
         /\ cleared = {}

Init == nav = "shown" /\ Mount

Mounted == nav # "gone"

Waiting(k) == phase[k] \in {"creating", "cleaning"}
------------------------------------------------------------------------------
(* Coming and going *)

\* Mutant: freshPageFunction does not reset Is_LoadingFinsh.
ReturnStillLoaded == /\ nav' = "shown"
                     /\ \E s \in LoadSlot : loads[s] = "free" /\ loads' = [loads EXCEPT ![s] = "sent"]
                     /\ UNCHANGED <<loaded, info>>

\* willFocus: freshPageFunction up to its await.
Return == /\ nav' = "shown"
          /\ loaded' = FALSE
          /\ \E s \in LoadSlot : loads[s] = "free" /\ loads' = [loads EXCEPT ![s] = "sent"]
          /\ UNCHANGED info

\* A touch reaches the page: it is rendered and the screen has no overlay.
Touchable == nav = "shown" /\ loaded /\ ~ painted /\ (FastTaps \/ ~ overlay)

\* _onAddressAnduserInfoPress.
OpenAddressPage == /\ Touchable
                   /\ nav' = "address"
                   /\ UNCHANGED <<loaded, info, loads, painted, payment, fromGood, server>>

\* AddressPage asks for another default address (_useAddressButton).
ChooseAddress(a) == /\ nav = "address"
                    /\ change = "none"
                    /\ change' = a
                    /\ UNCHANGED <<screen, painted, payment, fromGood, default, ordered, cleared>>

BackFromAddressPage == /\ nav = "address"
                       /\ Patient => change = "none"
                       /\ Return
                       /\ UNCHANGED <<painted, payment, fromGood, server>>

\* The hardware's back button on the success page.
BackFromSuccessPage == /\ nav = "success"
                       /\ Return
                       /\ UNCHANGED <<painted, payment, fromGood, server>>

\* The header or the hardware's back button, which the overlay does not stop;
\* or any button of the success page.
Leave == /\ nav \in {"shown", "success"}
         /\ MayLeave \/ nav = "success"
         /\ nav' = "gone"
         /\ UNCHANGED <<loaded, info, loads, painted, payment, fromGood, server>>

\* Mutant: the load is not awaited, and what there is of its answer is taken.
LoadAnsweredUnawaited(s) ==
    /\ loads[s] # "free"
    /\ loads' = [loads EXCEPT ![s] = "free"]
    /\ IF Mounted
       THEN info' = loads[s] /\ loaded' = TRUE
       ELSE UNCHANGED <<info, loaded>>
    /\ UNCHANGED <<nav, painted, payment, fromGood, server>>

\* fetchDefaultAddressByUsername and the rest of freshPageFunction.
LoadAnswered(s) ==
    /\ loads[s] \in Info \cup {"failed"}
    /\ loads' = [loads EXCEPT ![s] = "free"]
    /\ IF Mounted
       THEN /\ info' = IF loads[s] = "failed" THEN info ELSE loads[s]
            /\ loaded' = (loaded \/ info' # NoInfo)
       ELSE UNCHANGED <<info, loaded>>
    /\ UNCHANGED <<nav, painted, payment, fromGood, server>>
------------------------------------------------------------------------------
(* Paying *)

\* Mutant: the overlay is not put up.
PressPayNoOverlay(k) == /\ Touchable
                        /\ info \in Address
                        /\ phase[k] = "unused"
                        /\ anim' = anim \cup {k}
                        /\ phase' = [phase EXCEPT ![k] = "creating"]
                        /\ UNCHANGED <<screen, painted, overlay, disabled, fetched, answer, fromGood, celebrated, server>>

\* _onPayPress with an address and a cart (else it only alerts), and _onPay up
\* to its first request.
PressPay(k) == /\ Touchable
               /\ info \in Address
               /\ phase[k] = "unused"
               /\ overlay' = TRUE
               /\ anim' = anim \cup {k}
               /\ phase' = [phase EXCEPT ![k] = "creating"]
               /\ UNCHANGED <<screen, painted, disabled, fetched, answer, fromGood, celebrated, server>>

\* Mutant: FetchDataInAnimted is set whatever the answer.
ReportAlways(bought) == /\ disabled' = (disabled \/ Mounted)
                        /\ fetched' = (fetched \/ Mounted)

\* Mutant: AnimatedDisabled is set only when the purchase succeeded.
ReportOnlySuccess(bought) == /\ disabled' = (disabled \/ (Mounted /\ bought))
                             /\ fetched' = (fetched \/ (Mounted /\ bought))

\* setState({AnimatedDisabled: true}), with or without FetchDataInAnimted.
Report(bought) == /\ disabled' = (disabled \/ Mounted)
                  /\ fetched' = (fetched \/ (Mounted /\ bought))

\* Mutant: the cart is emptied without looking at the answer.
GoOnToCleanUnchecked(k) == /\ phase[k] = "creating"
                           /\ answer[k] # "none"
                           /\ ~ fromGood
                           /\ phase' = [phase EXCEPT ![k] = "cleaning"]
                           /\ answer' = [answer EXCEPT ![k] = "none"]
                           /\ UNCHANGED <<screen, painted, overlay, disabled, fetched, anim, fromGood, celebrated, server>>

\* createOrderList has succeeded and the cart is to be emptied.
GoOnToClean(k) == /\ phase[k] = "creating"
                  /\ answer[k] = "SUCCESS"
                  /\ ~ fromGood
                  /\ phase' = [phase EXCEPT ![k] = "cleaning"]
                  /\ answer' = [answer EXCEPT ![k] = "none"]
                  /\ UNCHANGED <<screen, painted, overlay, disabled, fetched, anim, fromGood, celebrated, server>>

\* _onPay ends, with the flags set as the last answer has it.
PayEnds(k) ==
    /\ Waiting(k)
    /\ answer[k] # "none"
    /\ \/ /\ phase[k] = "creating"
          /\ answer[k] = "SUCCESS"
          /\ fromGood
          /\ phase' = [phase EXCEPT ![k] = "bought"]
       \/ /\ phase[k] = "creating"
          /\ answer[k] # "SUCCESS"
          /\ phase' = [phase EXCEPT ![k] = "refused"]
       \/ /\ phase[k] = "cleaning"
          /\ answer[k] # "FAILED"       \* status 200, whatever the result_kind
          /\ phase' = [phase EXCEPT ![k] = "bought"]
       \/ /\ phase[k] = "cleaning"
          /\ answer[k] = "FAILED"
          /\ phase' = [phase EXCEPT ![k] = "notCleaned"]
    /\ answer' = [answer EXCEPT ![k] = "none"]
    /\ Report(phase'[k] = "bought")
    /\ UNCHANGED <<screen, painted, overlay, anim, fromGood, celebrated, server>>

\* Mutant: the page is not restored after a failure.
AnimationEndsNoRestore(k) ==
    /\ k \in anim
    /\ disabled
    /\ anim' = anim \ {k}
    /\ IF fetched
       THEN nav' = IF Mounted THEN "success" ELSE nav
       ELSE UNCHANGED nav
    /\ celebrated' = (celebrated \/ fetched)
    /\ UNCHANGED <<loaded, info, loads, painted, overlay, disabled, fetched, phase, answer, fromGood, server>>

\* Mutant: the animation is not replayed while the server is awaited.
AnimationEndsOnce(k) ==
    /\ k \in anim
    /\ anim' = anim \ {k}
    /\ overlay' = (overlay /\ (fetched \/ ~ Mounted))
    /\ nav' = IF fetched /\ Mounted THEN "success" ELSE nav
    /\ celebrated' = (celebrated \/ fetched)
    /\ UNCHANGED <<loaded, info, loads, painted, disabled, fetched, phase, answer, fromGood, server>>

\* The callback of the animation, once AnimatedDisabled is set; until then it
\* replays the animation, which leaves k in anim.
AnimationEnds(k) ==
    /\ k \in anim
    /\ disabled
    /\ anim' = anim \ {k}
    /\ IF fetched
       THEN /\ nav' = IF Mounted THEN "success" ELSE nav
            /\ celebrated' = TRUE
            /\ UNCHANGED overlay
       ELSE /\ overlay' = (overlay /\ ~ Mounted)
            /\ UNCHANGED <<nav, celebrated>>
    /\ UNCHANGED <<loaded, info, loads, painted, disabled, fetched, phase, answer, fromGood, server>>

\* The screen catches up with the state.
Paint == /\ painted # overlay
         /\ painted' = overlay
         /\ UNCHANGED <<screen, payment, fromGood, server>>
------------------------------------------------------------------------------
(* The server and the network (external) *)

\* The server creates the order, or empties the cart, of attempt k.
Execute(k) == \/ /\ phase[k] = "creating"
                 /\ ordered' = ordered \cup {k}
                 /\ UNCHANGED cleared
              \/ /\ phase[k] = "cleaning"
                 /\ cleared' = cleared \cup {k}
                 /\ UNCHANGED ordered

Serve(k) == /\ Waiting(k)
            /\ answer[k] = "none"
            /\ answer' = [answer EXCEPT ![k] = "SUCCESS"]
            /\ Execute(k)
            /\ UNCHANGED <<screen, painted, overlay, disabled, fetched, anim, phase, fromGood, celebrated, default, change>>

\* The server refuses: no stock, say, or nothing to clean.
Refuse(k) == /\ Waiting(k)
             /\ answer[k] = "none"
             /\ answer' = [answer EXCEPT ![k] = "WARNING"]
             /\ UNCHANGED <<screen, painted, overlay, disabled, fetched, anim, phase, fromGood, celebrated, server>>

\* The request is lost, or executed and its answer lost (404), or the server
\* fails on it (500).
Lose(k) == /\ Lossy
           /\ Waiting(k)
           /\ answer[k] = "none"
           /\ answer' = [answer EXCEPT ![k] = "FAILED"]
           /\ Execute(k) \/ UNCHANGED <<ordered, cleared>>
           /\ UNCHANGED <<screen, painted, overlay, disabled, fetched, anim, phase, fromGood, celebrated, default, change>>

ServeLoad(s) == /\ loads[s] = "sent"
                /\ \E v \in {default} \cup (IF LossyLoads THEN {"failed"} ELSE {}) :
                      loads' = [loads EXCEPT ![s] = v]
                /\ UNCHANGED <<nav, loaded, info, painted, payment, fromGood, server>>

ServeChange == /\ change # "none"
               /\ default' = change
               /\ change' = "none"
               /\ UNCHANGED <<screen, painted, payment, fromGood, ordered, cleared>>
------------------------------------------------------------------------------
Answered(k) == GoOnToClean(k) \/ PayEnds(k)

Server(k) == Serve(k) \/ Refuse(k) \/ Lose(k)

Next == \/ OpenAddressPage
        \/ \E a \in Address : ChooseAddress(a)
        \/ BackFromAddressPage
        \/ BackFromSuccessPage
        \/ Leave
        \/ \E s \in LoadSlot : LoadAnswered(s) \/ ServeLoad(s)
        \/ \E k \in Attempt : \/ PressPay(k)
                              \/ Answered(k)
                              \/ AnimationEnds(k)
                              \/ Server(k)
        \/ Paint
        \/ ServeChange

Spec == Init /\ [][Next]_vars

\* Animations end, the screen is painted, requests are answered (or reported
\* as failed) and the answers handled.  Nothing is assumed of the user.
FairSpec == /\ Spec
            /\ WF_vars(Paint)
            /\ \A k \in Attempt : /\ WF_vars(AnimationEnds(k))
                                  /\ WF_vars(Server(k))
                                  /\ WF_vars(Answered(k))
------------------------------------------------------------------------------
(* Properties *)

\* The success page is opened only in a visit in which an attempt has seen its
\* order created, whichever attempts set the flags (OrderPage.js:195-247, 283).
SuccessMeansOrdered == celebrated => \E k \in ordered : phase[k] = "bought"

\* The cart is emptied only for an order that the server has recorded, and
\* never when the good was bought without the cart (OrderPage.js:196-226).
ClearsFollowOrders == cleared \subseteq ordered /\ (fromGood => cleared = {})

\* The overlay is not left on the page with no animation to take it down,
\* unless the success page was opened (OrderPage.js:278-297).
NoStuckOverlay == Mounted /\ overlay /\ anim = {} => celebrated

\* Until an attempt has ended, the overlay is up and the animation of each
\* attempt that waits for the server is playing (OrderPage.js:186-192, 279).
FirstPaymentCovered ==
    \A k \in Attempt : Waiting(k) /\ ~ disabled => overlay /\ k \in anim

\* As long as the overlay is painted before the next tap, and the server has
\* neither refused nor failed an attempt, a visit creates at most one order
\* (OrderPage.js:186-192, 283-288).
OneOrderUnlessRefused ==
    ~ FastTaps /\ (\A k \in Attempt : phase[k] \notin {"refused", "notCleaned"}) =>
        \A j, k \in ordered : j = k

\* The address on the page when the pay button can be pressed, which is the one
\* the order is sent to, is the default address (OrderPage.js:57-67, 88-98): for a
\* user who waits on AddressPage and taps what is painted, and loads that do not
\* fail. A load may otherwise overtake the change, or leave the old address.
ShownAddressIsDefault == Touchable => info = default

\* A payment does not hang: the overlay comes down or the success page opens,
\* unless the user leaves (OrderPage.js:249-299).
PaymentEnds == overlay ~> (~ overlay \/ celebrated \/ ~ Mounted)

\* The comment at OrderPage.js:283: after a successful purchase the success
\* page is opened.
BoughtOpensSuccessPage == (\E k \in Attempt : phase[k] = "bought") ~> celebrated
==============================================================================
