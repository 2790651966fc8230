--------------------------- MODULE OrderPage_proofs ---------------------------
(***************************************************************************)
(* For any number of attempts, loads and addresses, any losses and any     *)
(* timing of taps: what the flags and the overlay say about the orders. For*)
(* a patient user and loads that do not fail: the address is the default.  *)
(***************************************************************************)
EXTENDS OrderPage, TLAPS

\* What the phase of an attempt says about the server.
PhaseMatchesServer ==
    \A k \in Attempt :
       /\ ~ Waiting(k) => answer[k] = "none"
       /\ phase[k] = "unused" => k \notin ordered
       /\ phase[k] \in {"cleaning", "bought", "notCleaned"} => k \in ordered
       /\ phase[k] = "creating" /\ answer[k] = "SUCCESS" => k \in ordered
       /\ phase[k] = "cleaning" => ~ fromGood

\* What the flags say about the attempts.
FlagsMatchAttempts ==
    /\ fetched => \E k \in Attempt : phase[k] = "bought"
    /\ disabled => fetched \/ \E k \in Attempt : phase[k] \in {"refused", "notCleaned"}

NoneRefused == \A k \in Attempt : phase[k] \notin {"refused", "notCleaned"}

\* While no attempt was refused, the first one keeps the overlay up.
OverlayHolds ==
    ~ FastTaps /\ NoneRefused =>
       /\ (\E k \in Attempt : phase[k] # "unused") /\ Mounted => overlay
       /\ \A j, k \in Attempt : phase[j] # "unused" /\ phase[k] # "unused" => j = k

IndInv == /\ TypeOK
          /\ PhaseMatchesServer
          /\ FlagsMatchAttempts
          /\ SuccessMeansOrdered
          /\ ClearsFollowOrders
          /\ NoStuckOverlay
          /\ FirstPaymentCovered
          /\ OverlayHolds

LEMMA InitIndInv == Init => IndInv
  BY OrderAssumption
  DEF Init, Mount, IndInv, TypeOK, PhaseMatchesServer, FlagsMatchAttempts, SuccessMeansOrdered,
      ClearsFollowOrders, NoStuckOverlay, FirstPaymentCovered, OverlayHolds, Waiting, Info

\* A step that leaves the payment and the server's orders alone, and does not
\* bring the page back, keeps what they say about each other.
LEMMA ScreenStep ==
    ASSUME IndInv, TypeOK', UNCHANGED <<payment, fromGood, ordered, cleared>>,
           ~ Mounted => ~ Mounted'
    PROVE  IndInv'
  BY DEF IndInv, PhaseMatchesServer, FlagsMatchAttempts, SuccessMeansOrdered, payment,
         ClearsFollowOrders, NoStuckOverlay, FirstPaymentCovered, OverlayHolds,
         NoneRefused, Waiting, Mounted

LEMMA NavigationIndInv ==
    ASSUME IndInv,
           \/ OpenAddressPage
           \/ \E a \in Address : ChooseAddress(a)
           \/ BackFromAddressPage
           \/ BackFromSuccessPage
           \/ Leave
           \/ \E s \in LoadSlot : LoadAnswered(s) \/ ServeLoad(s)
           \/ Paint
           \/ ServeChange
    PROVE  IndInv'
  <1> USE DEF IndInv
  <1>1. CASE OpenAddressPage
    <2>1. TypeOK'
      BY <1>1 DEF OpenAddressPage, TypeOK, payment, server
    <2> QED BY <1>1, <2>1, ScreenStep DEF OpenAddressPage, Touchable, Mounted, server
  <1>2. ASSUME NEW a \in Address, ChooseAddress(a)
        PROVE  IndInv'
    <2>1. TypeOK'
      BY <1>2 DEF ChooseAddress, TypeOK, payment, screen, Info
    <2> QED BY <1>2, <2>1, ScreenStep DEF ChooseAddress, Mounted, screen
  <1>3. CASE BackFromAddressPage \/ BackFromSuccessPage
    <2>1. TypeOK'
      BY <1>3 DEF BackFromAddressPage, BackFromSuccessPage, Return, TypeOK, payment, server
    <2> QED BY <1>3, <2>1, ScreenStep DEF BackFromAddressPage, BackFromSuccessPage, Mounted, server
  <1>4. CASE Leave
    <2>1. TypeOK'
      BY <1>4 DEF Leave, TypeOK, payment, server
    <2> QED BY <1>4, <2>1, ScreenStep DEF Leave, Mounted, server
  <1>5. ASSUME NEW s \in LoadSlot, LoadAnswered(s)
        PROVE  IndInv'
    <2>1. TypeOK'
      BY <1>5 DEF LoadAnswered, TypeOK, payment, server
    <2> QED BY <1>5, <2>1, ScreenStep DEF LoadAnswered, Mounted, server
  <1>6. ASSUME NEW s \in LoadSlot, ServeLoad(s)
        PROVE  IndInv'
    <2>1. TypeOK'
      BY <1>6 DEF ServeLoad, TypeOK, payment, server
    <2> QED BY <1>6, <2>1, ScreenStep DEF ServeLoad, Mounted, server
  <1>7. CASE Paint
    <2>1. TypeOK'
      BY <1>7 DEF Paint, TypeOK, payment, server, screen
    <2> QED BY <1>7, <2>1, ScreenStep DEF Paint, Mounted, screen, server
  <1>8. CASE ServeChange
    <2>1. TypeOK'
      BY <1>8 DEF ServeChange, TypeOK, payment, screen
    <2> QED BY <1>8, <2>1, ScreenStep DEF ServeChange, Mounted, screen
  <1> QED BY <1>1, <1>2, <1>3, <1>4, <1>5, <1>6, <1>7, <1>8

LEMMA PressPayIndInv ==
    ASSUME IndInv, NEW k \in Attempt, PressPay(k)
    PROVE  IndInv'
  <1> USE DEF IndInv, PressPay, screen, server
  <1>1. /\ phase' = [phase EXCEPT ![k] = "creating"]
        /\ phase[k] = "unused"
        /\ answer' = answer /\ ordered' = ordered /\ fromGood' = fromGood
    OBVIOUS
  <1>2. TypeOK'
    BY DEF TypeOK
  <1>3. PhaseMatchesServer'
    BY <1>1 DEF PhaseMatchesServer, Waiting, TypeOK
  <1>4. FlagsMatchAttempts' /\ SuccessMeansOrdered' /\ ClearsFollowOrders'
    BY <1>1 DEF FlagsMatchAttempts, SuccessMeansOrdered, ClearsFollowOrders, TypeOK
  <1>5. NoStuckOverlay' /\ FirstPaymentCovered'
    BY <1>1 DEF NoStuckOverlay, FirstPaymentCovered, Waiting, TypeOK
  <1>6. OverlayHolds'
    BY <1>1 DEF OverlayHolds, NoneRefused, Mounted, Touchable, TypeOK
  <1> QED BY <1>2, <1>3, <1>4, <1>5, <1>6

LEMMA GoOnToCleanIndInv ==
    ASSUME IndInv, NEW k \in Attempt, GoOnToClean(k)
    PROVE  IndInv'
  <1> USE DEF IndInv, GoOnToClean, screen, server
  <1>1. TypeOK'
    BY DEF TypeOK
  <1>2. PhaseMatchesServer'
    BY DEF PhaseMatchesServer, Waiting, TypeOK
  <1>3. FlagsMatchAttempts' /\ SuccessMeansOrdered' /\ ClearsFollowOrders'
    BY DEF FlagsMatchAttempts, SuccessMeansOrdered, ClearsFollowOrders, TypeOK
  <1>4. NoStuckOverlay' /\ FirstPaymentCovered'
    BY DEF NoStuckOverlay, FirstPaymentCovered, Waiting, Mounted, TypeOK
  <1>5. OverlayHolds'
    BY DEF OverlayHolds, NoneRefused, Mounted, TypeOK
  <1> QED BY <1>1, <1>2, <1>3, <1>4, <1>5

LEMMA PayEndsIndInv ==
    ASSUME IndInv, NEW k \in Attempt, PayEnds(k)
    PROVE  IndInv'
  <1> USE DEF IndInv
  <1>1. PICK end \in {"bought", "refused", "notCleaned"} :
           /\ phase' = [phase EXCEPT ![k] = end]
           /\ end # "refused" => k \in ordered
    BY DEF PayEnds, PhaseMatchesServer, TypeOK
  <1>2. /\ phase'[k] = end
        /\ answer' = [answer EXCEPT ![k] = "none"]
        /\ disabled' = (disabled \/ Mounted)
        /\ fetched' = (fetched \/ (Mounted /\ end = "bought"))
        /\ UNCHANGED <<nav, loaded, info, loads, painted, overlay, anim, fromGood, celebrated,
                       default, change, ordered, cleared>>
    BY <1>1 DEF PayEnds, Report, TypeOK, screen, server
  <1>3. Waiting(k) /\ phase[k] # "unused"
    BY DEF PayEnds, Waiting
  <1>4. TypeOK'
    BY <1>1, <1>2 DEF TypeOK
  <1>5. PhaseMatchesServer'
    BY <1>1, <1>2, <1>3 DEF PhaseMatchesServer, Waiting, TypeOK
  <1>6. FlagsMatchAttempts'
    BY <1>1, <1>2, <1>3 DEF FlagsMatchAttempts, Waiting, TypeOK
  <1>7. SuccessMeansOrdered' /\ ClearsFollowOrders'
    BY <1>1, <1>2, <1>3 DEF SuccessMeansOrdered, ClearsFollowOrders, Waiting, TypeOK
  <1>8. NoStuckOverlay' /\ FirstPaymentCovered'
    BY <1>1, <1>2, <1>3 DEF NoStuckOverlay, FirstPaymentCovered, Waiting, Mounted, TypeOK
  <1>9. OverlayHolds'
    BY <1>1, <1>2, <1>3 DEF OverlayHolds, NoneRefused, Mounted, Waiting, TypeOK
  <1> QED BY <1>4, <1>5, <1>6, <1>7, <1>8, <1>9

LEMMA AnimationEndsIndInv ==
    ASSUME IndInv, NEW k \in Attempt, AnimationEnds(k)
    PROVE  IndInv'
  <1> USE DEF IndInv, AnimationEnds, server
  <1>1. TypeOK'
    BY DEF TypeOK, Mounted
  <1>2. PhaseMatchesServer' /\ FlagsMatchAttempts' /\ ClearsFollowOrders'
    BY DEF PhaseMatchesServer, FlagsMatchAttempts, ClearsFollowOrders, Waiting
  <1>3. SuccessMeansOrdered'
    BY DEF SuccessMeansOrdered, FlagsMatchAttempts, PhaseMatchesServer
  <1>4. NoStuckOverlay' /\ FirstPaymentCovered'
    BY DEF NoStuckOverlay, FirstPaymentCovered, Waiting, Mounted
  <1>5. OverlayHolds'
    BY DEF OverlayHolds, NoneRefused, FlagsMatchAttempts, Mounted
  <1> QED BY <1>1, <1>2, <1>3, <1>4, <1>5

LEMMA ServerIndInv ==
    ASSUME IndInv, NEW k \in Attempt, Server(k)
    PROVE  IndInv'
  <1> USE DEF IndInv
  <1>1. /\ Waiting(k) /\ answer[k] = "none"
        /\ \E a \in {"SUCCESS", "WARNING", "FAILED"} :
              /\ answer' = [answer EXCEPT ![k] = a]
              /\ a = "SUCCESS" /\ phase[k] = "creating" => k \in ordered'
        /\ ordered' = ordered \/ (ordered' = ordered \cup {k} /\ phase[k] = "creating")
        /\ cleared' = cleared \/ (cleared' = cleared \cup {k} /\ phase[k] = "cleaning")
        /\ UNCHANGED <<nav, loaded, info, loads, painted, overlay, disabled, fetched, anim,
                       phase, fromGood, celebrated, default, change>>
    BY DEF Server, Serve, Refuse, Lose, Execute, screen, server
  <1>2. TypeOK'
    BY <1>1 DEF TypeOK
  <1>3. PhaseMatchesServer'
    BY <1>1 DEF PhaseMatchesServer, Waiting, TypeOK
  <1>4. FlagsMatchAttempts' /\ SuccessMeansOrdered'
    BY <1>1 DEF FlagsMatchAttempts, SuccessMeansOrdered
  <1>5. ClearsFollowOrders'
    BY <1>1 DEF ClearsFollowOrders, PhaseMatchesServer
  <1>6. NoStuckOverlay' /\ FirstPaymentCovered' /\ OverlayHolds'
    BY <1>1 DEF NoStuckOverlay, FirstPaymentCovered, OverlayHolds, NoneRefused, Waiting, Mounted
  <1> QED BY <1>2, <1>3, <1>4, <1>5, <1>6

\* IndInv is inductive.
LEMMA StepIndInv == IndInv /\ [Next]_vars => IndInv'
  <1>1. ASSUME IndInv, UNCHANGED vars PROVE IndInv'
    <2>1. TypeOK'
      BY <1>1 DEF IndInv, TypeOK, vars, screen, payment, server
    <2> QED BY <1>1, <2>1, ScreenStep DEF vars, screen, server, Mounted
  <1> QED BY <1>1, NavigationIndInv, PressPayIndInv, GoOnToCleanIndInv, PayEndsIndInv,
             AnimationEndsIndInv, ServerIndInv DEF Next, Answered

LEMMA IndInvHolds == Spec => []IndInv
  BY InitIndInv, StepIndInv, PTL DEF Spec

------------------------------------------------------------------------------
(* The address *)

AllLoaded == \A s \in LoadSlot : loads[s] = "free"

\* While the page waits for one load, or has none to wait for, it cannot lead to
\* AddressPage and back before that load; and only there does the default change.
AddressFollows ==
    /\ change # "none" => nav = "address"
    /\ \A s \in LoadSlot : loads[s] # "failed" /\ (loads[s] \in Info => loads[s] = default)
    /\ Mounted /\ anim # {} => overlay /\ nav = "shown" /\ loaded
    /\ \A j, k \in anim : j = k
    /\ nav = "address" => ~ overlay /\ AllLoaded
    /\ nav = "success" => overlay
    /\ nav = "shown" /\ (~ overlay \/ anim # {}) =>
          /\ \A s, t \in LoadSlot : loads[s] # "free" /\ loads[t] # "free" => s = t
          /\ loaded => AllLoaded /\ info = default

LEMMA InitAddressFollows == Init => AddressFollows
  BY OrderAssumption DEF Init, Mount, AddressFollows, AllLoaded, Info

\* A user who taps after the screen was painted and waits on AddressPage, and
\* loads that do not fail.
LEMMA NextAddressFollows ==
    ASSUME Patient, ~ LossyLoads, ~ FastTaps, TypeOK, AddressFollows, [Next]_vars
    PROVE  AddressFollows'
  <1>1. CASE OpenAddressPage
    BY <1>1 DEF OpenAddressPage, Touchable, AddressFollows, AllLoaded, Mounted, payment, server
  <1>2. ASSUME NEW a \in Address, ChooseAddress(a)
        PROVE  AddressFollows'
    BY <1>2 DEF ChooseAddress, AddressFollows, AllLoaded, Mounted, payment, screen
  <1>3. CASE BackFromAddressPage
    <2>1. PICK s \in LoadSlot : loads' = [loads EXCEPT ![s] = "sent"]
      BY <1>3 DEF BackFromAddressPage, Return
    <2>2. /\ nav = "address" /\ change = "none" /\ nav' = "shown" /\ loaded' = FALSE
          /\ UNCHANGED <<overlay, anim, default, change>>
      BY <1>3 DEF BackFromAddressPage, Return, payment, server
    <2>3. "sent" \notin Info /\ "sent" # "failed"
      BY OrderAssumption
    <2> QED BY <2>1, <2>2, <2>3 DEF AddressFollows, AllLoaded, Mounted, TypeOK
  <1>4. CASE BackFromSuccessPage
    <2>1. PICK s \in LoadSlot : loads' = [loads EXCEPT ![s] = "sent"]
      BY <1>4 DEF BackFromSuccessPage, Return
    <2>2. /\ nav = "success" /\ nav' = "shown" /\ loaded' = FALSE
          /\ UNCHANGED <<overlay, anim, default, change>>
      BY <1>4 DEF BackFromSuccessPage, Return, payment, server
    <2>3. "sent" \notin Info /\ "sent" # "failed"
      BY OrderAssumption
    <2> QED BY <2>1, <2>2, <2>3 DEF AddressFollows, AllLoaded, Mounted, TypeOK
  <1>5. CASE Leave
    BY <1>5 DEF Leave, AddressFollows, AllLoaded, Mounted, payment, server
  <1>6. ASSUME NEW s \in LoadSlot, LoadAnswered(s)
        PROVE  AddressFollows'
    <2>1. /\ loads[s] \in Info /\ loads[s] = default /\ loads[s] # "free"
          /\ loads' = [loads EXCEPT ![s] = "free"]
          /\ UNCHANGED <<nav, overlay, anim, default, change>>
      BY <1>6, OrderAssumption DEF LoadAnswered, AddressFollows, payment, server
    <2>2. Mounted => info' = default /\ loaded'
      BY <1>6, <2>1, OrderAssumption DEF LoadAnswered, AddressFollows
    <2>3. "free" \notin Info /\ "free" # "failed"
      BY OrderAssumption
    <2> QED BY <2>1, <2>2, <2>3 DEF AddressFollows, AllLoaded, Mounted, TypeOK
  <1>7. ASSUME NEW s \in LoadSlot, ServeLoad(s)
        PROVE  AddressFollows'
    <2>1. /\ loads[s] = "sent"
          /\ loads' = [loads EXCEPT ![s] = default]
          /\ UNCHANGED <<nav, loaded, info, overlay, anim, default, change>>
      BY <1>7 DEF ServeLoad, payment, server
    <2>2. default \in Info /\ "failed" \notin Info /\ "free" \notin Info
      BY OrderAssumption DEF TypeOK
    <2> QED BY <2>1, <2>2 DEF AddressFollows, AllLoaded, Mounted, TypeOK
  <1>8. ASSUME NEW k \in Attempt, PressPay(k)
        PROVE  AddressFollows'
    BY <1>8 DEF PressPay, Touchable, AddressFollows, AllLoaded, Mounted, screen, server
  <1>9. ASSUME NEW k \in Attempt, AnimationEnds(k)
        PROVE  AddressFollows'
    <2>1. /\ k \in anim /\ anim' = anim \ {k}
          /\ UNCHANGED <<loaded, info, loads, default, change>>
      BY <1>9 DEF AnimationEnds, server
    <2>2. anim' = {}
      BY <2>1 DEF AddressFollows
    <2>3. CASE ~ Mounted
      BY <1>9, <2>1, <2>2, <2>3 DEF AnimationEnds, AddressFollows, AllLoaded, Mounted
    <2>4. CASE Mounted /\ fetched
      <3>1. nav = "shown" /\ nav' = "success" /\ overlay /\ overlay'
        BY <1>9, <2>1, <2>4 DEF AnimationEnds, AddressFollows
      <3> QED BY <2>1, <2>2, <3>1 DEF AddressFollows, AllLoaded, Mounted
    <2>5. CASE Mounted /\ ~ fetched
      <3>1. nav = "shown" /\ nav' = "shown" /\ overlay' = FALSE
        BY <1>9, <2>1, <2>5 DEF AnimationEnds, AddressFollows
      <3> QED BY <2>1, <2>2, <3>1 DEF AddressFollows, AllLoaded, Mounted
    <2> QED BY <2>3, <2>4, <2>5
  <1>10. ASSUME NEW k \in Attempt, GoOnToClean(k) \/ PayEnds(k) \/ Server(k)
         PROVE  AddressFollows'
    <2>1. UNCHANGED <<nav, loaded, info, loads, overlay, anim, default, change>>
      BY <1>10 DEF GoOnToClean, PayEnds, Server, Serve, Refuse, Lose, screen, server
    <2> QED BY <2>1 DEF AddressFollows, AllLoaded, Mounted
  <1>11. CASE Paint \/ UNCHANGED vars
    <2>1. UNCHANGED <<nav, loaded, info, loads, overlay, anim, default, change>>
      BY <1>11 DEF Paint, vars, screen, payment, server
    <2> QED BY <2>1 DEF AddressFollows, AllLoaded, Mounted
  <1>12. CASE ServeChange
    <2>1. AllLoaded /\ nav = "address"
      BY <1>12 DEF ServeChange, AddressFollows
    <2>2. "free" \notin Info
      BY OrderAssumption
    <2> QED BY <1>12, <2>1, <2>2 DEF ServeChange, AddressFollows, AllLoaded, Mounted, screen, payment
  <1> QED BY <1>1, <1>2, <1>3, <1>4, <1>5, <1>6, <1>7, <1>8, <1>9, <1>10, <1>11, <1>12
          DEF Next, Answered
------------------------------------------------------------------------------
(* The theorems *)

\* The page's state and flags are always well-formed (OrderPage.js:17-34).
THEOREM TypeCorrect == Spec => []TypeOK
  <1>1. IndInv => TypeOK
    BY DEF IndInv
  <1> QED BY <1>1, IndInvHolds, PTL

\* "Payment succeeded" is never shown in a visit that created no order, however
\* the attempts overlap in the flags they share (OrderPage.js:195-247, 283).
THEOREM SuccessMeansOrderedHolds == Spec => []SuccessMeansOrdered
  <1>1. IndInv => SuccessMeansOrdered
    BY DEF IndInv
  <1> QED BY <1>1, IndInvHolds, PTL

\* The cart is never emptied for an order that does not exist, nor by a
\* purchase that did not come from the cart (OrderPage.js:196-226).
THEOREM ClearsFollowOrdersHolds == Spec => []ClearsFollowOrders
  <1>1. IndInv => ClearsFollowOrders
    BY DEF IndInv
  <1> QED BY <1>1, IndInvHolds, PTL

\* The overlay never blocks the page for good (OrderPage.js:278-297).
THEOREM NoStuckOverlayHolds == Spec => []NoStuckOverlay
  <1>1. IndInv => NoStuckOverlay
    BY DEF IndInv
  <1> QED BY <1>1, IndInvHolds, PTL

\* Until an attempt has ended, every waiting attempt has its overlay and its
\* animation (OrderPage.js:186-192, 279).
THEOREM FirstPaymentCoveredHolds == Spec => []FirstPaymentCovered
  <1>1. IndInv => FirstPaymentCovered
    BY DEF IndInv
  <1> QED BY <1>1, IndInvHolds, PTL

\* No double order without a refusal or a failure, for any number of presses
\* (OrderPage.js:186-192, 283-288).
THEOREM OneOrderUnlessRefusedHolds == Spec => []OneOrderUnlessRefused
  <1>1. IndInv => OneOrderUnlessRefused
    BY DEF IndInv, OneOrderUnlessRefused, OverlayHolds, NoneRefused, PhaseMatchesServer, TypeOK
  <1> QED BY <1>1, IndInvHolds, PTL

\* For a user who waits for what is asked of the server the order is sent to the
\* default address, however visits to AddressPage, loads and payments alternate
\* (OrderPage.js:57-67, 88-98).
THEOREM ShownAddressIsDefaultHolds ==
    ASSUME Patient, ~ LossyLoads, ~ FastTaps
    PROVE  Spec => []ShownAddressIsDefault
  <1>1. AddressFollows => ShownAddressIsDefault
    BY DEF AddressFollows, ShownAddressIsDefault, Touchable
  <1>2. TypeOK /\ AddressFollows /\ [Next]_vars => AddressFollows'
    BY NextAddressFollows
  <1>3. Spec => []AddressFollows
    BY <1>2, InitAddressFollows, TypeCorrect, PTL DEF Spec
  <1> QED BY <1>1, <1>3, PTL
==============================================================================
