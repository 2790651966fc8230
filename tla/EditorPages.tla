----------------------------- MODULE EditorPages -----------------------------
(***************************************************************************)
(* src/AddressPage.js and src/MyOrderListPage.js: a list loaded from the   *)
(* server, and an editor that slides over it, in which the user types the  *)
(* new address, or the comment, that is sent to the server.                *)
(*                                                                         *)
(* The text is kept twice.  The inputs are not controlled by the state:    *)
(* each holds what it shows, and copies it to the state when the user      *)
(* types; the state is what is sent.  Closing the editor clears the inputs *)
(* only, and "loading" takes the inputs off the screen, to come back       *)
(* empty.  The row that is edited is kept in a global of each page         *)
(* (needEditAddress, needPostCommentGoodId), set whenever the editor is    *)
(* opened for a row.                                                       *)
(*                                                                         *)
(* A handler runs up to its first await; what follows is one step, taken   *)
(* when the request's own answer is there (module ApiHelper).  A behaviour *)
(* is one user's visits to one of the two pages.                           *)
(***************************************************************************)
EXTENDS Naturals, Sequences, SequencesExt

CONSTANTS Word,      \* what can be typed; addresses and goods are words
          Blank,     \* the empty text
          NewRow,    \* what the editor is for when an address is added
          NoList,    \* the -1 of addressList and orderListInfo
          InOrder,   \* the network keeps the order of the requests
          Lossy,     \* the network may lose a request or an answer
          MaxFlight  \* bound of the model: requests under way at once

ASSUME EditorAssumption == /\ Blank \notin Word
                           /\ NewRow \notin Word
                           /\ NewRow # Blank
                           /\ \A s \in SUBSET Word : s # NoList
                           /\ MaxFlight \in Nat \ {0}
                           /\ {InOrder, Lossy} \subseteq BOOLEAN

VARIABLES page,       \* the page that is visited
          mounted,    \* it is on the stack
          enablePress,\* AddressPage was opened by OrderPage
          loaded,     \* state.Is_LoadingFinsh
          list,       \* the rows of addressList, or those that have a comment
                      \* button of orderListInfo
          refreshing, \* state.Is_Refresh: the timer of a second is running
          editor,     \* the command of the editor on the screen, or "closed"
          target,     \* the global that names the row to be edited
          text,       \* state.editAddress and editTelephone, or editComment
          input,      \* what the inputs show
          typedFor,   \* what the editor was for when that was typed
          net,        \* the requests under way, oldest first
          rows,       \* the list on the server
          failed      \* a request of the page failed since the list was last loaded

Page == {"AddressPage", "MyOrderListPage"}

Edits == {"add", "edit", "comment"}

screen == <<page, mounted, enablePress, loaded, list, refreshing>>
typing == <<editor, target, text, input, typedFor>>
vars   == <<screen, typing, net, rows, failed>>

\* The inputs.  A second input's content matters only when it is left blank.
Fields(p) == IF p = "AddressPage" THEN {"name", "telephone"} ELSE {"name"}

Text(p) == [Fields(p) -> Word \cup {Blank}]

AllBlank == [f \in Fields(page) |-> Blank]

Request == [op : Edits \cup {"load", "use"}, row : Word \cup {NewRow}, name : Word \cup {Blank},
            own : BOOLEAN, closes : BOOLEAN, answer : {"none", "SUCCESS", "WARNING", "FAILED"},
            list : SUBSET Word]

TypeOK == /\ page \in Page
          /\ mounted \in BOOLEAN
          /\ enablePress \in BOOLEAN
          /\ loaded \in BOOLEAN
          /\ list = NoList \/ list \in SUBSET Word
          /\ refreshing \in BOOLEAN
          /\ editor \in Edits \cup {"closed"}
          /\ target \in Word \cup {Blank}
          /\ text \in Text(page)
          /\ input \in Text(page)
          /\ typedFor \in [Fields(page) -> Word \cup {NewRow, Blank}]
          /\ net \in Seq(Request)
          /\ rows \in SUBSET Word
          /\ failed \in BOOLEAN

Init == /\ page \in Page
        /\ mounted = FALSE
        /\ enablePress = FALSE
        /\ loaded = FALSE
        /\ list = NoList
        /\ refreshing = FALSE
        /\ editor = "closed"
        /\ target = Blank
        /\ text = AllBlank
        /\ input = AllBlank
        /\ typedFor = AllBlank
        /\ net = <<>>
        /\ rows \in SUBSET Word
        /\ failed = FALSE
------------------------------------------------------------------------------
(* The page *)

NewRequest(op, row, name) ==
    [op |-> op, row |-> row, name |-> name, own |-> TRUE, closes |-> FALSE,
     answer |-> "none", list |-> {}]

\* A load of the page; `closes` when the editor is to be closed after it.
Load(own, closes) == [NewRequest("load", NewRow, Blank) EXCEPT !.own = own, !.closes = closes]

Send(r) == /\ Len(net) < MaxFlight
           /\ net' = Append(net, r)

\* The inputs are cleared, or come back empty.
NoInput == input' = AllBlank /\ typedFor' = AllBlank

Reset == /\ loaded' = FALSE
         /\ list' = NoList
         /\ refreshing' = FALSE
         /\ editor' = "closed"
         /\ target' = Blank
         /\ text' = AllBlank
         /\ NoInput

\* The page is opened: componentWillMount, and freshPageFunction up to its await.
Visit == /\ ~ mounted
         /\ mounted' = TRUE
         /\ enablePress' \in {b \in BOOLEAN : b => page = "AddressPage"}
         /\ Reset
         /\ Send(Load(TRUE, FALSE))
         /\ failed' = FALSE
         /\ UNCHANGED <<page, rows>>

\* The page is popped, by the user or by goBack.  What it still waits for can
\* no longer change it.
Pop(waiting) == /\ mounted' = FALSE
                /\ enablePress' = FALSE
                /\ Reset
                /\ net' = [i \in DOMAIN waiting |-> [waiting[i] EXCEPT !.own = FALSE]]
                /\ UNCHANGED page

Leave == /\ mounted
         /\ Pop(net)
         /\ UNCHANGED <<rows, failed>>

Rendered == mounted /\ loaded

\* Mutant: the global is set for a new address too.
OpenEditorAnyRow(command, row) ==
    /\ Rendered
    /\ editor = "closed"
    /\ \/ page = "AddressPage" /\ command = "edit" /\ row \in list
       \/ page = "AddressPage" /\ command = "add" /\ row = NewRow
       \/ page = "MyOrderListPage" /\ command = "comment" /\ row \in list
    /\ editor' = command
    /\ target' = row
    /\ UNCHANGED <<screen, text, input, typedFor, net, rows, failed>>

\* _editAddress and _onCreateCommentBtn on a row, _addNewAddressPress.
OpenEditor(command, row) ==
    /\ Rendered
    /\ editor = "closed"
    /\ \/ page = "AddressPage" /\ command = "edit" /\ row \in list
       \/ page = "AddressPage" /\ command = "add" /\ row = NewRow
       \/ page = "MyOrderListPage" /\ command = "comment" /\ row \in list
    /\ editor' = command
    /\ target' = IF command = "add" THEN target ELSE row
    /\ UNCHANGED <<screen, text, input, typedFor, net, rows, failed>>

\* The row the editor is for.
Subject == IF editor = "add" THEN NewRow ELSE target

\* onChangeText.
Type(f, w) == /\ Rendered
              /\ editor # "closed"
              /\ input' = [input EXCEPT ![f] = w]
              /\ text' = [text EXCEPT ![f] = w]
              /\ typedFor' = [typedFor EXCEPT ![f] = Subject]
              /\ UNCHANGED <<screen, editor, target, net, rows, failed>>

\* Mutant: the inputs are not cleared.
CloseInputsStay == /\ Rendered
                   /\ editor # "closed"
                   /\ editor' = "closed"
                   /\ UNCHANGED <<screen, target, text, input, typedFor, net, rows, failed>>

\* _closeEditPagePress.
Close == /\ Rendered
         /\ editor # "closed"
         /\ editor' = "closed"
         /\ NoInput
         /\ UNCHANGED <<screen, target, text, net, rows, failed>>

\* _changeAddressButton, _addNewAddressButton and _postComment up to their
\* awaits; with an empty text they only alert.
Confirm == /\ Rendered
           /\ editor # "closed"
           /\ \A f \in Fields(page) : text[f] # Blank
           /\ Send(NewRequest(editor, Subject, text["name"]))
           /\ UNCHANGED <<screen, typing, rows, failed>>

\* _useAddressButton.
Use(row) == /\ Rendered
            /\ enablePress
            /\ editor = "closed"
            /\ row \in list
            /\ Send(NewRequest("use", row, Blank))
            /\ UNCHANGED <<screen, typing, rows, failed>>

\* reFreshFunction.
PullToRefresh == /\ Rendered
                 /\ page = "MyOrderListPage"
                 /\ editor = "closed"
                 /\ ~ refreshing
                 /\ refreshing' = TRUE
                 /\ UNCHANGED <<page, mounted, enablePress, loaded, list, typing, net, rows, failed>>

\* The page goes to "loading"; its inputs are unmounted.
StartLoading == loaded' = FALSE /\ NoInput

\* The timer of reFreshFunction, which the editor does not stop.
RefreshTimer == /\ refreshing
                /\ refreshing' = FALSE
                /\ StartLoading
                /\ Send(Load(TRUE, FALSE))
                /\ UNCHANGED <<page, mounted, enablePress, list, editor, target, text, rows, failed>>
------------------------------------------------------------------------------
(* The handlers after their awaits *)

InTurn(i) == InOrder => i = 1

\* A command that has succeeded closes the editor after the load.
AfterLoad(r) == IF r.closes THEN editor' = "closed" /\ NoInput
                            ELSE UNCHANGED <<editor, input, typedFor>>

\* fetchAddressListByUsername and fetchOrderListInfoByUser, and the rest of
\* freshPageFunction.
LoadAnswered(i) ==
    /\ net[i].op = "load"
    /\ net[i].answer = "SUCCESS"
    /\ IF net[i].own
       THEN /\ list' = net[i].list
            /\ loaded' = TRUE
            /\ failed' = FALSE
            /\ AfterLoad(net[i])
       ELSE UNCHANGED <<list, loaded, failed, editor, input, typedFor>>
    /\ net' = RemoveAt(net, i)
    /\ UNCHANGED <<page, mounted, enablePress, refreshing, target, text, rows>>

\* Mutant: an old list is not shown again.
LoadFailedWaits(i) ==
    /\ net[i].op = "load"
    /\ net[i].answer = "FAILED"
    /\ failed' = (failed \/ net[i].own)
    /\ net' = RemoveAt(net, i)
    /\ UNCHANGED <<screen, typing, rows>>

\* The same with status 404 or 500; an old list is shown again.
LoadFailed(i) ==
    /\ net[i].op = "load"
    /\ net[i].answer = "FAILED"
    /\ IF net[i].own
       THEN /\ loaded' = (loaded \/ list # NoList)
            /\ failed' = TRUE
            /\ AfterLoad(net[i])
       ELSE UNCHANGED <<loaded, failed, editor, input, typedFor>>
    /\ net' = RemoveAt(net, i)
    /\ UNCHANGED <<page, mounted, enablePress, list, refreshing, target, text, rows>>

\* Mutant: the list is not loaded again.
EditDoneNoLoad(i) ==
    /\ net[i].op \in Edits
    /\ net[i].answer = "SUCCESS"
    /\ net' = RemoveAt(net, i)
    /\ UNCHANGED <<screen, typing, rows, failed>>

\* A command of the editor succeeded: the texts of an added address are reset,
\* and freshPageFunction runs up to its await.
EditDone(i) ==
    /\ net[i].op \in Edits
    /\ net[i].answer = "SUCCESS"
    /\ IF net[i].own
       THEN /\ text' = IF net[i].op = "add" THEN AllBlank ELSE text
            /\ StartLoading
       ELSE UNCHANGED <<text, loaded, input, typedFor>>
    /\ net' = Append(RemoveAt(net, i), Load(net[i].own, TRUE))
    /\ UNCHANGED <<page, mounted, enablePress, list, refreshing, editor, target, rows, failed>>

\* The default address was changed: goBack, which does nothing once the page
\* is popped.
UseDone(i) ==
    /\ net[i].op = "use"
    /\ net[i].answer = "SUCCESS"
    /\ IF net[i].own
       THEN Pop(RemoveAt(net, i))
       ELSE net' = RemoveAt(net, i) /\ UNCHANGED <<screen, typing>>
    /\ UNCHANGED <<rows, failed>>

\* A command was refused or failed: an alert, or nothing.
CommandOver(i) ==
    /\ net[i].op # "load"
    /\ net[i].answer \in {"WARNING", "FAILED"}
    /\ failed' = (failed \/ (net[i].own /\ net[i].answer = "FAILED"))
    /\ net' = RemoveAt(net, i)
    /\ UNCHANGED <<screen, typing, rows>>

Answer(i) == /\ InTurn(i)
             /\ \/ LoadAnswered(i)
                \/ LoadFailed(i)
                \/ EditDone(i)
                \/ UseDone(i)
                \/ CommandOver(i)
------------------------------------------------------------------------------
(* The server and the network (external) *)

Arrives(i) == /\ net[i].answer = "none"
              /\ InOrder => \A j \in 1..(i - 1) : net[j].answer # "none"

\* The list once the server has executed request r: addresses have distinct
\* names, and a good that was commented on loses its button.
Executed(r) == CASE r.op = "add"             -> rows \cup {r.name}
                 [] r.op = "edit"            -> (rows \ {r.row}) \cup {r.name}
                 [] r.op = "comment"         -> rows \ {r.row}
                 [] r.op \in {"load", "use"} -> rows

Serve(i) == /\ Arrives(i)
            /\ rows' = Executed(net[i])
            /\ net' = [net EXCEPT ![i].answer = "SUCCESS",
                                  ![i].list = IF net[i].op = "load" THEN rows ELSE {}]
            /\ UNCHANGED <<screen, typing, failed>>

\* The server refuses, the name of an address that exists, say.
Refuse(i) == /\ Arrives(i)
             /\ net[i].op # "load"
             /\ net' = [net EXCEPT ![i].answer = "WARNING"]
             /\ UNCHANGED <<screen, typing, rows, failed>>

\* The request is lost, or executed and its answer lost (404), or the server
\* fails on it (500).
Lose(i) == /\ Lossy
           /\ Arrives(i)
           /\ rows' \in {rows, Executed(net[i])}
           /\ net' = [net EXCEPT ![i].answer = "FAILED"]
           /\ UNCHANGED <<screen, typing, failed>>

Server(i) == Serve(i) \/ Refuse(i) \/ Lose(i)
------------------------------------------------------------------------------
User == \/ Visit
        \/ Leave
        \/ \E command \in Edits, row \in Word \cup {NewRow} : OpenEditor(command, row)
        \/ \E f \in Fields(page), w \in Word \cup {Blank} : Type(f, w)
        \/ Close
        \/ Confirm
        \/ \E row \in Word : Use(row)
        \/ PullToRefresh

Next == \/ User
        \/ RefreshTimer
        \/ \E i \in DOMAIN net : Answer(i) \/ Server(i)

Spec == Init /\ [][Next]_vars
------------------------------------------------------------------------------
(* Properties *)

\* What an input shows is what its page would send, and was typed for the row
\* the editor is for, whatever answers, refreshes and visits came between
\* (AddressPage.js:163-182, 237-248, MyOrderListPage.js:170-178, 203-216).
ShownTextIsMeant ==
    \A f \in Fields(page) :
       input[f] # Blank => editor # "closed" /\ text[f] = input[f] /\ typedFor[f] = Subject

\* A page that stays on "loading" waits for a load, or has never had a list
\* (AddressPage.js:43-53, MyOrderListPage.js:39-49).
LoadingHasReason ==
    mounted /\ ~ loaded =>
        (failed /\ list = NoList) \/ \E i \in DOMAIN net : net[i].op = "load" /\ net[i].own

\* On a network that keeps the order of the requests: when all is answered and
\* nothing failed since the last load, the list is the server's, however
\* commands and refreshes overlapped (AddressPage.js:249-314,
\* MyOrderListPage.js:88-98, 225-253).
SettledShowsServerList ==
    InOrder /\ Rendered /\ net = <<>> /\ ~ failed => list = rows

\* The alerts at AddressPage.js:277 and MyOrderListPage.js:251: a command is
\* sent only when the inputs are filled in.
SendsOnlyEntered == [][Confirm => \A f \in Fields(page) : input[f] # Blank]_vars
==============================================================================
