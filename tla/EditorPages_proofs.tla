------------------------- MODULE EditorPages_proofs -------------------------
(***************************************************************************)
(* For any words, any number of requests under way, any order and any loss *)
(* of them, and for both pages: what an input shows is what would be sent  *)
(* and was typed for the row the editor is for; the page waits only for a  *)
(* reason; and, if the network keeps the order of the requests, a page     *)
(* that has settled shows the list of the server.                          *)
(***************************************************************************)
EXTENDS EditorPages, SequenceTheorems, TLAPS

------------------------------------------------------------------------------
(* The requests under way *)

\* A sequence without its element at i.
LEMMA RemoveAtElements ==
    ASSUME NEW S, NEW s \in Seq(S), NEW i \in 1..Len(s)
    PROVE  /\ RemoveAt(s, i) \in Seq(S)
           /\ Len(s) \in Nat
           /\ Len(RemoveAt(s, i)) = Len(s) - 1
           /\ \A j \in 1..(Len(s) - 1) : RemoveAt(s, i)[j] = s[IF j < i THEN j ELSE j + 1]
  <1> DEFINE a == SubSeq(s, 1, i - 1)
             b == SubSeq(s, i + 1, Len(s))
  <1>1. /\ a \in Seq(S) /\ Len(a) = i - 1 /\ \A j \in 1..(i - 1) : a[j] = s[j]
        /\ b \in Seq(S) /\ Len(b) = Len(s) - i /\ \A j \in 1..(Len(s) - i) : b[j] = s[i + j]
    BY SubSeqProperties
  <1>2. RemoveAt(s, i) = a \o b
    BY DEF RemoveAt
  <1> HIDE DEF a, b
  <1>3. /\ a \o b \in Seq(S)
        /\ Len(a \o b) = Len(a) + Len(b)
        /\ \A j \in 1..(Len(a) + Len(b)) : (a \o b)[j] = IF j <= Len(a) THEN a[j] ELSE b[j - Len(a)]
    BY <1>1, ConcatProperties
  <1>4. ASSUME NEW j \in 1..(Len(s) - 1)
        PROVE  (a \o b)[j] = s[IF j < i THEN j ELSE j + 1]
    <2>1. CASE j < i
      BY <1>1, <1>3, <2>1
    <2>2. CASE j >= i
      <3>1. j - (i - 1) \in 1..(Len(s) - i) /\ i + (j - (i - 1)) = j + 1 /\ ~ (j <= i - 1)
            /\ j \in 1..((i - 1) + (Len(s) - i)) /\ ~ (j < i)
        BY <2>2
      <3>2. (a \o b)[j] = b[j - (i - 1)]
        BY <1>1, <1>3, <3>1
      <3> QED BY <1>1, <3>1, <3>2
    <2>3. j < i \/ j >= i
      OBVIOUS
    <2> QED BY <2>1, <2>2, <2>3
  <1> QED BY <1>1, <1>2, <1>3, <1>4

\* What remains was there, and all but element i remains.
LEMMA RemoveAtKeeps ==
    ASSUME NEW S, NEW s \in Seq(S), NEW i \in 1..Len(s)
    PROVE  /\ RemoveAt(s, i) \in Seq(S)
           /\ \A j \in 1..Len(RemoveAt(s, i)) : \E m \in 1..Len(s) : RemoveAt(s, i)[j] = s[m]
           /\ \A m \in 1..Len(s) : m # i => \E j \in 1..Len(RemoveAt(s, i)) : RemoveAt(s, i)[j] = s[m]
  <1> DEFINE t == RemoveAt(s, i)
  <1>1. /\ t \in Seq(S) /\ Len(s) \in Nat /\ Len(t) = Len(s) - 1
        /\ \A j \in 1..(Len(s) - 1) : t[j] = s[IF j < i THEN j ELSE j + 1]
    BY RemoveAtElements
  <1> HIDE DEF t
  <1>2. ASSUME NEW m \in 1..Len(s), m # i
        PROVE  \E j \in 1..Len(t) : t[j] = s[m]
    <2>1. (m \in 1..Len(t) /\ t[m] = s[m]) \/ (m - 1 \in 1..Len(t) /\ t[m - 1] = s[m])
      BY <1>1, <1>2
    <2> QED BY <2>1
  <1>3. \A j \in 1..Len(t) : (IF j < i THEN j ELSE j + 1) \in 1..Len(s)
    BY <1>1
  <1> QED BY <1>1, <1>2, <1>3 DEF t

\* The elements of t, which is s with one more appended.
LEMMA SendKeeps ==
    ASSUME NEW S, NEW s \in Seq(S), NEW e \in S, NEW t \in Seq(S), t = Append(s, e)
    PROVE  /\ DOMAIN t = 1..Len(t)
           /\ \A j \in 1..Len(t) : t[j] = e \/ \E m \in 1..Len(s) : t[j] = s[m]
           /\ \A m \in 1..Len(s) : \E j \in 1..Len(t) : t[j] = s[m]
           /\ \E j \in 1..Len(t) : t[j] = e
  OBVIOUS

------------------------------------------------------------------------------
(* The type invariant *)

\* What is sent: a command of the editor names something.
Sent == {r \in Request : r.op \in Edits => r.name \in Word}

TypeInv == /\ TypeOK
           /\ net \in Seq(Sent)
           /\ loaded => list \in SUBSET Word
           /\ editor \in {"edit", "comment"} => target \in Word

LEMMA AllBlankType ==
    /\ AllBlank \in Text(page)
    /\ AllBlank \in [Fields(page) -> Word \cup {NewRow, Blank}]
  BY DEF AllBlank, Text

LEMMA LoadIsSent ==
    ASSUME NEW own \in BOOLEAN, NEW closes \in BOOLEAN
    PROVE  /\ Load(own, closes) \in Sent
           /\ Load(own, closes).op = "load"
           /\ Load(own, closes).own = own
           /\ Load(own, closes).answer = "none"
  BY DEF Load, NewRequest, Sent, Request, Edits

LEMMA InitTypeInv == Init => TypeInv
  <1> SUFFICES ASSUME Init PROVE TypeInv
    OBVIOUS
  <1>1. net \in Seq(Request) /\ net \in Seq(Sent)
    BY EmptySeq DEF Init
  <1>2. TypeOK
    BY <1>1, AllBlankType DEF Init, TypeOK
  <1> QED BY <1>1, <1>2 DEF Init, TypeInv

\* The page as it is opened and left.
LEMMA ResetType ==
    ASSUME TypeInv, Reset, page' = page
    PROVE  /\ list' = NoList /\ loaded' = FALSE /\ refreshing' = FALSE
           /\ editor' = "closed" /\ target' = Blank
           /\ text' \in Text(page) /\ input' \in Text(page)
           /\ typedFor' \in [Fields(page) -> Word \cup {NewRow, Blank}]
  BY AllBlankType DEF Reset, NoInput

\* The requests under way stay well-formed: when one is sent,
LEMMA SendType ==
    ASSUME net \in Seq(Sent), NEW r \in Sent, Send(r)
    PROVE  net' \in Seq(Sent)
  BY AppendProperties DEF Send

\* when the page is left,
LEMMA PopType ==
    ASSUME NEW s \in Seq(Sent), Pop(s)
    PROVE  /\ net' \in Seq(Sent)
           /\ Len(net') = Len(s)
           /\ \A i \in 1..Len(s) :
                 net'[i].op = s[i].op /\ net'[i].answer = s[i].answer /\ ~ net'[i].own
  <1>1. Len(s) \in Nat /\ DOMAIN s = 1..Len(s) /\ \A i \in 1..Len(s) : s[i] \in Sent
    OBVIOUS
  <1>2. \A i \in 1..Len(s) :
           /\ [s[i] EXCEPT !.own = FALSE] \in Sent
           /\ [s[i] EXCEPT !.own = FALSE].op = s[i].op
           /\ [s[i] EXCEPT !.own = FALSE].answer = s[i].answer
           /\ ~ [s[i] EXCEPT !.own = FALSE].own
    BY <1>1 DEF Sent, Request
  <1>3. net' = [i \in 1..Len(s) |-> [s[i] EXCEPT !.own = FALSE]]
    BY <1>1 DEF Pop
  <1>4. net' \in [1..Len(s) -> Sent]
    BY <1>2, <1>3
  <1>5. net' \in Seq(Sent) /\ Len(net') = Len(s)
    BY <1>1, <1>4
  <1>6. \A i \in 1..Len(s) : net'[i] = [s[i] EXCEPT !.own = FALSE]
    BY <1>3
  <1> QED BY <1>2, <1>5, <1>6, Zenon

\* and when the server answers one.
LEMMA ServerNet ==
    ASSUME TypeInv, NEW i \in DOMAIN net, Server(i)
    PROVE  \E r \in Sent :
              /\ net' = [net EXCEPT ![i] = r]
              /\ r.op = net[i].op /\ r.own = net[i].own
              /\ r.answer # "none"
              /\ r.op \notin Edits => rows' = rows /\ (r.answer = "SUCCESS" /\ r.op = "load" => r.list = rows)
              /\ rows' = rows \/ r.answer \in {"SUCCESS", "FAILED"}
  <1>n. net \in Seq(Sent) /\ i \in 1..Len(net) /\ net[i] \in Sent /\ rows \in SUBSET Word
    BY DEF TypeInv, TypeOK
  <1>o. net[i].op \in Edits \cup {"load", "use"}
    BY <1>n DEF Sent, Request
  <1>e. net[i].op \notin Edits => Executed(net[i]) = rows
    BY <1>o DEF Executed, Edits
  <1>1. CASE Serve(i)
    <2> DEFINE r == [net[i] EXCEPT !.answer = "SUCCESS",
                                   !.list = IF net[i].op = "load" THEN rows ELSE {}]
    <2>1. net' = [net EXCEPT ![i] = r] /\ rows' = Executed(net[i])
      BY <1>n, <1>1 DEF Serve
    <2>2. /\ r \in Sent /\ r.op = net[i].op /\ r.own = net[i].own /\ r.answer = "SUCCESS"
          /\ r.op = "load" => r.list = rows
      BY <1>n DEF Sent, Request
    <2> QED BY <1>e, <2>1, <2>2
  <1>2. CASE Refuse(i)
    <2> DEFINE r == [net[i] EXCEPT !.answer = "WARNING"]
    <2>1. net' = [net EXCEPT ![i] = r] /\ rows' = rows
      BY <1>n, <1>2 DEF Refuse
    <2>2. r \in Sent /\ r.op = net[i].op /\ r.own = net[i].own /\ r.answer = "WARNING"
      BY <1>n DEF Sent, Request
    <2> QED BY <2>1, <2>2
  <1>3. CASE Lose(i)
    <2> DEFINE r == [net[i] EXCEPT !.answer = "FAILED"]
    <2>1. net' = [net EXCEPT ![i] = r] /\ rows' \in {rows, Executed(net[i])}
      BY <1>n, <1>3 DEF Lose
    <2>2. r \in Sent /\ r.op = net[i].op /\ r.own = net[i].own /\ r.answer = "FAILED"
      BY <1>n DEF Sent, Request
    <2> QED BY <1>e, <2>1, <2>2
  <1> QED BY <1>1, <1>2, <1>3 DEF Server

LEMMA SentAreRequests == \A s \in Seq(Sent) : s \in Seq(Request)
  <1>1. Sent \subseteq Request
    BY DEF Sent
  <1> QED BY <1>1

\* The user's actions and the timer keep the types.
LEMMA UserTypeInv ==
    ASSUME TypeInv, User \/ RefreshTimer
    PROVE  TypeInv'
  <1> USE DEF TypeInv
  <1>n. net \in Seq(Sent)
    OBVIOUS
  <1>s. net' \in Seq(Sent) => net' \in Seq(Request)
    BY SentAreRequests
  <1>1. CASE Visit
    <2>1. net' \in Seq(Sent)
      BY <1>1, LoadIsSent, SendType DEF Visit
    <2>2. page' = page /\ Reset
      BY <1>1 DEF Visit
    <2> QED BY <1>1, <1>s, <2>1, <2>2, ResetType DEF Visit, TypeOK
  <1>2. CASE Leave
    <2>1. Pop(net)
      BY <1>2 DEF Leave
    <2>2. net' \in Seq(Sent) /\ page' = page /\ Reset
      BY <1>n, <2>1, PopType DEF Pop
    <2> QED BY <1>2, <1>s, <2>1, <2>2, ResetType DEF Leave, Pop, TypeOK
  <1>3. ASSUME NEW command \in Edits, NEW row \in Word \cup {NewRow}, OpenEditor(command, row)
        PROVE  TypeInv'
    <2>1. list \in SUBSET Word
      BY <1>3 DEF OpenEditor, Rendered
    <2>2. command # "add" => row \in Word
      BY <1>3, <2>1 DEF OpenEditor
    <2>3. /\ editor' = command
          /\ target' = IF command = "add" THEN target ELSE row
          /\ UNCHANGED <<screen, text, input, typedFor, net, rows, failed>>
      BY <1>3 DEF OpenEditor
    <2> QED BY <2>2, <2>3 DEF TypeOK, screen, Text
  <1>4. ASSUME NEW f \in Fields(page), NEW w \in Word \cup {Blank}, Type(f, w)
        PROVE  TypeInv'
    <2>1. Subject \in Word \cup {NewRow}
      BY <1>4 DEF Type, Subject, TypeOK, Edits
    <2>2. /\ input' = [input EXCEPT ![f] = w]
          /\ text' = [text EXCEPT ![f] = w]
          /\ typedFor' = [typedFor EXCEPT ![f] = Subject]
          /\ UNCHANGED <<screen, editor, target, net, rows, failed>>
      BY <1>4 DEF Type
    <2>3. /\ input' \in Text(page) /\ text' \in Text(page)
          /\ typedFor' \in [Fields(page) -> Word \cup {NewRow, Blank}]
      BY <2>1, <2>2 DEF TypeOK, Text
    <2> QED BY <2>2, <2>3 DEF TypeOK, screen
  <1>5. CASE Close
    BY <1>5, AllBlankType DEF Close, NoInput, TypeOK, screen
  <1>6. CASE Confirm
    <2>1. Subject \in Word \cup {NewRow}
      BY <1>6 DEF Confirm, Subject, TypeOK, Edits
    <2>2. text["name"] \in Word /\ editor \in Edits
      BY <1>6 DEF Confirm, TypeOK, Text, Fields
    <2>3. NewRequest(editor, Subject, text["name"]) \in Sent
      BY <2>1, <2>2 DEF NewRequest, Sent, Request
    <2>4. net' \in Seq(Sent)
      BY <1>n, <1>6, <2>3, SendType DEF Confirm
    <2>5. UNCHANGED <<screen, typing, rows, failed>>
      BY <1>6 DEF Confirm
    <2> QED BY <1>s, <2>4, <2>5 DEF TypeOK, screen, typing, Text
  <1>7. ASSUME NEW row \in Word, Use(row)
        PROVE  TypeInv'
    <2>1. NewRequest("use", row, Blank) \in Sent
      BY DEF NewRequest, Sent, Request, Edits
    <2>2. net' \in Seq(Sent)
      BY <1>n, <1>7, <2>1, SendType DEF Use
    <2>3. UNCHANGED <<screen, typing, rows, failed>>
      BY <1>7 DEF Use
    <2> QED BY <1>s, <2>2, <2>3 DEF TypeOK, screen, typing, Text
  <1>8. CASE PullToRefresh
    BY <1>8 DEF PullToRefresh, TypeOK, typing, Text
  <1>9. CASE RefreshTimer
    <2>1. net' \in Seq(Sent)
      BY <1>n, <1>9, LoadIsSent, SendType DEF RefreshTimer
    <2> QED BY <1>9, <1>s, <2>1, AllBlankType DEF RefreshTimer, StartLoading, NoInput, TypeOK
  <1> QED BY <1>1, <1>2, <1>3, <1>4, <1>5, <1>6, <1>7, <1>8, <1>9 DEF User

\* The answers keep the types.
LEMMA AnswerTypeInv ==
    ASSUME TypeInv, NEW i \in DOMAIN net, Answer(i)
    PROVE  TypeInv'
  <1> USE DEF TypeInv
  <1> DEFINE rest == RemoveAt(net, i)
  <1>n. net \in Seq(Sent) /\ i \in 1..Len(net) /\ net[i] \in Sent /\ net[i] \in Request
    BY DEF Sent
  <1>r. rest \in Seq(Sent)
    BY <1>n, RemoveAtKeeps
  <1>s. net' \in Seq(Sent) => net' \in Seq(Request)
    BY SentAreRequests
  <1> HIDE DEF rest
  <1>1. CASE LoadAnswered(i)
    <2>1. net' \in Seq(Sent) /\ net[i].list \in SUBSET Word
      BY <1>1, <1>n, <1>r DEF LoadAnswered, rest, Request
    <2>2. /\ editor' \in {editor, "closed"}
          /\ input' \in Text(page) /\ typedFor' \in [Fields(page) -> Word \cup {NewRow, Blank}]
      BY <1>1, AllBlankType DEF LoadAnswered, AfterLoad, NoInput, TypeOK
    <2>3. /\ list' = list \/ list' \in SUBSET Word
          /\ loaded' \in BOOLEAN /\ failed' \in BOOLEAN
          /\ loaded' => list' \in SUBSET Word
          /\ UNCHANGED <<page, mounted, enablePress, refreshing, target, text, rows>>
      BY <1>1, <2>1 DEF LoadAnswered, TypeOK
    <2> QED BY <1>s, <2>1, <2>2, <2>3 DEF TypeOK
  <1>2. CASE LoadFailed(i)
    <2>1. net' \in Seq(Sent)
      BY <1>2, <1>r DEF LoadFailed, rest
    <2>2. /\ editor' \in {editor, "closed"}
          /\ input' \in Text(page) /\ typedFor' \in [Fields(page) -> Word \cup {NewRow, Blank}]
      BY <1>2, AllBlankType DEF LoadFailed, AfterLoad, NoInput, TypeOK
    <2>3. /\ loaded' \in BOOLEAN /\ failed' \in BOOLEAN
          /\ loaded' => list \in SUBSET Word
          /\ UNCHANGED <<page, mounted, enablePress, list, refreshing, target, text, rows>>
      BY <1>2 DEF LoadFailed, TypeOK
    <2> QED BY <1>s, <2>1, <2>2, <2>3 DEF TypeOK
  <1>3. CASE EditDone(i)
    <2>1. Load(net[i].own, TRUE) \in Sent
      BY <1>n, LoadIsSent DEF Request
    <2>2. net' \in Seq(Sent)
      BY <1>3, <1>r, <2>1, AppendProperties DEF EditDone, rest
    <2>3. /\ text' \in Text(page) /\ input' \in Text(page)
          /\ typedFor' \in [Fields(page) -> Word \cup {NewRow, Blank}]
      BY <1>3, AllBlankType DEF EditDone, StartLoading, NoInput, TypeOK
    <2>4. loaded' \in BOOLEAN /\ (loaded' => loaded)
      BY <1>3 DEF EditDone, StartLoading, TypeOK
    <2>5. UNCHANGED <<page, mounted, enablePress, list, refreshing, editor, target, rows, failed>>
      BY <1>3 DEF EditDone
    <2> QED BY <1>s, <2>2, <2>3, <2>4, <2>5 DEF TypeOK
  <1>4. CASE UseDone(i)
    <2>1. CASE net[i].own
      <3>1. Pop(rest)
        BY <1>4, <2>1 DEF UseDone, rest
      <3>2. net' \in Seq(Sent) /\ page' = page /\ Reset
        BY <1>r, <3>1, PopType DEF Pop
      <3> QED BY <1>4, <1>s, <3>1, <3>2, ResetType DEF UseDone, Pop, TypeOK
    <2>2. CASE ~ net[i].own
      BY <1>4, <1>r, <1>s, <2>2 DEF UseDone, rest, TypeOK, screen, typing, Text
    <2> QED BY <2>1, <2>2
  <1>5. CASE CommandOver(i)
    <2>1. net' \in Seq(Sent) /\ failed' \in BOOLEAN
      BY <1>5, <1>r DEF CommandOver, rest, TypeOK
    <2>2. UNCHANGED <<screen, typing, rows>>
      BY <1>5 DEF CommandOver
    <2> QED BY <1>s, <2>1, <2>2 DEF TypeOK, screen, typing, Text
  <1> QED BY <1>1, <1>2, <1>3, <1>4, <1>5 DEF Answer

\* The server keeps the types.
LEMMA ServerTypeInv ==
    ASSUME TypeInv, NEW i \in DOMAIN net, Server(i)
    PROVE  TypeInv'
  <1> USE DEF TypeInv
  <1>n. net \in Seq(Sent) /\ i \in 1..Len(net) /\ net[i] \in Sent /\ net[i] \in Request
    BY DEF Sent
  <1>1. net' \in Seq(Sent) /\ net' \in Seq(Request)
    <2>1. PICK r \in Sent : net' = [net EXCEPT ![i] = r]
      BY ServerNet
    <2>2. net' \in Seq(Sent)
      BY <1>n, <2>1
    <2> QED BY <2>2, SentAreRequests
  <1>2. Executed(net[i]) \in SUBSET Word
    <2>1. net[i].op \in Edits \cup {"load", "use"} /\ (net[i].op \in Edits => net[i].name \in Word)
      BY <1>n DEF Sent, Request
    <2>2. rows \in SUBSET Word
      BY DEF TypeOK
    <2> QED BY <2>1, <2>2 DEF Executed, Edits
  <1>3. rows' \in SUBSET Word /\ UNCHANGED <<screen, typing, failed>>
    BY <1>2 DEF Server, Serve, Refuse, Lose, TypeOK
  <1> QED BY <1>1, <1>3 DEF TypeOK, screen, typing, Text

LEMMA StepTypeInv == TypeInv /\ [Next]_vars => TypeInv'
  <1>1. ASSUME TypeInv, UNCHANGED vars PROVE TypeInv'
    BY <1>1 DEF vars, screen, typing, TypeInv, TypeOK, Text
  <1> QED BY <1>1, UserTypeInv, AnswerTypeInv, ServerTypeInv DEF Next

\* The state of the page and the requests under way are always well-formed
\* (AddressPage.js:16-25, MyOrderListPage.js:16-23).
THEOREM TypeCorrect == Spec => []TypeOK
  <1>1. TypeInv => TypeOK
    BY DEF TypeInv
  <1> QED BY <1>1, InitTypeInv, StepTypeInv, PTL DEF Spec
------------------------------------------------------------------------------
(* What the inputs show *)

LEMMA NoInputMeant ==
    ASSUME NoInput, page' = page
    PROVE  ShownTextIsMeant'
  BY DEF NoInput, AllBlank, ShownTextIsMeant

LEMMA SameInputMeant ==
    ASSUME ShownTextIsMeant, UNCHANGED <<page, editor, target, text, input, typedFor>>
    PROVE  ShownTextIsMeant'
  BY DEF ShownTextIsMeant, Subject

LEMMA StepMeant ==
    ASSUME TypeInv, ShownTextIsMeant, [Next]_vars
    PROVE  ShownTextIsMeant'
  <1> USE DEF screen, typing
  <1>1. CASE Visit
    BY <1>1, NoInputMeant DEF Visit, Reset
  <1>2. CASE Leave
    BY <1>2, NoInputMeant DEF Leave, Pop, Reset
  <1>3. ASSUME NEW command \in Edits, NEW row \in Word \cup {NewRow}, OpenEditor(command, row)
        PROVE  ShownTextIsMeant'
    <2>1. \A f \in Fields(page) : input[f] = Blank
      BY <1>3 DEF OpenEditor, ShownTextIsMeant
    <2> QED BY <1>3, <2>1 DEF OpenEditor, ShownTextIsMeant
  <1>4. ASSUME NEW f \in Fields(page), NEW w \in Word \cup {Blank}, Type(f, w)
        PROVE  ShownTextIsMeant'
    <2>1. /\ page' = page /\ editor' = editor /\ editor # "closed" /\ Subject' = Subject
          /\ input' = [input EXCEPT ![f] = w]
          /\ text' = [text EXCEPT ![f] = w]
          /\ typedFor' = [typedFor EXCEPT ![f] = Subject]
      BY <1>4 DEF Type, Subject
    <2>2. DOMAIN input = Fields(page) /\ DOMAIN text = Fields(page) /\ DOMAIN typedFor = Fields(page)
      BY DEF TypeInv, TypeOK, Text
    <2> QED BY <2>1, <2>2 DEF ShownTextIsMeant
  <1>5. CASE Close
    BY <1>5, NoInputMeant DEF Close
  <1>6. CASE Confirm
    BY <1>6, SameInputMeant DEF Confirm
  <1>7. ASSUME NEW row \in Word, Use(row)
        PROVE  ShownTextIsMeant'
    BY <1>7, SameInputMeant DEF Use
  <1>8. CASE PullToRefresh
    BY <1>8, SameInputMeant DEF PullToRefresh
  <1>9. CASE RefreshTimer
    BY <1>9, NoInputMeant DEF RefreshTimer, StartLoading
  <1>10. ASSUME NEW i \in DOMAIN net, Answer(i)
         PROVE  ShownTextIsMeant'
    <2>1. CASE LoadAnswered(i)
      BY <2>1, NoInputMeant, SameInputMeant DEF LoadAnswered, AfterLoad
    <2>2. CASE LoadFailed(i)
      BY <2>2, NoInputMeant, SameInputMeant DEF LoadFailed, AfterLoad
    <2>3. CASE EditDone(i)
      BY <2>3, NoInputMeant, SameInputMeant DEF EditDone, StartLoading
    <2>4. CASE UseDone(i)
      BY <2>4, NoInputMeant, SameInputMeant DEF UseDone, Pop, Reset
    <2>5. CASE CommandOver(i)
      BY <2>5, SameInputMeant DEF CommandOver
    <2> QED BY <1>10, <2>1, <2>2, <2>3, <2>4, <2>5 DEF Answer
  <1>11. ASSUME NEW i \in DOMAIN net, Server(i)
         PROVE  ShownTextIsMeant'
    BY <1>11, SameInputMeant DEF Server, Serve, Refuse, Lose
  <1>12. CASE UNCHANGED vars
    BY <1>12, SameInputMeant DEF vars
  <1> QED BY <1>1, <1>2, <1>3, <1>4, <1>5, <1>6, <1>7, <1>8, <1>9, <1>10, <1>11, <1>12 DEF Next, User

\* The user never sees one text and sends another, nor confirms for one row
\* what was typed for another one, whatever answers, refreshes and visits come
\* between (AddressPage.js:163-182, 237-248, MyOrderListPage.js:170-178, 203-216).
THEOREM ShownTextIsMeantHolds == Spec => []ShownTextIsMeant
  <1>1. Init => ShownTextIsMeant
    BY DEF Init, AllBlank, ShownTextIsMeant
  <1> QED BY <1>1, InitTypeInv, StepTypeInv, StepMeant, PTL DEF Spec
------------------------------------------------------------------------------
(* Why the page waits *)

\* One of the page's own loads is under way.
Awaited == \E j \in 1..Len(net) : net[j].op = "load" /\ net[j].own

LEMMA LoadSent ==
    ASSUME NEW s \in Seq(Sent), NEW r \in Sent, net' = Append(s, r)
    PROVE  /\ r.op = "load" /\ r.own => Awaited'
           /\ (\E j \in 1..Len(s) : s[j].op = "load" /\ s[j].own) => Awaited'
  <1>1. net' \in Seq(Sent)
    BY AppendProperties
  <1>2. /\ \A m \in 1..Len(s) : \E j \in 1..Len(net') : net'[j] = s[m]
        /\ \E j \in 1..Len(net') : net'[j] = r
    BY <1>1, SendKeeps
  <1> QED BY <1>2 DEF Awaited

LEMMA StepReason ==
    ASSUME TypeInv, TypeInv', LoadingHasReason, [Next]_vars
    PROVE  LoadingHasReason'
  <1> USE DEF screen, typing
  <1>n. net \in Seq(Sent) /\ DOMAIN net = 1..Len(net)
    BY DEF TypeInv
  <1>w. mounted /\ ~ loaded => (failed /\ list = NoList) \/ Awaited
    BY <1>n DEF LoadingHasReason, Awaited
  <1> SUFFICES ASSUME mounted', ~ loaded'
               PROVE  (failed' /\ list' = NoList) \/ Awaited'
    <2>1. DOMAIN net' = 1..Len(net')
      BY DEF TypeInv
    <2> QED BY <2>1 DEF LoadingHasReason, Awaited
  <1>s. ASSUME NEW r \in Sent, Send(r), r.op = "load", r.own
        PROVE  Awaited'
    BY <1>n, <1>s, LoadSent DEF Send
  <1>1. CASE Visit
    BY <1>1, <1>s, LoadIsSent DEF Visit
  <1>2. CASE Leave
    BY <1>2 DEF Leave, Pop
  <1>3. ASSUME NEW command \in Edits, NEW row \in Word \cup {NewRow}, OpenEditor(command, row)
        PROVE  (failed' /\ list' = NoList) \/ Awaited'
    BY <1>3, <1>w DEF OpenEditor, Awaited
  <1>4. ASSUME NEW f \in Fields(page), NEW w \in Word \cup {Blank}, Type(f, w)
        PROVE  (failed' /\ list' = NoList) \/ Awaited'
    BY <1>4, <1>w DEF Type, Awaited
  <1>5. CASE Close
    BY <1>5, <1>w DEF Close, Awaited
  <1>6. CASE Confirm
    BY <1>6 DEF Confirm, Rendered
  <1>7. ASSUME NEW row \in Word, Use(row)
        PROVE  (failed' /\ list' = NoList) \/ Awaited'
    BY <1>7 DEF Use, Rendered
  <1>8. CASE PullToRefresh
    BY <1>8 DEF PullToRefresh, Rendered
  <1>9. CASE RefreshTimer
    BY <1>9, <1>s, LoadIsSent DEF RefreshTimer
  <1>10. ASSUME NEW i \in DOMAIN net, Answer(i)
         PROVE  (failed' /\ list' = NoList) \/ Awaited'
    <2> DEFINE rest == RemoveAt(net, i)
    <2>n. i \in 1..Len(net) /\ net[i] \in Sent
      BY <1>n, <1>10
    <2>r. /\ rest \in Seq(Sent)
          /\ \A m \in 1..Len(net) : m # i => \E j \in 1..Len(rest) : rest[j] = net[m]
      BY <1>n, <2>n, RemoveAtKeeps
    <2> HIDE DEF rest
    <2>w. ASSUME Awaited, ~ (net[i].op = "load" /\ net[i].own)
          PROVE  \E j \in 1..Len(rest) : rest[j].op = "load" /\ rest[j].own
      <3>1. PICK m \in 1..Len(net) : net[m].op = "load" /\ net[m].own
        BY <2>w DEF Awaited
      <3>2. m # i
        BY <2>w, <3>1
      <3> QED BY <2>r, <3>1, <3>2
    <2>1. CASE LoadAnswered(i)
      <3>1. net' = rest
        BY <2>1 DEF LoadAnswered, rest
      <3> QED BY <1>w, <2>1, <2>w, <3>1 DEF LoadAnswered, Awaited
    <2>2. CASE LoadFailed(i)
      <3>1. net' = rest
        BY <2>2 DEF LoadFailed, rest
      <3> QED BY <1>w, <2>2, <2>w, <3>1 DEF LoadFailed, Awaited
    <2>3. CASE EditDone(i)
      <3>1. Load(net[i].own, TRUE) \in Sent /\ Load(net[i].own, TRUE).op = "load"
            /\ Load(net[i].own, TRUE).own = net[i].own
        BY <2>n, LoadIsSent DEF Sent, Request
      <3>2. net' = Append(rest, Load(net[i].own, TRUE))
        BY <2>3 DEF EditDone, rest
      <3>3. CASE net[i].own
        BY <2>r, <3>1, <3>2, <3>3, LoadSent
      <3>4. CASE ~ net[i].own
        <4>1. UNCHANGED <<mounted, loaded, failed, list>>
          BY <2>3, <3>4 DEF EditDone
        <4> QED BY <1>w, <2>r, <2>w, <3>1, <3>2, <3>4, <4>1, LoadSent
      <3> QED BY <3>3, <3>4
    <2>4. CASE UseDone(i)
      <3>1. ~ net[i].own /\ net' = rest /\ UNCHANGED screen
        BY <2>4 DEF UseDone, Pop, rest
      <3> QED BY <1>w, <2>4, <2>w, <3>1 DEF UseDone, Awaited
    <2>5. CASE CommandOver(i)
      <3>1. net' = rest /\ net[i].op # "load" /\ UNCHANGED screen /\ (failed => failed')
        BY <2>5 DEF CommandOver, rest
      <3> QED BY <1>w, <2>w, <3>1 DEF Awaited
    <2> QED BY <1>10, <2>1, <2>2, <2>3, <2>4, <2>5 DEF Answer
  <1>11. ASSUME NEW i \in DOMAIN net, Server(i)
         PROVE  (failed' /\ list' = NoList) \/ Awaited'
    <2>1. PICK r \in Sent : /\ net' = [net EXCEPT ![i] = r]
                            /\ r.op = net[i].op /\ r.own = net[i].own
      BY <1>11, ServerNet
    <2>2. Len(net') = Len(net) /\ \A j \in 1..Len(net) : net'[j].op = net[j].op /\ net'[j].own = net[j].own
      BY <1>n, <2>1
    <2>3. UNCHANGED <<mounted, loaded, failed, list>>
      BY <1>11 DEF Server, Serve, Refuse, Lose
    <2> QED BY <1>w, <2>2, <2>3 DEF Awaited
  <1>12. CASE UNCHANGED vars
    BY <1>12, <1>w DEF vars, Awaited
  <1> QED BY <1>1, <1>2, <1>3, <1>4, <1>5, <1>6, <1>7, <1>8, <1>9, <1>10, <1>11, <1>12 DEF Next, User

\* The page shows "loading" only while a load of it is under way, or after one
\* that failed before there was a list (AddressPage.js:43-53,
\* MyOrderListPage.js:39-49).
THEOREM LoadingHasReasonHolds == Spec => []LoadingHasReason
  <1>1. Init => LoadingHasReason
    BY DEF Init, LoadingHasReason
  <1> QED BY <1>1, InitTypeInv, StepTypeInv, StepReason, PTL DEF Spec
------------------------------------------------------------------------------
(* The settled page, on a network that keeps the order of the requests *)

\* The answer to r will bring the list, make the page load it, or is a failure.
Renewal(r) == \/ r.own /\ r.op = "load"
              \/ r.own /\ r.op \in Edits /\ r.answer = "SUCCESS"
              \/ r.own /\ r.answer = "FAILED"

\* One of the requests after the first n is a renewal.
RenewedAfter(n) == \E j \in 1..Len(net) : j > n /\ Renewal(net[j])

\* The requests are answered in the order in which they were sent.
AnsweredFirst ==
    \A i, j \in 1..Len(net) : i < j /\ net[j].answer # "none" => net[i].answer # "none"

\* A list that is on its way to the page is the server's or will be renewed.
CarriedIsCurrent ==
    \A i \in 1..Len(net) :
       net[i].own /\ net[i].op = "load" /\ net[i].answer = "SUCCESS" =>
           net[i].list = rows \/ RenewedAfter(i)

\* So is the list on the page.
ShownIsCurrent == ~ failed => list = rows \/ RenewedAfter(0)

\* A command of an earlier visit was sent before this visit, whose load
\* follows it.
StrangersFirst ==
    \A i \in 1..Len(net) :
       net[i].answer = "none" /\ net[i].op \in Edits /\ ~ net[i].own =>
           \E j \in 1..Len(net) : j > i /\ net[j].own /\ net[j].op = "load"

Renewing == /\ AnsweredFirst
            /\ mounted => CarriedIsCurrent /\ ShownIsCurrent /\ StrangersFirst

LEMMA InitRenewing == Init => Renewing
  <1> SUFFICES ASSUME Init PROVE Renewing
    OBVIOUS
  <1>1. net = <<>> /\ Len(net) = 0
    BY EmptySeq DEF Init
  <1> QED BY <1>1 DEF Init, Renewing, AnsweredFirst

\* The page sends a request.
LEMMA SendRenewing ==
    ASSUME TypeInv, Renewing, NEW r \in Sent, r.answer = "none", r.own, Send(r),
           mounted' => r.op = "load" \/ (mounted /\ UNCHANGED <<list, rows, failed>>)
    PROVE  Renewing'
  <1>n. /\ net \in Seq(Sent) /\ Len(net) \in Nat
        /\ Len(net') = Len(net) + 1
        /\ \A j \in 1..Len(net) : net'[j] = net[j]
        /\ net'[Len(net) + 1] = r
    <2>1. net \in Seq(Sent) /\ net' = Append(net, r)
      BY DEF TypeInv, Send
    <2> QED BY <2>1, AppendProperties, LenProperties
  <1>m. \A j \in 1..Len(net') : j \in 1..Len(net) \/ j = Len(net) + 1
    BY <1>n
  <1>1. AnsweredFirst'
    BY <1>n, <1>m DEF Renewing, AnsweredFirst
  <1>2. ASSUME r.op = "load"
        PROVE  CarriedIsCurrent' /\ ShownIsCurrent' /\ StrangersFirst'
    <2>1. Len(net) + 1 \in 1..Len(net')
      BY <1>n
    <2>2. \A i \in 0..Len(net) : RenewedAfter(i)'
      BY <1>n, <1>2, <2>1 DEF RenewedAfter, Renewal
    <2>3. 0 \in 0..Len(net) /\ \A i \in 1..Len(net) : i \in 0..Len(net)
      BY <1>n
    <2>4. CarriedIsCurrent'
      BY <1>n, <1>m, <2>2, <2>3 DEF CarriedIsCurrent
    <2>5. StrangersFirst'
      BY <1>n, <1>m, <1>2, <2>1 DEF StrangersFirst, Edits
    <2> QED BY <2>2, <2>3, <2>4, <2>5 DEF ShownIsCurrent
  <1>3. ASSUME mounted, UNCHANGED <<list, rows, failed>>
        PROVE  CarriedIsCurrent' /\ ShownIsCurrent' /\ StrangersFirst'
    <2>1. CarriedIsCurrent /\ ShownIsCurrent /\ StrangersFirst
      BY <1>3 DEF Renewing
    <2>2. \A i \in 0..Len(net) : RenewedAfter(i) => RenewedAfter(i)'
      <3> SUFFICES ASSUME NEW i \in 0..Len(net), RenewedAfter(i)
                   PROVE  RenewedAfter(i)'
        OBVIOUS
      <3>1. PICK j \in 1..Len(net) : j > i /\ Renewal(net[j])
        BY DEF RenewedAfter
      <3>2. j \in 1..Len(net') /\ net'[j] = net[j]
        BY <1>n
      <3> QED BY <3>1, <3>2 DEF RenewedAfter, Renewal
    <2>3. ShownIsCurrent'
      BY <1>3, <1>n, <2>1, <2>2 DEF ShownIsCurrent
    <2>4. CarriedIsCurrent'
      BY <1>3, <1>n, <1>m, <2>1, <2>2 DEF CarriedIsCurrent
    <2>5. StrangersFirst'
      BY <1>n, <1>m, <2>1 DEF StrangersFirst
    <2> QED BY <2>3, <2>4, <2>5
  <1> QED BY <1>1, <1>2, <1>3 DEF Renewing

\* The page is left; of what it waited for, net' keeps the order.
LEMMA PopRenewing ==
    ASSUME NEW s \in Seq(Sent), Pop(s),
           \A i, j \in 1..Len(s) : i < j /\ s[j].answer # "none" => s[i].answer # "none"
    PROVE  Renewing'
  <1>1. ~ mounted'
    BY DEF Pop
  <1>2. Len(net') = Len(s) /\ \A i \in 1..Len(s) : net'[i].answer = s[i].answer
    BY PopType
  <1> QED BY <1>1, <1>2 DEF Renewing, AnsweredFirst

\* What the user does without a request.
LEMMA SameRenewing ==
    ASSUME Renewing, UNCHANGED <<mounted, list, rows, net, failed>>
    PROVE  Renewing'
  BY DEF Renewing, AnsweredFirst, CarriedIsCurrent, ShownIsCurrent, StrangersFirst, RenewedAfter, Renewal

\* What the user and the timer do.
LEMMA UserRenewing ==
    ASSUME TypeInv, Renewing, User \/ RefreshTimer
    PROVE  Renewing'
  <1> USE DEF screen, typing
  <1>l. /\ Load(TRUE, FALSE) \in Sent /\ Load(TRUE, FALSE).op = "load"
        /\ Load(TRUE, FALSE).own /\ Load(TRUE, FALSE).answer = "none"
    BY LoadIsSent
  <1>1. CASE Visit
    BY <1>1, <1>l, SendRenewing DEF Visit
  <1>2. CASE Leave
    <2>1. Pop(net) /\ net \in Seq(Sent)
      BY <1>2 DEF Leave, TypeInv
    <2> QED BY <2>1, PopRenewing DEF Renewing, AnsweredFirst
  <1>3. ASSUME NEW command \in Edits, NEW row \in Word \cup {NewRow}, OpenEditor(command, row)
        PROVE  Renewing'
    BY <1>3, SameRenewing DEF OpenEditor
  <1>4. ASSUME NEW f \in Fields(page), NEW w \in Word \cup {Blank}, Type(f, w)
        PROVE  Renewing'
    BY <1>4, SameRenewing DEF Type
  <1>5. CASE Close
    BY <1>5, SameRenewing DEF Close
  <1>6. CASE Confirm
    <2> DEFINE r == NewRequest(editor, Subject, text["name"])
    <2>1. Subject \in Word \cup {NewRow}
      BY <1>6 DEF Confirm, Subject, TypeInv, TypeOK, Edits
    <2>2. text["name"] \in Word /\ editor \in Edits
      BY <1>6 DEF Confirm, TypeInv, TypeOK, Text, Fields
    <2>3. r \in Sent /\ r.answer = "none" /\ r.own
      BY <2>1, <2>2 DEF NewRequest, Sent, Request
    <2>4. Send(r) /\ mounted /\ UNCHANGED <<mounted, list, rows, failed>>
      BY <1>6 DEF Confirm, Rendered
    <2> HIDE DEF r
    <2> QED BY <2>3, <2>4, SendRenewing
  <1>7. ASSUME NEW row \in Word, Use(row)
        PROVE  Renewing'
    <2> DEFINE r == NewRequest("use", row, Blank)
    <2>1. r \in Sent /\ r.answer = "none" /\ r.own
      BY DEF NewRequest, Sent, Request, Edits
    <2>2. Send(r) /\ mounted /\ UNCHANGED <<mounted, list, rows, failed>>
      BY <1>7 DEF Use, Rendered
    <2> HIDE DEF r
    <2> QED BY <2>1, <2>2, SendRenewing
  <1>8. CASE PullToRefresh
    BY <1>8, SameRenewing DEF PullToRefresh
  <1>9. CASE RefreshTimer
    BY <1>9, <1>l, SendRenewing DEF RefreshTimer
  <1> QED BY <1>1, <1>2, <1>3, <1>4, <1>5, <1>6, <1>7, <1>8, <1>9 DEF User

\* The requests after the oldest, and what the oldest did to the page.
LEMMA AnswerEffect ==
    ASSUME InOrder, TypeInv, NEW i \in DOMAIN net, Answer(i), mounted'
    PROVE  LET grows == net[1].op \in Edits /\ net[1].answer = "SUCCESS"
               rest  == RemoveAt(net, 1)
           IN  /\ net' = IF grows THEN Append(rest, Load(net[1].own, TRUE)) ELSE rest
               /\ UNCHANGED <<mounted, rows>>
               /\ ~ failed' =>
                     /\ net[1].own => net[1].answer # "FAILED"
                     /\ IF net[1].own /\ net[1].op = "load"
                        THEN net[1].answer = "SUCCESS" /\ list' = net[1].list
                        ELSE ~ failed /\ list' = list
  <1>1. i = 1
    BY DEF Answer, InTurn
  <1>2. CASE LoadAnswered(i)
    BY <1>1, <1>2 DEF LoadAnswered, Edits
  <1>3. CASE LoadFailed(i)
    BY <1>1, <1>3 DEF LoadFailed, Edits
  <1>4. CASE EditDone(i)
    BY <1>1, <1>4 DEF EditDone, Edits
  <1>5. CASE UseDone(i)
    BY <1>1, <1>5 DEF UseDone, Pop, Edits, screen
  <1>6. CASE CommandOver(i)
    BY <1>1, <1>6 DEF CommandOver, Edits, screen
  <1> QED BY <1>2, <1>3, <1>4, <1>5, <1>6 DEF Answer

\* The oldest request is removed.
LEMMA OldestRemoved ==
    ASSUME NEW s \in Seq(Sent), 1 \in 1..Len(s)
    PROVE  /\ RemoveAt(s, 1) \in Seq(Sent)
           /\ Len(s) \in Nat
           /\ Len(RemoveAt(s, 1)) = Len(s) - 1
           /\ \A j \in 1..(Len(s) - 1) : j + 1 \in 1..Len(s) /\ RemoveAt(s, 1)[j] = s[j + 1]
  <1> DEFINE rest == RemoveAt(s, 1)
  <1>1. /\ rest \in Seq(Sent)
        /\ Len(s) \in Nat
        /\ Len(rest) = Len(s) - 1
        /\ \A j \in 1..(Len(s) - 1) : rest[j] = s[IF j < 1 THEN j ELSE j + 1]
    BY RemoveAtElements
  <1> HIDE DEF rest
  <1>2. \A j \in 1..(Len(s) - 1) : j + 1 \in 1..Len(s) /\ (IF j < 1 THEN j ELSE j + 1) = j + 1
    BY <1>1
  <1>3. \A j \in 1..(Len(s) - 1) : j + 1 \in 1..Len(s) /\ rest[j] = s[j + 1]
    BY <1>1, <1>2, Zenon
  <1> QED BY <1>1, <1>3 DEF rest

\* The oldest request is answered.
LEMMA AnswerRenewing ==
    ASSUME InOrder, TypeInv, Renewing, NEW i \in DOMAIN net, Answer(i)
    PROVE  Renewing'
  <1> DEFINE rest == RemoveAt(net, 1)
             grows == net[1].op \in Edits /\ net[1].answer = "SUCCESS"
  <1>n. net \in Seq(Sent) /\ Len(net) \in Nat /\ i = 1 /\ 1 \in 1..Len(net) /\ net[1] \in Sent
    BY DEF TypeInv, Answer, InTurn
  <1>r. /\ rest \in Seq(Sent)
        /\ Len(rest) = Len(net) - 1
        /\ \A j \in 1..(Len(net) - 1) : j + 1 \in 1..Len(net) /\ rest[j] = net[j + 1]
    BY <1>n, OldestRemoved
  <1>l. /\ Load(net[1].own, TRUE) \in Sent /\ Load(net[1].own, TRUE).op = "load"
        /\ Load(net[1].own, TRUE).own = net[1].own /\ Load(net[1].own, TRUE).answer = "none"
    BY <1>n, LoadIsSent DEF Sent, Request
  <1>e. mounted' => /\ net' = IF grows THEN Append(rest, Load(net[1].own, TRUE)) ELSE rest
                    /\ UNCHANGED <<mounted, rows>>
                    /\ ~ failed' =>
                          /\ net[1].own => net[1].answer # "FAILED"
                          /\ IF net[1].own /\ net[1].op = "load"
                             THEN net[1].answer = "SUCCESS" /\ list' = net[1].list
                             ELSE ~ failed /\ list' = list
    BY AnswerEffect
  <1>p. CASE UseDone(i) /\ net[i].own
    <2>1. Pop(rest)
      BY <1>n, <1>p DEF UseDone
    <2> HIDE DEF rest
    <2>2. \A j, k \in 1..Len(rest) : j < k /\ rest[k].answer # "none" => rest[j].answer # "none"
      <3> SUFFICES ASSUME NEW j \in 1..Len(rest), NEW k \in 1..Len(rest), j < k, rest[k].answer # "none"
                   PROVE  rest[j].answer # "none"
        OBVIOUS
      <3>1. /\ j + 1 \in 1..Len(net) /\ rest[j] = net[j + 1]
            /\ k + 1 \in 1..Len(net) /\ rest[k] = net[k + 1]
            /\ j + 1 < k + 1
        BY <1>n, <1>r
      <3> QED BY <3>1 DEF Renewing, AnsweredFirst
    <2> QED BY <1>r, <2>1, <2>2, PopRenewing
  <1>q. CASE ~ (UseDone(i) /\ net[i].own)
    <2>1. net' = IF grows THEN Append(rest, Load(net[1].own, TRUE)) ELSE rest
      BY <1>n, <1>q DEF Answer, LoadAnswered, LoadFailed, EditDone, UseDone, CommandOver, Edits
    <2> HIDE DEF rest
    <2>3. /\ Len(net') = IF grows THEN Len(net) ELSE Len(net) - 1
          /\ \A j \in 1..(Len(net) - 1) : net'[j] = net[j + 1]
          /\ grows => /\ net'[Len(net)].op = "load" /\ net'[Len(net)].answer = "none"
                      /\ net'[Len(net)].own = net[1].own
      <3>1. CASE grows
        <4> DEFINE e == Load(net[1].own, TRUE)
        <4> HIDE DEF e
        <4>1. net' = Append(rest, e) /\ e \in Sent
          BY <2>1, <1>l, <3>1 DEF e
        <4>2. /\ Len(Append(rest, e)) = Len(rest) + 1
              /\ \A j \in 1..Len(rest) : Append(rest, e)[j] = rest[j]
              /\ Append(rest, e)[Len(rest) + 1] = e
          BY <1>r, <4>1, AppendProperties
        <4>3. Len(rest) + 1 = Len(net)
          BY <1>n, <1>r
        <4> QED BY <1>r, <1>l, <3>1, <4>1, <4>2, <4>3 DEF e
      <3>2. CASE ~ grows
        BY <2>1, <1>r, <3>2
      <3> QED BY <3>1, <3>2
    <2>s. /\ \A j \in 1..(Len(net) - 1) : j + 1 \in 1..Len(net)
          /\ \A j \in 1..Len(net') : j \in 1..(Len(net) - 1) \/ (j = Len(net) /\ grows)
          /\ \A j \in 1..(Len(net) - 1) : j \in 1..Len(net')
      BY <1>n, <2>3
    <2> HIDE DEF grows
    <2>4. AnsweredFirst'
      <3> SUFFICES ASSUME NEW j \in 1..Len(net'), NEW k \in 1..Len(net'), j < k, net'[k].answer # "none"
                   PROVE  net'[j].answer # "none"
        BY DEF AnsweredFirst
      <3>1. k \in 1..(Len(net) - 1) /\ net'[k] = net[k + 1] /\ k + 1 \in 1..Len(net)
        BY <2>3, <2>s
      <3>2. j \in 1..(Len(net) - 1) /\ net'[j] = net[j + 1] /\ j + 1 \in 1..Len(net) /\ j + 1 < k + 1
        BY <1>n, <2>3, <2>s, <3>1
      <3> QED BY <3>1, <3>2 DEF Renewing, AnsweredFirst
    <2>5. ASSUME NEW k \in 0..(Len(net) - 1), RenewedAfter(k + 1)
          PROVE  RenewedAfter(k)'
      <3>1. PICK j \in 1..Len(net) : j > k + 1 /\ Renewal(net[j])
        BY <2>5 DEF RenewedAfter
      <3>2. j - 1 \in 1..(Len(net) - 1) /\ j - 1 > k /\ (j - 1) + 1 = j
        BY <1>n, <3>1
      <3> DEFINE h == j - 1
      <3> HIDE DEF h
      <3>3. h \in 1..(Len(net) - 1) /\ h > k /\ net'[h] = net[j] /\ h \in 1..Len(net')
        BY <2>3, <2>s, <3>2 DEF h
      <3> QED BY <3>1, <3>3 DEF RenewedAfter, Renewal
    <2>6. ASSUME mounted' PROVE CarriedIsCurrent'
      <3> SUFFICES ASSUME NEW j \in 1..Len(net'), net'[j].own, net'[j].op = "load", net'[j].answer = "SUCCESS"
                   PROVE  net'[j].list = rows' \/ RenewedAfter(j)'
        BY DEF CarriedIsCurrent
      <3>1. j \in 1..(Len(net) - 1) /\ net'[j] = net[j + 1] /\ j + 1 \in 1..Len(net)
        BY <2>3, <2>s
      <3>2. (net[j + 1].list = rows \/ RenewedAfter(j + 1)) /\ rows' = rows
        BY <1>e, <2>6, <3>1 DEF Renewing, CarriedIsCurrent
      <3> QED BY <2>5, <1>n, <3>1, <3>2
    <2>7. ASSUME mounted' PROVE ShownIsCurrent'
      <3> SUFFICES ASSUME ~ failed' PROVE list' = rows' \/ RenewedAfter(0)'
        BY DEF ShownIsCurrent
      <3>0. RenewedAfter(1) => RenewedAfter(0)'
        <4>1. 0 \in 0..(Len(net) - 1) /\ 0 + 1 = 1
          BY <1>n
        <4> QED BY <2>5, <4>1
      <3>e. /\ mounted /\ rows' = rows /\ (net[1].own => net[1].answer # "FAILED")
            /\ IF net[1].own /\ net[1].op = "load"
               THEN net[1].answer = "SUCCESS" /\ list' = net[1].list
               ELSE ~ failed /\ list' = list
        BY <1>e, <2>7
      <3>1. CASE net[1].own /\ net[1].op = "load"
        BY <1>n, <3>0, <3>e, <3>1 DEF Renewing, CarriedIsCurrent
      <3>2. CASE net[1].own /\ grows
        <4>1. Len(net) \in 1..Len(net') /\ Len(net) > 0
          BY <1>n, <2>3, <3>2
        <4> QED BY <2>3, <3>2, <4>1 DEF RenewedAfter, Renewal
      <3>3. CASE ~ (net[1].own /\ net[1].op = "load") /\ ~ (net[1].own /\ grows)
        <4>1. ~ Renewal(net[1])
          BY <3>e, <3>3 DEF Renewal, grows
        <4>2. RenewedAfter(0) => RenewedAfter(1)
          BY <4>1, <1>n DEF RenewedAfter
        <4> QED BY <3>0, <3>e, <3>3, <4>2 DEF Renewing, ShownIsCurrent
      <3> QED BY <3>1, <3>2, <3>3
    <2>8. ASSUME mounted' PROVE StrangersFirst'
      <3> SUFFICES ASSUME NEW j \in 1..Len(net'), net'[j].answer = "none", net'[j].op \in Edits, ~ net'[j].own
                   PROVE  \E m \in 1..Len(net') : m > j /\ net'[m].own /\ net'[m].op = "load"
        BY DEF StrangersFirst
      <3>1. j \in 1..(Len(net) - 1) /\ net'[j] = net[j + 1] /\ j + 1 \in 1..Len(net)
        BY <2>3, <2>s DEF Edits
      <3>2. PICK m \in 1..Len(net) : m > j + 1 /\ net[m].own /\ net[m].op = "load"
        BY <1>e, <2>8, <3>1 DEF Renewing, StrangersFirst
      <3>3. m - 1 \in 1..(Len(net) - 1) /\ m - 1 > j /\ (m - 1) + 1 = m
        BY <1>n, <3>2
      <3> DEFINE h == m - 1
      <3> HIDE DEF h
      <3>4. h \in 1..Len(net') /\ h > j /\ net'[h] = net[m]
        BY <2>3, <2>s, <3>3 DEF h
      <3> QED BY <3>2, <3>4
    <2> QED BY <2>4, <2>6, <2>7, <2>8 DEF Renewing
  <1> QED BY <1>p, <1>q
\* The server answers the oldest request that has no answer.
LEMMA ServerRenewing ==
    ASSUME InOrder, TypeInv, Renewing, NEW i \in DOMAIN net, Server(i)
    PROVE  Renewing'
  <1>n. /\ net \in Seq(Sent) /\ Len(net) \in Nat /\ i \in 1..Len(net) /\ net[i] \in Sent
        /\ net[i].answer = "none"
        /\ \A j \in 1..Len(net) : j < i => net[j].answer # "none"
        /\ \A j \in 1..Len(net) : j >= i => net[j].answer = "none"
    <2>1. net \in Seq(Sent) /\ Len(net) \in Nat /\ i \in 1..Len(net) /\ net[i] \in Sent
      BY DEF TypeInv
    <2>2. Arrives(i)
      BY DEF Server, Serve, Refuse, Lose
    <2>3. net[i].answer = "none" /\ \A j \in 1..(i - 1) : net[j].answer # "none"
      BY <2>2 DEF Arrives
    <2>4. \A j \in 1..Len(net) : j < i => j \in 1..(i - 1)
      BY <2>1
    <2>5. \A j \in 1..Len(net) : j > i => net[j].answer = "none"
      BY <2>1, <2>3 DEF Renewing, AnsweredFirst
    <2>6. \A j \in 1..Len(net) : j >= i => j = i \/ j > i
      BY <2>1
    <2> QED BY <2>1, <2>3, <2>4, <2>5, <2>6
  <1>1. PICK r \in Sent :
           /\ net' = [net EXCEPT ![i] = r]
           /\ r.op = net[i].op /\ r.own = net[i].own
           /\ r.answer # "none"
           /\ r.op \notin Edits => rows' = rows /\ (r.answer = "SUCCESS" /\ r.op = "load" => r.list = rows)
           /\ rows' = rows \/ r.answer \in {"SUCCESS", "FAILED"}
    BY ServerNet
  <1>2. UNCHANGED <<mounted, list, failed>>
    BY DEF Server, Serve, Refuse, Lose, screen
  <1>3. /\ Len(net') = Len(net)
        /\ net'[i] = r
        /\ \A j \in 1..Len(net) : j # i => net'[j] = net[j]
    BY <1>n, <1>1
  <1>4. AnsweredFirst'
    <2> SUFFICES ASSUME NEW j \in 1..Len(net), NEW k \in 1..Len(net), j < k, net'[k].answer # "none"
                 PROVE  net'[j].answer # "none"
      BY <1>3 DEF AnsweredFirst
    <2>1. k <= i
      BY <1>n, <1>3
    <2> QED BY <1>n, <1>3, <2>1
  <1>5. \A k \in 0..Len(net) : RenewedAfter(k) => RenewedAfter(k)'
    <2> SUFFICES ASSUME NEW k \in 0..Len(net), RenewedAfter(k)
                 PROVE  RenewedAfter(k)'
      OBVIOUS
    <2>1. PICK j \in 1..Len(net) : j > k /\ Renewal(net[j])
      BY DEF RenewedAfter
    <2>2. CASE j # i
      BY <1>3, <2>1, <2>2 DEF RenewedAfter, Renewal
    <2>3. CASE j = i
      <3>1. net[i].own /\ net[i].op = "load"
        BY <1>n, <2>1, <2>3 DEF Renewal
      <3>2. Renewal(r)
        BY <1>1, <3>1 DEF Renewal
      <3> QED BY <1>3, <2>1, <2>3, <3>2 DEF RenewedAfter, Renewal
    <2> QED BY <2>2, <2>3
  \* A change of the list is followed by a renewal, and so is all that was
  \* answered before it.
  <1>6. ASSUME mounted, rows' # rows
        PROVE  \A k \in 0..(i - 1) : RenewedAfter(k)'
    <2>1. r.op \in Edits /\ r.answer \in {"SUCCESS", "FAILED"}
      BY <1>1, <1>6
    <2>2. CASE Renewal(r)
      BY <1>n, <1>3, <2>2 DEF RenewedAfter, Renewal
    <2>3. CASE ~ Renewal(r)
      <3>1. ~ net[i].own
        BY <1>1, <2>1, <2>3 DEF Renewal
      <3>2. PICK j \in 1..Len(net) : j > i /\ net[j].own /\ net[j].op = "load"
        BY <1>6, <1>n, <1>1, <2>1, <3>1 DEF Renewing, StrangersFirst
      <3>3. net'[j] = net[j] /\ \A k \in 0..(i - 1) : j > k
        BY <1>n, <1>3, <3>2
      <3> QED BY <1>3, <3>2, <3>3 DEF RenewedAfter, Renewal
    <2> QED BY <2>2, <2>3
  <1>7. ASSUME mounted PROVE CarriedIsCurrent'
    <2> SUFFICES ASSUME NEW j \in 1..Len(net), net'[j].own, net'[j].op = "load", net'[j].answer = "SUCCESS"
                 PROVE  net'[j].list = rows' \/ RenewedAfter(j)'
      BY <1>3 DEF CarriedIsCurrent
    <2>1. j <= i
      BY <1>n, <1>3
    <2>2. CASE j = i
      BY <1>1, <1>3, <2>2 DEF Edits
    <2>3. CASE j < i
      <3>1. net'[j] = net[j] /\ j \in 0..(i - 1) /\ j \in 0..Len(net)
        BY <1>n, <1>3, <2>3
      <3>2. net[j].list = rows \/ RenewedAfter(j)
        BY <1>7, <3>1 DEF Renewing, CarriedIsCurrent
      <3> QED BY <1>5, <1>6, <1>7, <3>1, <3>2
    <2> QED BY <1>n, <2>1, <2>2, <2>3
  <1>8. ASSUME mounted PROVE ShownIsCurrent'
    <2>1. 0 \in 0..(i - 1) /\ 0 \in 0..Len(net)
      BY <1>n
    <2> QED BY <1>2, <1>5, <1>6, <1>8, <2>1 DEF Renewing, ShownIsCurrent
  <1>9. ASSUME mounted PROVE StrangersFirst'
    <2> SUFFICES ASSUME NEW j \in 1..Len(net), net'[j].answer = "none", net'[j].op \in Edits, ~ net'[j].own
                 PROVE  \E m \in 1..Len(net) : m > j /\ net'[m].own /\ net'[m].op = "load"
      BY <1>3 DEF StrangersFirst
    <2>1. j # i /\ net'[j] = net[j]
      BY <1>1, <1>3
    <2>2. PICK m \in 1..Len(net) : m > j /\ net[m].own /\ net[m].op = "load"
      BY <1>9, <2>1 DEF Renewing, StrangersFirst
    <2>3. net'[m].own = net[m].own /\ net'[m].op = net[m].op
      BY <1>1, <1>3
    <2> QED BY <2>2, <2>3
  <1> QED BY <1>2, <1>4, <1>7, <1>8, <1>9 DEF Renewing

LEMMA StepRenewing == TypeInv /\ (InOrder => Renewing) /\ [Next]_vars => (InOrder => Renewing)'
  <1> SUFFICES ASSUME InOrder, TypeInv, Renewing, [Next]_vars PROVE Renewing'
    OBVIOUS
  <1>1. CASE UNCHANGED vars
    BY <1>1, SameRenewing DEF vars, screen
  <1> QED BY <1>1, UserRenewing, AnswerRenewing, ServerRenewing DEF Next

LEMMA RenewingSettles == (InOrder => Renewing) => SettledShowsServerList
  <1>1. Len(<<>>) = 0 /\ 1..0 = {}
    OBVIOUS
  <1> QED BY <1>1 DEF Renewing, ShownIsCurrent, RenewedAfter, SettledShowsServerList, Rendered

\* However commands, refreshes and visits overlap and fail, a page that has
\* heard of everything and of no failure shows the list of the server
\* (AddressPage.js:249-314, MyOrderListPage.js:88-98, 225-253).
THEOREM SettledShowsServerListHolds == Spec => []SettledShowsServerList
  <1>1. Init => (InOrder => Renewing)
    BY InitRenewing
  <1> QED BY <1>1, InitTypeInv, StepTypeInv, StepRenewing, RenewingSettles, PTL DEF Spec
==============================================================================
