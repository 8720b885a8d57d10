-------------------------- MODULE DoorSystemProofs --------------------------
(***************************************************************************)
(* For every depth of the stack, every size of the queues and every        *)
(* sequence of keys, touches, losses and restarts: first, every message is *)
(* in a queue that is meant for it, and the screen and the stack agree as  *)
(* far as tasks that do not lock them can make them; then the accounts     *)
(* balance: the door opens once for each right password typed for it, less *)
(* those lost, and no password is changed without a verification of the    *)
(* old one.                                                                *)
(***************************************************************************)
EXTENDS DoorSystem, ListProofs, SequenceTheorems, TLAPS

(* What a task publishes goes to a queue meant for it (event_publish,      *)
(* app.c:60-74).                                                           *)
LEMMA DutyFits ==
    ASSUME NEW t \in Tasks, NEW e \in Duties[t], e.op = "publish"
    PROVE  e.to \in Queues /\ e.msg \in Carried[e.to]
<1> USE DEF Duties, Drawings, Carried, Sent, InvokeBack, DrawTop, Queues
<1>1. CASE t = "ui"
  BY <1>1
<1>2. CASE t = "system"
  BY <1>2
<1>3. CASE t = "doorlock"
  BY <1>3
<1>4. CASE t = "fg"
  BY <1>4
<1> QED BY <1>1, <1>2, <1>3, <1>4 DEF Tasks

(* A task that takes a message leaves queues and duties in order. *)
LEMMA TakeKeeps ==
    ASSUME BusOK, NEW q \in Queues, NEW out \in Seq(Duties[q]), Take(q, out)
    PROVE  BusOK' /\ Head(queue[q]) \in Carried[q]
<1>1. q \in Tasks /\ queue[q] \in Seq(Carried[q]) /\ queue[q] # <<>>
  BY DEF BusOK, Take, Queues, Tasks
<1>2. /\ Tail(queue[q]) \in Seq(Carried[q]) /\ Len(Tail(queue[q])) = Len(queue[q]) - 1
      /\ Head(queue[q]) \in Carried[q]
  BY <1>1, HeadTailProperties
<1>3. Cap[q] \in Nat /\ Len(queue[q]) \in Nat /\ Len(queue[q]) <= Cap[q]
  BY <1>1, BusAssumption DEF BusOK, Cap, Queues
<1>4. \A r \in Queues : queue'[r] \in Seq(Carried[r]) /\ Len(queue'[r]) <= Cap[r]
  <2>1. \A r \in Queues : queue'[r] = IF r = q THEN Tail(queue[q]) ELSE queue[r]
    BY DEF BusOK, Take
  <2>2. Len(Tail(queue[q])) <= Cap[q]
    BY <1>2, <1>3
  <2> QED BY <1>2, <2>1, <2>2 DEF BusOK
<1>5. \A t \in Tasks : todo'[t] \in Seq(Duties[t])
  BY <1>1 DEF BusOK, Take
<1>6. DOMAIN queue' = Queues /\ DOMAIN todo' = Tasks
  BY DEF BusOK, Take
<1> QED BY <1>2, <1>4, <1>5, <1>6 DEF BusOK

(* So does one that starts publishing of its own accord ... *)
LEMMA StartKeeps ==
    ASSUME BusOK, NEW t \in Tasks, NEW out \in Seq(Duties[t]), Start(t, out), UNCHANGED queue
    PROVE  BusOK'
  BY DEF BusOK, Start

(* One duty done: what it published, if anything, went where it belongs. *)
LEMMA DutyDone ==
    ASSUME BusOK, NEW t \in Tasks, ~Idle(t), todo' = [todo EXCEPT ![t] = Tail(@)]
    PROVE  /\ Head(todo[t]) \in Duties[t]
           /\ DOMAIN todo' = Tasks
           /\ \A u \in Tasks : todo'[u] \in Seq(Duties[u])
<1>1. todo[t] \in Seq(Duties[t]) /\ todo[t] # <<>>
  BY DEF BusOK, Idle
<1>2. Head(todo[t]) \in Duties[t] /\ Tail(todo[t]) \in Seq(Duties[t])
  BY <1>1, HeadTailProperties
<1> QED BY <1>2 DEF BusOK

(* A queue with room takes one more message of its kind. *)
LEMMA PostedKeeps ==
    ASSUME BusOK, NEW q \in Queues, NEW msg \in Carried[q], ~Full(q),
           queue' = [queue EXCEPT ![q] = Append(@, msg)]
    PROVE  /\ DOMAIN queue' = Queues
           /\ \A r \in Queues : queue'[r] \in Seq(Carried[r]) /\ Len(queue'[r]) <= Cap[r]
<1> DEFINE s == queue[q]
           X == Carried[q]
<1>1. Cap[q] \in Nat /\ s \in Seq(X) /\ Len(s) < Cap[q] /\ msg \in X
  BY BusAssumption DEF BusOK, Full, Cap, Queues
<1>2. Append(s, msg) \in Seq(X) /\ Len(Append(s, msg)) <= Cap[q]
  <2> HIDE DEF s, X
  <2> QED BY <1>1
<1> QED BY <1>2 DEF BusOK

(* ... and one that publishes, loses what it publishes (a full queue,      *)
(* app.c:65-70), or delays a call.                                         *)
LEMMA SentKeeps ==
    ASSUME BusOK, NEW t \in Tasks, PublishSent(t)
    PROVE  BusOK'
<1> DEFINE e == Head(todo[t])
<1>1. /\ e \in Duties[t] /\ e.op = "publish"
      /\ DOMAIN todo' = Tasks /\ \A u \in Tasks : todo'[u] \in Seq(Duties[u])
  BY DutyDone DEF PublishSent, Publishing
<1>2. e.to \in Queues /\ e.msg \in Carried[e.to]
  BY <1>1, DutyFits
<1>3. ~Full(e.to) /\ queue' = [queue EXCEPT ![e.to] = Append(@, e.msg)]
  BY DEF PublishSent
<1> QED BY <1>1, <1>2, <1>3, PostedKeeps DEF BusOK

(* The same for a message lost and a delayed call refused ... *)
LEMMA LostKeeps ==
    ASSUME BusOK, NEW t \in Tasks, PublishLost(t) \/ InvokeRefused(t)
    PROVE  BusOK'
<1>1. ~Idle(t) /\ todo' = [todo EXCEPT ![t] = Tail(@)] /\ queue' = queue
  BY DEF PublishLost, Publishing, InvokeRefused, Invoking
<1> QED BY <1>1, DutyDone DEF BusOK

(* ... and for one accepted, with its wake-up in queue_system. *)
LEMMA AcceptedKeeps ==
    ASSUME BusOK, NEW t \in Tasks, InvokeAccepted(t)
    PROVE  BusOK'
<1>1. ~Idle(t) /\ todo' = [todo EXCEPT ![t] = Tail(@)]
  BY DEF InvokeAccepted, Invoking
<1>2. DOMAIN todo' = Tasks /\ \A u \in Tasks : todo'[u] \in Seq(Duties[u])
  BY <1>1, DutyDone
<1>3. CASE UNCHANGED queue
  BY <1>2, <1>3 DEF BusOK
<1>4. CASE ~Full("system") /\ queue' = [queue EXCEPT !["system"] = Append(@, [type |-> "dummy"])]
  <2>1. "system" \in Queues /\ [type |-> "dummy"] \in Carried["system"]
    BY DEF Queues, Carried, DummyMessage
  <2> QED BY <1>2, <1>4, <2>1, PostedKeeps DEF BusOK
<1> QED BY <1>3, <1>4 DEF InvokeAccepted

(* What a task prints is an activity, or NULL if nothing is on the stack.  *)
LEMMA Printable ==
    ASSUME NEW a \in Activity
    PROVE  Draw(a) \in Drawings /\ {"ui", "system"} \subseteq Tasks
           /\ Drawings \subseteq Duties["ui"] /\ Drawings \subseteq Duties["system"]
  BY DEF Draw, Drawings, Duties, Tasks

LEMMA TopIs == ActivitiesOK /\ Top # NULL => stack # <<>> /\ Top \in Activity
  BY DEF ActivitiesOK, Top

(* Only the UI task and system_service work on the stack, and what they    *)
(* are to print is an activity.                                            *)
LEMMA OnlyTwoDraw ==
    ASSUME BusOK, NEW t \in Tasks, Drawing(t)
    PROVE  /\ t \in {"ui", "system"}
           /\ Head(todo[t]) = DrawTop \/ Head(todo[t]).act \in Activity
<1>1. todo[t] \in Seq(Duties[t]) /\ todo[t] # <<>>
  BY DEF BusOK, Drawing, Idle
<1>2. Head(todo[t]) \in Duties[t] /\ Head(todo[t]).op \in {"print", "peek"}
  BY <1>1, HeadTailProperties DEF Drawing
<1>3. Head(todo[t]) \in Drawings => Head(todo[t]) = DrawTop \/ Head(todo[t]).act \in Activity
  BY DEF Drawings
<1>4. CASE t = "ui"
  BY <1>2, <1>3, <1>4 DEF Duties, Sent, InvokeBack
<1>5. CASE t = "system"
  BY <1>2, <1>3, <1>5 DEF Duties, Sent
<1>6. CASE t = "doorlock"
  BY <1>2, <1>6 DEF Duties, Sent
<1>7. CASE t = "fg"
  BY <1>2, <1>7 DEF Duties, Sent
<1> QED BY <1>4, <1>5, <1>6, <1>7 DEF Tasks

(* A page found to be printed, and one printed, leave the bus in order. *)
LEMMA PeekKeeps ==
    ASSUME BusOK, ActivitiesOK, NEW t \in Tasks, Peek(t)
    PROVE  BusOK'
<1>1. CASE Top = NULL
  BY <1>1 DEF Peek, BusOK
<1>2. CASE Top # NULL
  <2>1. t \in {"ui", "system"} /\ Draw(Top) \in Duties[t]
    BY <1>2, OnlyTwoDraw, Printable, TopIs DEF Peek
  <2>2. todo[t] \in Seq(Duties[t]) /\ todo[t] # <<>>
    BY DEF Peek, Drawing, BusOK, Idle
  <2>3. <<Draw(Top)>> \o Tail(todo[t]) \in Seq(Duties[t])
    BY <2>1, <2>2, HeadTailProperties, CountBefore
  <2> QED BY <1>2, <2>3 DEF Peek, BusOK
<1> QED BY <1>1, <1>2

LEMMA DrawnKeeps ==
    ASSUME BusOK, NEW t \in Tasks, Drawn(t)
    PROVE  BusOK'
<1>1. ~Idle(t) /\ todo' = [todo EXCEPT ![t] = Tail(@)] /\ queue' = queue
  BY DEF Drawn, Drawing
<1> QED BY <1>1, DutyDone DEF BusOK

(* What the three requests of the UI task are. *)
AuthRequest ==
    To("SERV_AUTH", [type |-> "auth", trusted |-> FALSE, pasw |-> input["psw_auth"],
                     respond |-> RespondTo(authFor), for |-> authFor,
                     validEcho |-> FALSE, wrongEcho |-> TRUE])
AlterRequest == To("SERV_SYSOP", [type |-> "sysop", grant |-> grant, new |-> input["psw_alter"]])

(* What a handler has to publish is at most two messages. *)
LEMMA OneDuty ==
    ASSUME NEW S
    PROVE  <<>> \in Seq(S) /\ \A e \in S : <<e>> \in Seq(S) /\ \A f \in S : <<e, f>> \in Seq(S)
  OBVIOUS

(* The requests of the UI task are well formed. *)
LEMMA UiRequests ==
    ASSUME UiOK
    PROVE  /\ AuthRequest \in Sent("system", AuthMessage)
           /\ AlterRequest \in Sent("system", SysopMessage)
           /\ {AuthRequest, AlterRequest, InvokeBack, DrawTop} \subseteq Duties["ui"]
<1>1. authFor \in Purpose /\ grant \in Seq(Chars) /\ input["psw_auth"] \in Seq(Chars)
      /\ input["psw_alter"] \in Seq(Chars)
  BY DEF UiOK, InputPages
<1>2. RespondTo(authFor) \in {"HW_DOOR_LOCK", "SERV_UI"}
  BY DEF RespondTo
<1>3. AuthRequest \in Sent("system", AuthMessage)
  BY <1>1, <1>2 DEF AuthRequest, To, QueueOf, Sent, AuthMessage
<1>4. AlterRequest \in Sent("system", SysopMessage)
  BY <1>1 DEF AlterRequest, To, QueueOf, Sent, SysopMessage
<1>5. {AuthRequest, AlterRequest, InvokeBack, DrawTop} \subseteq Duties["ui"]
  BY <1>3, <1>4 DEF Duties, Drawings, Sent
<1> QED BY <1>3, <1>4, <1>5

(* No entry of a list leads home, or to the new-password page. *)
LEMMA EntryLaunches ==
    ASSUME NEW l \in Lists, NEW i \in 1 .. 3, Content[l][i].act = "LAUNCH"
    PROVE  Content[l][i].arg \in Activity \ {"home", "psw_alter"}
<1>1. CASE l = "manu"
  BY <1>1 DEF Content, Activity, Lists, InputPages
<1>2. CASE l = "fg_mode_set"
  BY <1>2 DEF Content, Activity, Lists, InputPages
<1> QED BY <1>1, <1>2 DEF Lists

(* What the UI task can do with a message: nothing to the stack, or one of *)
(* the three operations, and then perhaps a request or a delayed call.     *)
UiQuiet == UNCHANGED activityVars /\ Take("ui", <<>>)
UiPushes(a) ==
    Push(a) /\ (Take("ui", <<Draw(a)>>) \/ Take("ui", <<Draw(a), InvokeBack>>))
UiPops == Pop /\ Take("ui", <<DrawTop>>)
UiRefreshes ==
    Refresh /\ (Take("ui", <<DrawTop>>) \/ Take("ui", <<DrawTop, InvokeBack>>))
UiAsks(request) == Pop /\ Take("ui", <<DrawTop, request>>)

LEMMA UiTakes ==
    ASSUME UiHandle, UiOK
    PROVE  /\ up
           /\ \/ UiQuiet
              \/ OnKeyAtNull /\ Take("ui", <<>>)
              \/ \E a \in Activity \ {"home", "psw_alter"} : UiPushes(a)
              \/ OnAlterGranted /\ UiPushes("psw_alter")
              \/ UiPops
              \/ UiRefreshes
              \/ UiAsks(AuthRequest)
              \/ OnAlterConfirm /\ UiAsks(AlterRequest)
<1> USE DEF Receive, KeyPressed
<1>1. up
  BY DEF UiHandle, OnReflex, OnUnlock, OnUnlocked, OnRelock, OnFgStart, OnFgProgress, OnFgEnd,
         OnHomeEnter, OnListShift, OnListEnter, OnReturn, OnHomeChar, OnInputChar, OnAuthConfirm,
         OnAlterConfirm, OnUnusedKey, OnKeyAtNull, OnAlterGranted, OnOtherResult
<1>2. {"popup", "door_unlock", "fg_reader", "manu", "psw_auth"} \subseteq Activity \ {"home", "psw_alter"}
  BY DEF Activity, Lists, InputPages
<1>3. CASE OnReflex
  BY <1>1, <1>2, <1>3 DEF OnReflex, UiPushes
<1>4. CASE OnUnlock \/ OnFgStart \/ OnHomeEnter \/ OnHomeChar
  <2>1. UiPushes("door_unlock") \/ UiPushes("fg_reader") \/ UiPushes("manu") \/ UiPushes("psw_auth")
    BY <1>4 DEF OnUnlock, OnFgStart, OnHomeEnter, OnHomeChar, LaunchAuth, UiPushes
  <2> QED BY <1>1, <1>2, <2>1
<1>5. CASE OnUnlocked \/ OnFgProgress \/ OnFgEnd \/ OnListShift
  BY <1>1, <1>5 DEF OnUnlocked, OnFgProgress, OnFgEnd, OnListShift, UiRefreshes
<1>6. CASE OnRelock \/ OnReturn
  BY <1>1, <1>6 DEF OnRelock, OnReturn, UiPops
<1>7. CASE OnInputChar \/ OnUnusedKey \/ OnOtherResult
  BY <1>1, <1>7 DEF OnInputChar, OnUnusedKey, OnOtherResult, UiQuiet
<1>8. CASE OnListEnter
  <2> DEFINE entry == Content[Top][select[Top]]
  <2>1. Top \in Lists /\ select[Top] \in 1 .. 3
    BY <1>8 DEF OnListEnter, UiOK
  <2>2. entry.act = "LAUNCH" => entry.arg \in Activity \ {"home", "psw_alter"}
    BY <2>1, EntryLaunches
  <2> HIDE DEF entry
  <2>3. \/ entry.act = "LAUNCH" /\ UiPushes(entry.arg)
        \/ UiQuiet
        \/ UiPushes("psw_auth")
    BY <1>8 DEF OnListEnter, LaunchAuth, UiPushes, UiQuiet, entry
  <2> QED BY <1>1, <1>2, <2>2, <2>3
<1>9. CASE OnKeyAtNull
  BY <1>1, <1>9 DEF OnKeyAtNull
<1>10. CASE OnAlterGranted
  BY <1>1, <1>10 DEF OnAlterGranted, UiPushes
<1>11. CASE OnAuthConfirm
  BY <1>1, <1>11 DEF OnAuthConfirm, AuthRequest, UiAsks
<1>12. CASE OnAlterConfirm
  BY <1>1, <1>12 DEF OnAlterConfirm, AlterRequest, UiAsks
<1> QED BY <1>3, <1>4, <1>5, <1>6, <1>7, <1>8, <1>9, <1>10, <1>11, <1>12 DEF UiHandle

(* Whatever it does, it is left with duties of the UI task. *)
LEMMA UiTakesOut ==
    ASSUME UiHandle, UiOK
    PROVE  \E out \in Seq(Duties["ui"]) : Take("ui", out)
<1>1. \A e, f \in Duties["ui"] : {<<>>, <<e>>, <<e, f>>} \subseteq Seq(Duties["ui"])
  BY OneDuty
<1>2. AuthRequest \in Duties["ui"] /\ AlterRequest \in Duties["ui"]
      /\ InvokeBack \in Duties["ui"] /\ DrawTop \in Duties["ui"]
  BY UiRequests
<1>3. \A a \in Activity : Draw(a) \in Duties["ui"]
  BY Printable
<1>4. CASE UiQuiet \/ Take("ui", <<>>)
  BY <1>1, <1>2, <1>4 DEF UiQuiet
<1>5. ASSUME NEW a \in Activity, UiPushes(a) PROVE \E out \in Seq(Duties["ui"]) : Take("ui", out)
  BY <1>1, <1>2, <1>3, <1>5 DEF UiPushes
<1>6. CASE UiPops \/ UiRefreshes \/ UiAsks(AuthRequest) \/ UiAsks(AlterRequest)
  BY <1>1, <1>2, <1>6 DEF UiPops, UiRefreshes, UiAsks
<1>7. "psw_alter" \in Activity
  BY DEF Activity, InputPages
<1> QED BY <1>4, <1>5, <1>6, <1>7, UiTakes

(* What the UI task handles leaves the bus in order. *)
LEMMA UiBus ==
    ASSUME BusOK, UiOK, UiHandle
    PROVE  BusOK' /\ Msg \in Carried["ui"]
<1>1. PICK out \in Seq(Duties["ui"]) : Take("ui", out)
  BY UiTakesOut
<1> QED BY <1>1, TakeKeeps DEF Queues, Msg

(* A typed character keeps the input within its bound. *)
LEMMA AppendedFits ==
    ASSUME NEW text \in Seq(Chars), NEW c \in Chars, Len(text) <= MaxInput
    PROVE  Appended(text, c) \in Seq(Chars) /\ Len(Appended(text, c)) <= MaxInput
  BY UiAssumption DEF Appended

(* Pages, lists and cached passwords stay what they are whatever the UI    *)
(* handles.                                                                *)
LEMMA UiTypes ==
    ASSUME BusOK, UiOK, UiHandle
    PROVE  UiOK'
<1>1. ASSUME UNCHANGED <<input, authFor, grant, fgNext>>, select' \in [Lists -> 1 .. 3] PROVE UiOK'
  BY <1>1 DEF UiOK
<1>2. select \in [Lists -> 1 .. 3]
  BY DEF UiOK
<1>3. CASE OnReflex \/ OnUnlock \/ OnUnlocked \/ OnRelock \/ OnFgStart \/ OnFgProgress \/ OnFgEnd
             \/ OnHomeEnter \/ OnReturn \/ OnUnusedKey \/ OnKeyAtNull \/ OnOtherResult
  BY <1>1, <1>2, <1>3 DEF OnReflex, OnUnlock, OnUnlocked, OnRelock, OnFgStart, OnFgProgress, OnFgEnd,
     OnHomeEnter, OnReturn, OnUnusedKey, OnKeyAtNull, OnOtherResult, uiVars
<1>4. CASE OnListShift
  <2>1. PICK dir \in {-1, 1} : Top \in Lists /\ select' = [select EXCEPT ![Top] = Shifted(Top, dir)]
    BY <1>4 DEF OnListShift
  <2>2. DOMAIN Content[Top] = 1 .. 3
    BY <2>1 DEF Content, Lists
  <2>3. Shifted(Top, dir) \in 1 .. 3
    BY <1>2, <2>1, <2>2 DEF Shifted
  <2>4. select' \in [Lists -> 1 .. 3]
    BY <1>2, <2>1, <2>3
  <2> QED BY <1>1, <1>4, <2>4 DEF OnListShift
<1>5. CASE OnListEnter
  <2> DEFINE entry == Content[Top][select[Top]]
  <2>1. Top \in Lists /\ select[Top] \in 1 .. 3
    BY <1>5 DEF OnListEnter, UiOK
  <2>2. entry.act = "AUTH" => entry.arg \in Purpose
    BY <2>1 DEF Content, Lists, Purpose
  <2>3. entry.act = "I_SET" => entry.arg \in Jobs
    BY <2>1 DEF Content, Lists, Jobs
  <2> QED BY <1>2, <1>5, <2>2, <2>3 DEF OnListEnter, LaunchAuth, UiOK
<1>6. ASSUME NEW p \in InputPages, NEW text \in Seq(Chars), Len(text) <= MaxInput,
             input' = [input EXCEPT ![p] = text], authFor' \in Purpose, UNCHANGED <<grant, select, fgNext>>
      PROVE  UiOK'
  BY <1>6 DEF UiOK
<1>7. \A p \in InputPages : input[p] \in Seq(Chars) /\ Len(input[p]) <= MaxInput
  BY DEF UiOK
<1>8. <<>> \in Seq(Chars) /\ Len(<<>>) <= MaxInput
  BY UiAssumption
<1>9. CASE OnHomeChar
  <2>1. PICK c \in Chars : input' = [input EXCEPT !["psw_auth"] = Appended(<<>>, c)]
    BY <1>9 DEF OnHomeChar
  <2>2. Appended(<<>>, c) \in Seq(Chars) /\ Len(Appended(<<>>, c)) <= MaxInput
    BY <1>8, AppendedFits
  <2> QED BY <1>6, <1>9, <2>1, <2>2 DEF OnHomeChar, LaunchAuth, InputPages, Purpose
<1>10. CASE OnInputChar
  <2>1. PICK c \in Chars : Top \in InputPages /\ input' = [input EXCEPT ![Top] = Appended(@, c)]
    BY <1>10 DEF OnInputChar
  <2>2. input[Top] \in Seq(Chars) /\ Len(input[Top]) <= MaxInput
    BY <1>7, <2>1
  <2>3. Appended(input[Top], c) \in Seq(Chars) /\ Len(Appended(input[Top], c)) <= MaxInput
    BY <2>2, AppendedFits
  <2> QED BY <1>6, <1>10, <2>1, <2>3 DEF OnInputChar, UiOK
<1>11. CASE OnAuthConfirm \/ OnAlterConfirm
  BY <1>6, <1>8, <1>11 DEF OnAuthConfirm, OnAlterConfirm, InputPages, UiOK
<1>12. CASE OnAlterGranted
  <2>1. Msg \in Carried["ui"] /\ Msg.type = "result"
    BY <1>12, UiBus DEF OnAlterGranted, Receive
  <2>2. Msg.pasw \in Seq(Chars)
    BY <2>1 DEF Carried, KeyMessage, LockMessage, FgMessage, ReflexMessage, ResultMessage
  <2> QED BY <1>12, <2>2 DEF OnAlterGranted, UiOK
<1> QED BY <1>3, <1>4, <1>5, <1>9, <1>10, <1>11, <1>12 DEF UiHandle

(* Duties other than printing; the reader and the lock have no others.     *)
Others(t) == {e \in Duties[t] : e.op \notin {"print", "peek"}}

LEMMA OthersAre ==
    ASSUME NEW t \in Tasks
    PROVE  /\ Seq(Others(t)) \subseteq Seq(Duties[t])
           /\ t \in {"fg", "doorlock"} => Others(t) = Duties[t]
<1>1. Others(t) \subseteq Duties[t]
  BY DEF Others
<1>2. Seq(Others(t)) \subseteq Seq(Duties[t])
  BY <1>1, SeqMonotonic
<1>3. ASSUME t \in {"fg", "doorlock"} PROVE Others(t) = Duties[t]
  <2>1. \A e \in Duties[t] : e.op = "publish"
    <3>1. CASE t = "fg"
      BY <3>1 DEF Duties, Sent
    <3>2. CASE t = "doorlock"
      BY <3>2 DEF Duties, Sent
    <3> QED BY <1>3, <3>1, <3>2
  <2> QED BY <2>1 DEF Others
<1> QED BY <1>2, <1>3

(* What system_service publishes. *)
LEMMA PopUpFits ==
    \A pop \in {"PASW_VALID", "PASW_WRONG", "ALTER_SUCCS", "ALTER_FAIL"} :
        PopUp(pop) \in Sent("ui", ReflexMessage)
  BY DEF PopUp, To, QueueOf, Sent, ReflexMessage

(* The answer to an authentication request can be delivered. *)
LEMMA VerdictFits ==
    ASSUME NEW request \in AuthMessage
    PROVE  Verdict(request) \in Seq(Others("system"))
<1> DEFINE valid == request.pasw = stored
           echo == IF valid THEN request.validEcho ELSE request.wrongEcho
           shown == IF echo THEN <<PopUp(IF valid THEN "PASW_VALID" ELSE "PASW_WRONG")>> ELSE <<>>
           result == Result(valid, request.pasw, request.for)
           last == To(request.respond, result)
           X == Others("system")
<1>1. result \in ResultMessage
  BY DEF AuthMessage, Result, ResultMessage
<1>2. last \in X
  BY <1>1 DEF AuthMessage, To, QueueOf, Sent, Duties, Others
<1>3. shown \in Seq(X)
  BY PopUpFits, OneDuty DEF Duties, Sent, Others
<1>4. Verdict(request) = Append(shown, last)
  BY DEF Verdict
<1>5. Append(shown, last) \in Seq(X)
  <2> HIDE DEF shown, last, X
  <2> QED BY <1>2, <1>3
<1> QED BY <1>4, <1>5

(* What system_service takes and what it has to publish then. *)
LEMMA ServiceTakes ==
    ASSUME ServiceHandle
    PROVE  /\ Request = Head(queue["system"])
           /\ \/ OnTrustedAuth /\ Take("system", <<To("SERV_UI", Result(TRUE, <<>>, "DOOR_UNLOCK")),
                                     To("HW_DOOR_LOCK", [type |-> "lock", state |-> "UNLOCK"])>>)
              \/ OnAuth /\ Request.type = "auth" /\ Take("system", Verdict(Request))
              \/ OnSysop /\ Request.type = "sysop" /\ \E pop \in {"ALTER_SUCCS", "ALTER_FAIL", "PASW_WRONG"} :
                                  Take("system", <<PopUp(pop)>>)
              \/ (CompareWithNull \/ OnDummy) /\ Take("system", <<>>)
<1> USE DEF Serve
<1>1. CASE OnTrustedAuth
  BY <1>1 DEF OnTrustedAuth, Request
<1>2. CASE OnAuth
  BY <1>2 DEF OnAuth, Request
<1>3. CASE OnSysop
  BY <1>3 DEF OnSysop, Request
<1>4. CASE CompareWithNull \/ OnDummy
  BY <1>4 DEF CompareWithNull, OnDummy, Request
<1> QED BY <1>1, <1>2, <1>3, <1>4 DEF ServiceHandle

(* What system_service handles leaves it with nothing to print, ... *)
LEMMA ServiceOut ==
    ASSUME BusOK, ServiceHandle
    PROVE  \E out \in Seq(Others("system")) : Take("system", out)
<1>1. "system" \in Queues
  BY DEF Queues
<1>3. CASE Take("system", <<To("SERV_UI", Result(TRUE, <<>>, "DOOR_UNLOCK")),
                            To("HW_DOOR_LOCK", [type |-> "lock", state |-> "UNLOCK"])>>)
  <2>1. Result(TRUE, <<>>, "DOOR_UNLOCK") \in ResultMessage
    BY DEF Result, ResultMessage, Purpose
  <2>2. [type |-> "lock", state |-> "UNLOCK"] \in LockMessage
    BY DEF LockMessage
  <2>3. /\ To("SERV_UI", Result(TRUE, <<>>, "DOOR_UNLOCK")) \in Others("system")
        /\ To("HW_DOOR_LOCK", [type |-> "lock", state |-> "UNLOCK"]) \in Others("system")
    BY <2>1, <2>2 DEF To, QueueOf, Sent, Duties, Others
  <2> QED BY <1>3, <2>3, OneDuty
<1>4. CASE Request.type = "auth" /\ Take("system", Verdict(Request))
  <2>1. queue["system"] \in Seq(Carried["system"]) /\ queue["system"] # <<>>
    BY <1>1, <1>4 DEF BusOK, Take
  <2>2. Request \in Carried["system"]
    BY <2>1, HeadTailProperties DEF Request
  <2>3. Request \in AuthMessage
    BY <1>4, <2>2 DEF Carried, SysopMessage, DummyMessage
  <2> QED BY <1>4, <2>3, VerdictFits
<1>5. ASSUME NEW pop \in {"ALTER_SUCCS", "ALTER_FAIL", "PASW_WRONG"}, Take("system", <<PopUp(pop)>>)
      PROVE  \E out \in Seq(Others("system")) : Take("system", out)
  <2>1. PopUp(pop) \in Others("system")
    BY PopUpFits DEF Duties, Sent, Others
  <2> QED BY <1>5, <2>1, OneDuty
<1>6. CASE Take("system", <<>>)
  BY <1>6, OneDuty
<1> QED BY <1>3, <1>4, <1>5, <1>6, ServiceTakes

(* ... and the bus in order. *)
LEMMA ServiceBus ==
    ASSUME BusOK, ServiceHandle
    PROVE  BusOK' /\ Request \in Carried["system"]
<1>1. PICK out \in Seq(Others("system")) : Take("system", out)
  BY ServiceOut
<1>2. "system" \in Queues /\ "system" \in Tasks
  BY DEF Queues, Tasks
<1>3. out \in Seq(Duties["system"])
  BY <1>2, OthersAre
<1> QED BY <1>1, <1>2, <1>3, TakeKeeps DEF Request

(* What the reader and the lock report. *)
LEMMA FgStarts ==
    ASSUME TypeOK, TouchReader \/ FgTask
    PROVE  /\ \E out \in Seq(Duties["fg"]) : Start("fg", out)
           /\ UNCHANGED queue /\ job' \in Jobs \cup {"NONE"}
<1>1. \A progress \in {"JOB_START", "PROGRESS_SUCC", "PROGRESS_FAIL", "JOB_SUCC", "JOB_FAIL"} :
         Report(progress) \in Seq(Duties["fg"])
  <2>1. \A progress \in {"JOB_START", "PROGRESS_SUCC", "PROGRESS_FAIL", "JOB_SUCC", "JOB_FAIL"} :
           To("SERV_UI", [type |-> "fg", progress |-> progress]) \in Duties["fg"]
    BY DEF To, QueueOf, Duties, Sent, FgMessage
  <2> QED BY <2>1, OneDuty DEF Report
<1>2. TrustedAuth \in Seq(Duties["fg"])
  <2>1. To("SERV_AUTH",
           [type |-> "auth", trusted |-> TRUE, pasw |-> <<>>,
            respond |-> "HW_DOOR_LOCK", for |-> "DOOR_UNLOCK",
            validEcho |-> FALSE, wrongEcho |-> FALSE]) \in Duties["fg"]
    BY DEF To, QueueOf, Duties, Sent, AuthMessage, Purpose, RespondTo
  <2> QED BY <2>1, OneDuty DEF TrustedAuth
<1>3. CASE TouchReader
  BY <1>1, <1>3 DEF TouchReader, FgStart, TypeOK, UiOK
<1>4. CASE FgRetap
  BY <1>1, <1>4 DEF FgRetap, TypeOK
<1>5. CASE FgEnd
  <2>1. PICK out \in Endings(job) : Start("fg", out)
    BY <1>5 DEF FgEnd
  <2>2. job \in Jobs
    BY <1>5 DEF FgEnd, TypeOK
  <2>3. out \in Seq(Duties["fg"])
    BY <1>1, <1>2, <2>1, <2>2, OneDuty DEF Endings, Jobs
  <2> QED BY <1>5, <2>1, <2>3 DEF FgEnd
<1> QED BY <1>3, <1>4, <1>5 DEF FgTask

LEMMA LockStarts ==
    ASSUME LockTask
    PROVE  \E out \in Seq(Duties["doorlock"]) :
              Take("doorlock", out) \/ (Start("doorlock", out) /\ UNCHANGED queue)
<1>1. \A state \in {"UNLOCK", "UNLOCKED", "RELOCK"} : Shown(state) \in Seq(Duties["doorlock"])
  <2>1. \A state \in {"UNLOCK", "UNLOCKED", "RELOCK"} :
            To("SERV_UI", [type |-> "lock", state |-> state]) \in Duties["doorlock"]
    BY DEF To, QueueOf, Duties, Sent, LockMessage
  <2> QED BY <2>1, OneDuty DEF Shown
<1>2. <<>> \in Seq(Duties["doorlock"])
  BY OneDuty
<1>3. CASE LockOpens \/ LockIgnores
  BY <1>1, <1>2, <1>3 DEF LockOpens, LockIgnores
<1>4. CASE LockBeats
  BY <1>1, <1>4 DEF LockBeats
<1> QED BY <1>3, <1>4 DEF LockTask

-----------------------------------------------------------------------------
(* The tasks in the middle of an operation on the stack; what a task has   *)
(* to do after its first duty is nothing to print.                         *)
Drawers == {t \in Tasks : Drawing(t)}
Follows(t, out) == out # <<>> => Tail(out) \in Seq(Others(t))
DrawsFirst == \A t \in Tasks : Follows(t, todo[t])

(* What task t has yet to print is the top of the stack. *)
WillShowTop(t) ==
    \/ Head(todo[t]) = DrawTop
    \/ stack # <<>> /\ (Head(todo[t]) = Draw(Top) \/ Len(stack) = StackMax)

(* Nobody prints and the top is on the screen, or one task will put it     *)
(* there.                                                                  *)
OnScreen ==
    \/ Drawers = {} /\ ShowsTop
    \/ \E t \in Tasks : Drawers = {t} /\ WillShowTop(t)

StackInv ==
    /\ ActivitiesOK
    /\ DrawsFirst
    /\ up => HomeAtBottom /\ (overlap # "last" => OnScreen)

LEMMA StackInvSound == StackInv => StackSound
  BY DEF StackInv, StackSound, OnScreen, Drawers

(* A step changes what task t has to do, and nothing else.                 *)
Only(t, new) == DOMAIN todo = Tasks /\ todo' = [todo EXCEPT ![t] = new]

LEMMA OnlyDraws ==
    ASSUME DrawsFirst, NEW t \in Tasks, NEW new, Only(t, new), Follows(t, new)
    PROVE  /\ DrawsFirst'
           /\ todo'[t] = new
           /\ \A u \in Tasks \ {t} : todo'[u] = todo[u] /\ (Drawing(u)' <=> Drawing(u))
<1>1. todo'[t] = new /\ \A u \in Tasks \ {t} : todo'[u] = todo[u]
  BY DEF Only
<1>2. \A u \in Tasks \ {t} : Drawing(u)' <=> Drawing(u)
  BY <1>1 DEF Drawing, Idle
<1>3. DrawsFirst'
  BY <1>1 DEF DrawsFirst, Follows, Others
<1> QED BY <1>1, <1>2, <1>3

(* It begins to print, ...                                                 *)
Draws(t, e) ==
    Drawing(t)' /\ Head(todo'[t]) = e /\ Drawers' = Drawers \cup {t} /\ DrawsFirst'

LEMMA StartDraws ==
    ASSUME DrawsFirst, NEW t \in Tasks, NEW e, NEW out, Only(t, out), Follows(t, out),
           out # <<>>, Head(out) = e, e.op \in {"print", "peek"}
    PROVE  Draws(t, e)
<1>1. /\ DrawsFirst' /\ todo'[t] = out
      /\ \A u \in Tasks \ {t} : Drawing(u)' <=> Drawing(u)
  BY OnlyDraws
<1>2. Drawing(t)' /\ Head(todo'[t]) = e
  BY <1>1 DEF Drawing, Idle
<1> QED BY <1>1, <1>2 DEF Draws, Drawers

(* ... or it has nothing more to print; or it never had.                   *)
Rests(t) == Drawers' = Drawers \ {t} /\ DrawsFirst'

LEMMA NothingDrawn ==
    ASSUME DrawsFirst, NEW t \in Tasks, NEW new, Only(t, new), Follows(t, new),
           new # <<>> => Head(new).op \notin {"print", "peek"}
    PROVE  Rests(t)
<1>1. /\ DrawsFirst' /\ todo'[t] = new
      /\ \A u \in Tasks \ {t} : Drawing(u)' <=> Drawing(u)
  BY OnlyDraws
<1>2. ~Drawing(t)'
  BY <1>1 DEF Drawing, Idle
<1> QED BY <1>1, <1>2 DEF Rests, Drawers

(* Drawing tasks keep what they are to print.                              *)
SameDrawings ==
    /\ DrawsFirst' /\ Drawers' = Drawers
    /\ \A t \in Drawers : Head(todo'[t]) = Head(todo[t])

LEMMA QuietStart ==
    ASSUME DrawsFirst, NEW t \in Tasks, ~Drawing(t), NEW new, Only(t, new), Follows(t, new),
           new # <<>> => Head(new).op \notin {"print", "peek"}
    PROVE  SameDrawings
<1>1. Rests(t) /\ \A u \in Tasks \ {t} : todo'[u] = todo[u]
  BY NothingDrawn, OnlyDraws
<1> QED BY <1>1 DEF Rests, SameDrawings, Drawers

(* A duty done, the next one is nothing to print.                          *)
LEMMA DoneRests ==
    ASSUME BusOK, DrawsFirst, NEW t \in Tasks, ~Idle(t), todo' = [todo EXCEPT ![t] = Tail(@)]
    PROVE  /\ Rests(t)
           /\ ~Drawing(t) => SameDrawings
<1> DEFINE new == Tail(todo[t])
<1>1. new \in Seq(Others(t)) /\ Only(t, new)
  BY DEF DrawsFirst, Follows, Idle, BusOK, Only
<1> HIDE DEF new
<1>2. Follows(t, new) /\ (new # <<>> => Head(new) \in Others(t))
  BY <1>1, HeadTailProperties DEF Follows
<1> QED BY <1>1, <1>2, NothingDrawn, QuietStart DEF Others

LEMMA QuietOut ==
    ASSUME BusOK, DrawsFirst, NEW t \in Tasks, NEW out \in Seq(Others(t)), Start(t, out)
    PROVE  SameDrawings
<1>1. out # <<>> => Head(out) \in Others(t) /\ Tail(out) \in Seq(Others(t))
  BY HeadTailProperties
<1>2. Only(t, out) /\ ~Drawing(t)
  BY DEF Start, Only, BusOK, Drawing
<1> QED BY <1>1, <1>2, QuietStart DEF Follows, Others

(* A step that leaves the stack, the screen and the printing alone.        *)
LEMMA QuietKeeps ==
    ASSUME StackInv, UNCHANGED activityVars, SameDrawings
    PROVE  StackInv'
<1>1. ActivitiesOK' /\ DrawsFirst' /\ (HomeAtBottom => HomeAtBottom') /\ (ShowsTop => ShowsTop')
  BY DEF StackInv, ActivitiesOK, HomeAtBottom, ShowsTop, Top, activityVars, SameDrawings
<1>2. \A t \in Drawers : WillShowTop(t) => WillShowTop(t)'
  BY DEF WillShowTop, Top, activityVars, SameDrawings
<1>3. Drawers' = Drawers
  BY DEF SameDrawings
<1>4. OnScreen => OnScreen'
  BY <1>1, <1>2, <1>3 DEF OnScreen
<1> QED BY <1>1, <1>4 DEF StackInv, activityVars

(* When an operation begins: it is by itself, or it meets another.         *)
LEMMA BeginsAlone ==
    ASSUME StackInv, up, Begins, overlap' # "last"
    PROVE  Drawers = {} /\ overlap' = (IF overlap = "none" THEN "none" ELSE "past")
           /\ (overlap # "last" => ShowsTop)
<1>1. Drawers = {} /\ overlap' = (IF overlap = "none" THEN "none" ELSE "past")
  BY DEF Begins, Drawers
<1> QED BY <1>1 DEF StackInv, OnScreen

LEMMA BeginsTypes == Begins => overlap' \in {"none", "past", "last"}
  BY DEF Begins

(* Launching an activity keeps the stack within its limit, and home where  *)
(* it is; unless another task is printing, the new one will be shown.      *)
LEMMA PushKeeps ==
    ASSUME StackInv, up, NEW a \in Activity \ {"home"}, Push(a), NEW t \in Tasks, Draws(t, Draw(a))
    PROVE  StackInv'
<1>1. /\ Begins /\ stack' = Pushed(a) /\ UNCHANGED <<screen, up>>
      /\ stack \in Seq(Activity) /\ Len(stack) \in Nat /\ Len(stack) <= StackMax /\ StackMax \in Nat \ {0}
  BY ActivitiesAssumption DEF Push, StackInv, ActivitiesOK
<1>2. /\ stack' \in Seq(Activity) /\ Len(stack') <= StackMax /\ stack' # <<>>
      /\ \A i \in 1 .. Len(stack') : IF i <= Len(stack) THEN stack'[i] = stack[i] ELSE stack'[i] = a
      /\ stack'[Len(stack')] = a \/ Len(stack') = StackMax
  <2>1. CASE Len(stack) < StackMax
    <3>1. stack' = Append(stack, a)
      BY <1>1, <2>1 DEF Pushed
    <3>2. stack' \in Seq(Activity) /\ Len(stack') = Len(stack) + 1
      BY <1>1, <3>1
    <3>3. /\ \A i \in 1 .. Len(stack) : stack'[i] = stack[i]
          /\ stack'[Len(stack) + 1] = a
      BY <1>1, <3>1
    <3> QED BY <1>1, <2>1, <3>2, <3>3
  <2>2. CASE ~(Len(stack) < StackMax)
    <3>1. stack' = stack /\ Len(stack) = StackMax
      BY <1>1, <2>2 DEF Pushed
    <3> QED BY <1>1, <3>1
  <2> QED BY <2>1, <2>2
<1>3. ActivitiesOK'
  BY <1>1, <1>2, BeginsTypes DEF StackInv, ActivitiesOK
<1>4. HomeAtBottom'
  <2>1. \A i \in 1 .. Len(stack') : stack'[i] = "home" => i = 1
    BY <1>1, <1>2 DEF StackInv, HomeAtBottom
  <2>2. ASSUME overlap' = "none" PROVE stack'[1] = "home"
    <3>1. overlap = "none" /\ ShowsTop
      BY <1>1, <2>2, BeginsAlone
    <3>2. Len(stack) >= 1
      BY <1>1, <3>1 DEF ShowsTop
    <3>3. stack[1] = "home" /\ 1 \in 1 .. Len(stack')
      BY <1>1, <1>2, <3>1, <3>2 DEF StackInv, HomeAtBottom
    <3> QED BY <1>2, <3>2, <3>3
  <2> QED BY <2>1, <2>2 DEF HomeAtBottom
<1>5. WillShowTop(t)'
  <2>1. Head(todo'[t]) = Draw(a) /\ Draw(a) = Draw(a)'
    BY DEF Draws, Draw
  <2>2. Top' = stack'[Len(stack')]
    BY <1>2 DEF Top
  <2> QED BY <1>2, <2>1, <2>2 DEF WillShowTop, Draw
<1>6. ASSUME overlap' # "last" PROVE OnScreen'
  <2>1. Drawers' = {t}
    BY <1>1, <1>6, BeginsAlone DEF Draws
  <2> QED BY <1>5, <2>1 DEF OnScreen
<1> QED BY <1>3, <1>4, <1>6 DEF StackInv, Draws

(* So does going back, ... *)
LEMMA PopKeeps ==
    ASSUME StackInv, up, Pop, NEW t \in Tasks, Draws(t, DrawTop)
    PROVE  StackInv'
<1>1. /\ Begins /\ stack' = Popped /\ up' = (stack # <<>>) /\ screen' = screen
      /\ stack \in Seq(Activity) /\ Len(stack) \in Nat /\ Len(stack) <= StackMax
  BY DEF Pop, StackInv, ActivitiesOK
<1>2. CASE stack = <<>>
  <2>1. Popped = <<>>
    BY <1>2 DEF Popped
  <2>2. ActivitiesOK' /\ up' = FALSE
    BY <1>1, <1>2, <2>1, BeginsTypes, ActivitiesAssumption DEF StackInv, ActivitiesOK
  <2> QED BY <2>2 DEF StackInv, Draws
<1>3. CASE stack # <<>>
  <2>1. Len(stack) >= 1
    BY <1>1, <1>3
  <2>2. Popped = [i \in 1 .. Len(stack) - 1 |-> stack[i]]
    BY <1>1, <2>1 DEF Popped
  <2>3. Len(stack) - 1 \in Nat /\ \A i \in 1 .. Len(stack) - 1 : stack[i] \in Activity
    BY <1>1, <2>1
  <2>4. /\ Popped \in Seq(Activity) /\ Len(Popped) = Len(stack) - 1
        /\ \A i \in 1 .. Len(Popped) : Popped[i] = stack[i]
    BY <2>2, <2>3
  <2>5. ActivitiesOK'
    BY <1>1, <2>1, <2>4, BeginsTypes, ActivitiesAssumption DEF StackInv, ActivitiesOK
  <2>6. HomeAtBottom'
    <3>1. overlap' = "none" => overlap = "none"
      BY <1>1, BeginsAlone
    <3> QED BY <1>1, <2>1, <2>4, <3>1 DEF StackInv, HomeAtBottom
  <2>7. ASSUME overlap' # "last" PROVE OnScreen'
    <3>1. Drawers' = {t}
      BY <1>1, <2>7, BeginsAlone DEF Draws
    <3>2. WillShowTop(t)'
      BY DEF Draws, WillShowTop, DrawTop
    <3> QED BY <3>1, <3>2 DEF OnScreen
  <2> QED BY <2>5, <2>6, <2>7 DEF StackInv, Draws
<1> QED BY <1>2, <1>3

(* ... and showing the top again. *)
LEMMA RefreshKeeps ==
    ASSUME StackInv, up, Refresh, NEW t \in Tasks, Draws(t, DrawTop)
    PROVE  StackInv'
<1>1. Begins /\ UNCHANGED <<stack, screen, up>>
  BY DEF Refresh
<1>2. ActivitiesOK'
  BY <1>1, BeginsTypes DEF StackInv, ActivitiesOK
<1>3. overlap' = "none" => overlap = "none"
  BY <1>1, BeginsAlone
<1>4. HomeAtBottom'
  BY <1>1, <1>3 DEF StackInv, HomeAtBottom
<1>5. ASSUME overlap' # "last" PROVE OnScreen'
  <2>1. Drawers' = {t}
    BY <1>1, <1>5, BeginsAlone DEF Draws
  <2>2. WillShowTop(t)'
    BY DEF Draws, WillShowTop, DrawTop
  <2> QED BY <2>1, <2>2 DEF OnScreen
<1> QED BY <1>2, <1>4, <1>5 DEF StackInv, Draws

(* The second half of an operation: the top is found, ... *)
LEMMA PeekStack ==
    ASSUME BusOK, StackInv, up, NEW t \in Tasks, Peek(t)
    PROVE  StackInv'
<1>1. Drawing(t) /\ UNCHANGED <<stack, screen, overlap>> /\ DOMAIN todo = Tasks
  BY DEF Peek, BusOK
<1>2. CASE Top = NULL
  <2>1. up' = FALSE /\ todo' = todo
    BY <1>2 DEF Peek
  <2> QED BY <1>1, <2>1 DEF StackInv, ActivitiesOK, DrawsFirst, Follows, Others
<1>3. CASE Top # NULL
  <2> DEFINE new == <<Draw(Top)>> \o Tail(todo[t])
  <2>1. up' = up /\ Only(t, new) /\ stack # <<>> /\ Top \in Activity
    BY <1>1, <1>3, TopIs DEF Peek, Only, StackInv
  <2>2. todo[t] \in Seq(Duties[t]) /\ todo[t] # <<>> /\ Tail(todo[t]) \in Seq(Others(t))
    BY <1>1 DEF BusOK, Drawing, Idle, StackInv, DrawsFirst, Follows
  <2>3. new # <<>> /\ Head(new) = Draw(Top) /\ Tail(new) = Tail(todo[t])
    BY <2>2
  <2>4. Draw(Top).op = "print"
    BY DEF Draw
  <2> HIDE DEF new
  <2>5. Draws(t, Draw(Top))
    BY <2>1, <2>2, <2>3, <2>4, StartDraws DEF Follows, StackInv
  <2>6. ActivitiesOK' /\ HomeAtBottom'
    BY <1>1, <2>1 DEF StackInv, ActivitiesOK, HomeAtBottom
  <2>7. WillShowTop(t)'
    BY <1>1, <2>1, <2>5 DEF WillShowTop, Draws, Top, Draw
  <2>8. t \in Drawers
    BY <1>1 DEF Drawers
  <2>9. overlap' # "last" => OnScreen'
    BY <1>1, <2>5, <2>7, <2>8 DEF StackInv, OnScreen, Draws
  <2> QED BY <2>5, <2>6, <2>9 DEF StackInv, Draws
<1> QED BY <1>2, <1>3

(* ... and printed. *)
LEMMA DrawnStack ==
    ASSUME BusOK, StackInv, up, NEW t \in Tasks, Drawn(t)
    PROVE  StackInv'
<1>1. /\ Drawing(t) /\ UNCHANGED <<stack, up, overlap>> /\ screen' = Head(todo[t]).act
      /\ Head(todo[t]) # DrawTop
  BY DEF Drawn
<1>2. Rests(t)
  BY DoneRests DEF Drawn, Drawing, StackInv
<1>3. ActivitiesOK' /\ HomeAtBottom'
  BY <1>1, OnlyTwoDraw DEF StackInv, ActivitiesOK, HomeAtBottom
<1>4. t \in Drawers
  BY <1>1 DEF Drawers
<1>5. ASSUME overlap' # "last" PROVE OnScreen'
  <2>1. Drawers = {t} /\ WillShowTop(t)
    BY <1>1, <1>4, <1>5 DEF StackInv, OnScreen
  <2>2. Drawers' = {}
    BY <1>2, <2>1 DEF Rests
  <2>3. ShowsTop'
    BY <1>1, <2>1 DEF WillShowTop, ShowsTop, Top, Draw
  <2> QED BY <2>2, <2>3 DEF OnScreen
<1> QED BY <1>2, <1>3, <1>5 DEF StackInv, Rests

(* What a handler has to do, at most two duties with the printing first.   *)
LEMMA FewFollow ==
    ASSUME NEW t, NEW e, NEW f \in Others(t)
    PROVE  /\ Follows(t, <<>>) /\ Follows(t, <<e>>) /\ Follows(t, <<e, f>>)
           /\ <<e>> # <<>> /\ Head(<<e>>) = e /\ <<e, f>> # <<>> /\ Head(<<e, f>>) = e
<1>1. Tail(<<e>>) = <<>> /\ Tail(<<e, f>>) = <<f>>
  OBVIOUS
<1>2. <<>> \in Seq(Others(t)) /\ <<f>> \in Seq(Others(t))
  OBVIOUS
<1> QED BY <1>1, <1>2 DEF Follows

(* One branch of ui_event_handler. *)
LEMMA UiKeeps ==
    ASSUME BusOK, UiOK, StackInv, UiHandle
    PROVE  StackInv'
<1>1. "ui" \in Tasks /\ "ui" \in Queues /\ DrawsFirst
  BY DEF Tasks, Queues, StackInv
<1>2. ASSUME NEW out, Take("ui", out) PROVE Only("ui", out) /\ ~Drawing("ui")
  BY <1>2 DEF Take, Only, BusOK, Drawing
<1>3. {InvokeBack, AuthRequest, AlterRequest} \subseteq Others("ui")
  <2>1. InvokeBack.op = "invoke" /\ AuthRequest.op = "publish" /\ AlterRequest.op = "publish"
    BY DEF InvokeBack, AuthRequest, AlterRequest, To
  <2> QED BY <2>1, UiRequests DEF Others
<1>4. ASSUME NEW e, e.op \in {"print", "peek"}, NEW f \in Others("ui"),
             Take("ui", <<e>>) \/ Take("ui", <<e, f>>)
      PROVE  Draws("ui", e)
  BY <1>1, <1>2, <1>4, FewFollow, StartDraws
<1>5. ASSUME Take("ui", <<>>) PROVE SameDrawings
  <2>1. Follows("ui", <<>>)
    BY <1>3, FewFollow
  <2> QED BY <1>1, <1>2, <1>5, <2>1, QuietStart
<1>6. up
  BY UiTakes
<1>7. CASE UiQuiet
  BY <1>5, <1>7, QuietKeeps DEF UiQuiet
<1>8. CASE OnKeyAtNull /\ Take("ui", <<>>)
  BY <1>5, <1>8 DEF OnKeyAtNull, StackInv, ActivitiesOK, SameDrawings
<1>9. ASSUME NEW a \in Activity \ {"home"}, UiPushes(a) PROVE StackInv'
  <2>1. Draw(a).op = "print"
    BY DEF Draw
  <2>2. Draws("ui", Draw(a))
    BY <1>3, <1>4, <1>9, <2>1 DEF UiPushes
  <2> QED BY <1>1, <1>6, <1>9, <2>2, PushKeeps DEF UiPushes
<1>10. ASSUME NEW f \in Others("ui"), Take("ui", <<DrawTop>>) \/ Take("ui", <<DrawTop, f>>)
       PROVE  Draws("ui", DrawTop)
  BY <1>4, <1>10 DEF DrawTop
<1>11. CASE UiPops \/ UiAsks(AuthRequest) \/ UiAsks(AlterRequest)
  <2>1. Pop /\ Draws("ui", DrawTop)
    BY <1>3, <1>10, <1>11 DEF UiPops, UiAsks
  <2> QED BY <1>1, <1>6, <2>1, PopKeeps
<1>12. CASE UiRefreshes
  <2>1. Refresh /\ Draws("ui", DrawTop)
    BY <1>3, <1>10, <1>12 DEF UiRefreshes
  <2> QED BY <1>1, <1>6, <2>1, RefreshKeeps
<1>13. "psw_alter" \in Activity \ {"home"}
  BY DEF Activity, InputPages
<1> QED BY <1>7, <1>8, <1>9, <1>11, <1>12, <1>13, UiTakes

LEMMA StackInitial == Init => StackInv
<1> SUFFICES ASSUME Init PROVE StackInv
  OBVIOUS
<1>1. /\ stack = <<"home">> /\ screen = "home" /\ up = TRUE /\ overlap = "none"
      /\ \A t \in Tasks : todo[t] = <<>>
  BY DEF Init, ActivitiesInit, BusInit, NothingToDo
<1>2. Drawers = {} /\ DrawsFirst
  BY <1>1 DEF Drawers, Drawing, Idle, DrawsFirst, Follows
<1>3. ShowsTop /\ HomeAtBottom
  BY <1>1 DEF ShowsTop, HomeAtBottom, Top
<1>4. ActivitiesOK
  BY <1>1, ActivitiesAssumption DEF ActivitiesOK, Activity
<1> QED BY <1>2, <1>3, <1>4 DEF StackInv, OnScreen

(* No step of any task breaks it. *)
LEMMA StackStep == TypeOK /\ StackInv /\ [Next]_vars => StackInv'
<1> SUFFICES ASSUME TypeOK, StackInv, Next \/ UNCHANGED vars PROVE StackInv'
  OBVIOUS
<1>1. BusOK /\ UiOK /\ DrawsFirst /\ DOMAIN todo = Tasks
  BY DEF TypeOK, BusOK, StackInv
<1>2. ASSUME UNCHANGED <<todo, activityVars>> PROVE StackInv'
  <2>1. SameDrawings
    BY <1>1, <1>2 DEF SameDrawings, Drawers, Drawing, Idle, DrawsFirst, Follows, Others
  <2> QED BY <1>2, <2>1, QuietKeeps
<1>3. ASSUME NEW t \in Tasks, NEW out \in Seq(Others(t)), Start(t, out), UNCHANGED activityVars
      PROVE  StackInv'
  BY <1>1, <1>3, QuietOut, QuietKeeps
<1>4. CASE PressKey \/ UNCHANGED vars
  BY <1>2, <1>4 DEF PressKey, vars, busVars
<1>5. CASE TouchReader \/ FgTask
  BY <1>3, <1>5, FgStarts, OthersAre DEF TouchReader, FgTask, Tasks
<1>6. CASE LockTask
  <2>1. "doorlock" \in Tasks /\ Others("doorlock") = Duties["doorlock"] /\ UNCHANGED activityVars
    BY <1>6, OthersAre DEF LockTask, Tasks
  <2>2. PICK out \in Seq(Others("doorlock")) : Start("doorlock", out)
    BY <1>6, <2>1, LockStarts DEF Take, Start
  <2> QED BY <1>3, <2>1, <2>2
<1>7. CASE UiTask
  BY <1>1, <1>7, UiKeeps DEF UiTask
<1>8. CASE ServiceTask
  <2>1. PICK out \in Seq(Others("system")) : Start("system", out)
    BY <1>1, <1>8, ServiceOut DEF ServiceTask, Take, Start
  <2>2. CASE CompareWithNull
    <3>1. SameDrawings
      BY <1>1, <2>1, QuietOut DEF Tasks
    <3> QED BY <2>2, <3>1 DEF CompareWithNull, StackInv, ActivitiesOK, SameDrawings
  <2>3. CASE OnTrustedAuth \/ OnAuth \/ OnSysop \/ OnDummy
    <3>1. UNCHANGED activityVars
      BY <2>3 DEF OnTrustedAuth, OnAuth, OnSysop, OnDummy
    <3> QED BY <1>3, <2>1, <3>1 DEF Tasks
  <2> QED BY <1>8, <2>2, <2>3 DEF ServiceTask, ServiceHandle
<1>9. CASE DelayedCall
  <2>1. up /\ Pop /\ Only("system", <<DrawTop>>) /\ "system" \in Tasks
    BY <1>1, <1>9 DEF DelayedCall, RunBack, Start, Only, Tasks
  <2>2. <<DrawTop>> # <<>> /\ Head(<<DrawTop>>) = DrawTop /\ Tail(<<DrawTop>>) = <<>>
    OBVIOUS
  <2>3. DrawTop.op \in {"print", "peek"} /\ Follows("system", <<DrawTop>>)
    BY <2>2 DEF DrawTop, Follows
  <2>4. Draws("system", DrawTop)
    BY <1>1, <2>1, <2>2, <2>3, StartDraws
  <2> QED BY <2>1, <2>4, PopKeeps
<1>10. ASSUME NEW t \in Tasks, Finish(t) PROVE StackInv'
  <2>1. up
    BY <1>10 DEF Finish
  <2>2. CASE Peek(t)
    BY <1>1, <2>1, <2>2, PeekStack
  <2>3. CASE Drawn(t)
    BY <1>1, <2>1, <2>3, DrawnStack
  <2>4. ASSUME PublishSent(t) \/ PublishLost(t) \/ InvokeAccepted(t) \/ InvokeRefused(t),
               UNCHANGED activityVars
        PROVE  StackInv'
    <3>1. ~Idle(t) /\ ~Drawing(t) /\ todo' = [todo EXCEPT ![t] = Tail(@)]
      BY <2>4 DEF PublishSent, PublishLost, Publishing, InvokeAccepted, InvokeRefused, Invoking, Drawing
    <3>2. SameDrawings
      BY <1>1, <3>1, DoneRests
    <3> QED BY <2>4, <3>2, QuietKeeps
  <2>5. InvokeAccepted(t) \/ InvokeRefused(t) => UNCHANGED activityVars
    BY DEF InvokeAccepted, InvokeRefused
  <2> QED BY <1>10, <2>2, <2>3, <2>4, <2>5 DEF Finish
<1>11. CASE Reboot
  <2>1. /\ stack' = <<"home">> /\ screen' = "home" /\ up' = TRUE /\ overlap' = "none"
        /\ \A t \in Tasks : todo'[t] = <<>>
    BY <1>11 DEF Reboot, NothingToDo
  <2>2. Drawers' = {} /\ DrawsFirst'
    BY <2>1 DEF Drawers, Drawing, Idle, DrawsFirst, Follows
  <2>3. ShowsTop' /\ HomeAtBottom'
    BY <2>1 DEF ShowsTop, HomeAtBottom, Top
  <2>4. ActivitiesOK'
    BY <2>1, ActivitiesAssumption DEF ActivitiesOK, Activity
  <2> QED BY <2>2, <2>3, <2>4 DEF StackInv, OnScreen
<1> QED BY <1>4, <1>5, <1>6, <1>7, <1>8, <1>9, <1>10, <1>11 DEF Next

-----------------------------------------------------------------------------
(* TypeOK holds at boot ... *)
LEMMA TypesInitial == Init => TypeOK
<1> SUFFICES ASSUME Init PROVE TypeOK
  OBVIOUS
<1>1. BusOK
  BY BusAssumption, OneDuty DEF Init, BusInit, NoMessages, NothingToDo, BusOK, Cap, Queues
<1>2. ActivitiesOK
  BY StackInitial DEF StackInv
<1>3. UiOK
  BY UiAssumption DEF Init, UiInit, UiOK, NoInput, FirstEntries, Purpose, Jobs
<1>4. stored \in Seq(Chars) /\ pending \in 0..Slots
  BY ServiceAssumption, DoorSystemAssumption DEF Init, ServiceInit
<1>5. job \in Jobs \cup {"NONE"}
  BY DEF Init, FgInit
<1>6. open \in BOOLEAN /\ left \in 0..RelockSecs
  <2>1. open = FALSE /\ left = 0
    BY DEF Init, Lock!LockInit
  <2>2. 0 \in 0..RelockSecs
    BY DoorSystemAssumption
  <2> QED BY <2>1, <2>2
<1>7. keys \in 0..Len(Presses)
  BY DoorSystemAssumption DEF Init
<1> QED BY <1>1, <1>2, <1>3, <1>4, <1>5, <1>6, <1>7 DEF TypeOK

(* ... and after every step, for a stack that is as it should be.          *)
LEMMA TypesStep == TypeOK /\ StackInv' /\ [Next]_vars => TypeOK'
<1> SUFFICES ASSUME TypeOK, StackInv', Next \/ UNCHANGED vars PROVE TypeOK'
  OBVIOUS
<1>1. ActivitiesOK'
  BY DEF StackInv
<1>2. ASSUME BusOK', UiOK', UNCHANGED <<serviceVars, fgVars, lockVars, keys>> PROVE TypeOK'
  BY <1>1, <1>2 DEF TypeOK, serviceVars, fgVars, lockVars
<1>3. ASSUME UNCHANGED uiVars PROVE UiOK'
  BY <1>3 DEF TypeOK, UiOK, uiVars
<1>4. ASSUME UNCHANGED busVars PROVE BusOK'
  BY <1>4 DEF TypeOK, BusOK, busVars
<1>5. CASE PressKey
  <2>1. PICK k \in Keys : queue' = IF Full("ui") THEN queue
                                   ELSE [queue EXCEPT !["ui"] = Append(@, [type |-> "key", key |-> k])]
    <3>1. keys + 1 \in 1 .. Len(Presses)
      BY <1>5, DoorSystemAssumption DEF PressKey, TypeOK
    <3>2. Presses[keys + 1] \in SUBSET Keys
      BY <3>1, DoorSystemAssumption, ElementOfSeq
    <3> QED BY <1>5, <3>2 DEF PressKey
  <2>2. [type |-> "key", key |-> k] \in Carried["ui"] /\ "ui" \in Queues
    BY DEF Carried, KeyMessage, Queues
  <2>3. BusOK'
    BY <1>5, <2>1, <2>2, PostedKeeps DEF PressKey, TypeOK, BusOK
  <2>4. keys' \in 0..Len(Presses)
    BY <1>5, DoorSystemAssumption DEF PressKey, TypeOK
  <2> QED BY <1>1, <1>3, <1>5, <2>3, <2>4 DEF PressKey, TypeOK, serviceVars, fgVars, lockVars
<1>6. CASE UiTask
  BY <1>2, <1>6, UiBus, UiTypes DEF UiTask, TypeOK, historyVars
<1>7. CASE ServiceTask
  <2>1. BusOK' /\ Request \in Carried["system"]
    BY <1>7, ServiceBus DEF ServiceTask, TypeOK
  <2>2. UiOK' /\ UNCHANGED <<fgVars, lockVars, keys>>
    BY <1>3, <1>7 DEF ServiceTask
  <2>3. stored' \in Seq(Chars) /\ pending' = pending
    <3>1. CASE OnTrustedAuth \/ OnAuth \/ CompareWithNull \/ OnDummy
      BY <3>1 DEF OnTrustedAuth, OnAuth, CompareWithNull, OnDummy, serviceVars, TypeOK
    <3>2. CASE OnSysop
      <4>1. Request.new \in Seq(Chars)
        BY <2>1, <3>2 DEF OnSysop, Serve, Carried, AuthMessage, SysopMessage, DummyMessage
      <4> QED BY <3>2, <4>1 DEF OnSysop, TypeOK
    <3> QED BY <1>7, <3>1, <3>2 DEF ServiceTask, ServiceHandle
  <2> QED BY <1>1, <2>1, <2>2, <2>3 DEF TypeOK, fgVars, lockVars
<1>8. CASE DelayedCall
  <2>1. BusOK' /\ UiOK'
    <3>1. <<DrawTop>> \in Seq(Duties["system"])
      BY OneDuty DEF Duties, Drawings
    <3> QED BY <1>3, <1>8, <3>1, StartKeeps DEF DelayedCall, RunBack, Tasks, TypeOK
  <2>2. pending' \in 0..Slots /\ stored' = stored
    BY <1>8, ServiceAssumption DEF DelayedCall, RunBack, TypeOK
  <2> QED BY <1>1, <1>8, <2>1, <2>2 DEF DelayedCall, TypeOK, fgVars, lockVars, historyVars
<1>10. CASE TouchReader \/ FgTask
  <2>1. BusOK'
    BY <1>10, FgStarts, StartKeeps DEF Tasks, TypeOK
  <2>2. UNCHANGED <<uiVars, serviceVars, lockVars, keys>>
    BY <1>10 DEF TouchReader, FgTask, historyVars
  <2> QED BY <1>1, <1>3, <1>10, <2>1, <2>2, FgStarts DEF TypeOK, serviceVars, lockVars
<1>11. CASE LockTask
  <2>3. BusOK'
    BY <1>11, LockStarts, TakeKeeps, StartKeeps DEF TypeOK, Queues, Tasks
  <2>4. left' \in {left, left - 1, 0, RelockSecs} /\ (left' = left - 1 => left > 0)
    BY <1>11 DEF LockTask, LockOpens, LockIgnores, LockBeats, Lock!Grant, Lock!CountDown, Lock!Relock,
                 lockVars, TypeOK
  <2>5. left' \in 0..RelockSecs
    BY <2>4, DoorSystemAssumption DEF TypeOK
  <2>6. open' \in BOOLEAN
    BY <1>11 DEF LockTask, LockOpens, LockIgnores, LockBeats, Lock!Grant, Lock!CountDown, Lock!Relock,
                 lockVars, TypeOK
  <2> QED BY <1>1, <1>3, <1>11, <2>3, <2>5, <2>6 DEF LockTask, TypeOK, serviceVars, fgVars
<1>12. ASSUME NEW t \in Tasks, Finish(t) PROVE TypeOK'
  <2>1. BusOK'
    BY <1>12, SentKeeps, LostKeeps, AcceptedKeeps, PeekKeeps, DrawnKeeps DEF Finish, TypeOK
  <2>2. stored' \in Seq(Chars) /\ pending' \in 0..Slots
    BY <1>12, ServiceAssumption DEF Finish, InvokeAccepted, InvokeRefused, serviceVars, TypeOK
  <2> QED BY <1>1, <1>3, <1>12, <2>1, <2>2 DEF Finish, TypeOK, fgVars, lockVars
<1>13. CASE Reboot
  <2>1. BusOK'
    BY <1>13, BusAssumption, OneDuty DEF Reboot, NoMessages, NothingToDo, BusOK, Cap, Queues
  <2>2. UiOK'
    BY <1>13, UiAssumption DEF Reboot, UiOK, NoInput, FirstEntries, Purpose, Jobs
  <2>3. stored' \in Seq(Chars) /\ pending' \in 0..Slots
    BY <1>13, ServiceAssumption, DoorSystemAssumption DEF Reboot, TypeOK
  <2>4. job' = "NONE" /\ open' \in BOOLEAN /\ keys' = keys
    BY <1>13 DEF Reboot
  <2>5. left' \in 0..RelockSecs
    BY <1>13, DoorSystemAssumption DEF Reboot
  <2> QED BY <1>1, <2>1, <2>2, <2>3, <2>4, <2>5 DEF TypeOK
<1>14. CASE UNCHANGED vars
  BY <1>2, <1>3, <1>4, <1>14 DEF vars, historyVars
<1> QED BY <1>5, <1>6, <1>7, <1>8, <1>10, <1>11, <1>12, <1>13, <1>14 DEF Next

(* The two hold together. *)
LEMMA StackAndTypes ==
    /\ Init => TypeOK /\ StackInv
    /\ TypeOK /\ StackInv /\ [Next]_vars => TypeOK' /\ StackInv'
  BY TypesInitial, StackInitial, TypesStep, StackStep

(* Every message in a queue, and every one a task has still to publish, is *)
(* of a type that queue is used for, and no queue is longer than it was    *)
(* created (event_publish, app.c:60-74); pages, stack, password, slots     *)
(* and countdown stay within their ranges.                                 *)
THEOREM TypesHold == Spec => []TypeOK
  BY StackAndTypes, PTL DEF Spec

(* The screen shows the activity that keys go to once the task that last   *)
(* worked on the stack had it to itself, unless the stack is full, however *)
(* the operations of the two tasks met before (activity.c:70-88); home is  *)
(* nowhere but at the bottom, and stays there as long as none have met.    *)
THEOREM ScreenAndStackAgree == Spec => []StackSound
  BY StackAndTypes, StackInvSound, PTL DEF Spec
-----------------------------------------------------------------------------
(* A task is done with its first duty; a message is put in a queue that    *)
(* carries such messages.                                                  *)
Does(t) == ~Idle(t) /\ todo' = [todo EXCEPT ![t] = Tail(@)]
Posts(q, msg) == msg \in Carried[q] /\ queue' = [queue EXCEPT ![q] = Append(@, msg)]

(* What each step of the bus does to the number of messages of a set S. *)
LEMMA TakeCounts ==
    ASSUME BusOK, NEW q \in Queues, NEW out, Take(q, out), NEW S
    PROVE  /\ Count(queue[q], S) = Count(queue'[q], S) + IF Head(queue[q]) \in S THEN 1 ELSE 0
           /\ \A r \in Queues \ {q} : queue'[r] = queue[r]
           /\ todo[q] = <<>> /\ todo'[q] = out
           /\ \A t \in Tasks \ {q} : todo'[t] = todo[t]
<1>1. queue[q] \in Seq(Carried[q]) /\ queue[q] # <<>> /\ queue'[q] = Tail(queue[q])
  BY DEF BusOK, Take
<1>2. Count(queue[q], S) = Count(Tail(queue[q]), S) + IF Head(queue[q]) \in S THEN 1 ELSE 0
  BY <1>1, CountTail
<1>3. todo[q] = <<>> /\ todo'[q] = out /\ \A t \in Tasks \ {q} : todo'[t] = todo[t]
  BY DEF BusOK, Take, Idle, Queues, Tasks
<1>4. \A r \in Queues \ {q} : queue'[r] = queue[r]
  BY DEF BusOK, Take
<1> QED BY <1>1, <1>2, <1>3, <1>4, Zenon

(* What a finished duty of task u takes from what task t has to do. *)
LEMMA DutyCounts ==
    ASSUME BusOK, NEW u \in Tasks, Does(u), NEW t \in Tasks, NEW S, u # t => Head(todo[u]) \notin S
    PROVE  Count(todo[t], S) = Count(todo'[t], S) + IF Head(todo[u]) \in S THEN 1 ELSE 0
<1>1. CASE u = t
  <2>1. todo[t] \in Seq(Duties[t]) /\ todo[t] # <<>> /\ todo'[t] = Tail(todo[t])
    BY <1>1 DEF BusOK, Idle, Does
  <2>2. Count(todo[t], S) = Count(Tail(todo[t]), S) + IF Head(todo[t]) \in S THEN 1 ELSE 0
    BY <2>1, CountTail
  <2> QED BY <1>1, <2>1, <2>2, Zenon
<1>2. CASE u # t
  <2>1. todo'[t] = todo[t]
    BY <1>2 DEF BusOK, Does
  <2>2. Count(todo[t], S) \in Nat
    BY CountFinite DEF BusOK
  <2> QED BY <1>2, <2>1, <2>2
<1> QED BY <1>1, <1>2

(* What a message posted to queue p adds to queue q. *)
LEMMA PostedCounts ==
    ASSUME BusOK, NEW p \in Queues, NEW msg, Posts(p, msg), NEW q \in Queues, NEW S
    PROVE  Count(queue'[q], S) = Count(queue[q], S) + IF p = q /\ msg \in S THEN 1 ELSE 0
<1>1. CASE p = q
  <2>1. msg \in Carried[q] /\ queue[q] \in Seq(Carried[q]) /\ queue'[q] = Append(queue[q], msg)
    BY <1>1 DEF BusOK, Posts
  <2>2. Count(Append(queue[q], msg), S) = Count(queue[q], S) + IF msg \in S THEN 1 ELSE 0
    BY <1>1, <2>1, CountAppend
  <2> QED BY <1>1, <2>1, <2>2, Zenon
<1>2. CASE p # q
  <2>1. queue'[q] = queue[q]
    BY <1>2 DEF BusOK, Posts
  <2>2. Count(queue[q], S) \in Nat
    BY CountFinite DEF BusOK
  <2> QED BY <1>2, <2>1, <2>2
<1> QED BY <1>1, <1>2

(* Which duties publish a message of S to queue q. *)
LEMMA SentIff ==
    ASSUME NEW t \in Tasks, NEW e \in Duties[t], NEW q, NEW S
    PROVE  e \in Sent(q, S) <=> e.op = "publish" /\ e.to = q /\ e.msg \in S
<1>1. CASE e = InvokeBack
  BY <1>1 DEF InvokeBack, Sent
<1>2. CASE \E r, R : e \in Sent(r, R)
  BY <1>2 DEF Sent
<1>3. CASE e \in Drawings
  BY <1>3 DEF Drawings, DrawTop, Sent
<1>4. t = "ui" => e = InvokeBack \/ e \in Drawings \/ e \in Sent("system", AuthMessage \cup SysopMessage)
  BY DEF Duties
<1>5. t = "system" => e \in Drawings \/ e \in Sent("ui", ReflexMessage \cup ResultMessage)
                        \/ e \in Sent("doorlock", LockMessage \cup ResultMessage)
  BY DEF Duties
<1>6. t = "doorlock" => e \in Sent("ui", LockMessage)
  BY DEF Duties
<1>7. t = "fg" => e \in Sent("ui", FgMessage) \/ e \in Sent("system", AuthMessage)
  BY DEF Duties
<1> QED BY <1>1, <1>2, <1>3, <1>4, <1>5, <1>6, <1>7 DEF Tasks

(* A message of S for queue q that only task t publishes is on its way in  *)
(* the queue, is still to be published, or gets lost.                      *)
LEMMA SentCounts ==
    ASSUME BusOK, NEW u \in Tasks, PublishSent(u),
           NEW q \in Queues, NEW t \in Tasks, NEW S, u # t => Head(todo[u]) \notin Sent(q, S)
    PROVE  Count(queue'[q], S) + Count(todo'[t], Sent(q, S)) = Count(queue[q], S) + Count(todo[t], Sent(q, S))
<1> DEFINE e == Head(todo[u])
<1>1. Does(u) /\ e.op = "publish"
  BY DEF PublishSent, Publishing, Does
<1>2. e \in Duties[u] /\ todo'[t] \in Seq(Duties[t])
  BY <1>1, DutyDone DEF Does
<1>3. e.to \in Queues /\ Posts(e.to, e.msg)
  BY <1>1, <1>2, DutyFits DEF PublishSent, Posts
<1>4. Count(queue'[q], S) = Count(queue[q], S) + IF e.to = q /\ e.msg \in S THEN 1 ELSE 0
  BY <1>3, PostedCounts
<1>5. Count(todo[t], Sent(q, S)) = Count(todo'[t], Sent(q, S)) + IF e \in Sent(q, S) THEN 1 ELSE 0
  BY <1>1, DutyCounts
<1>6. e \in Sent(q, S) <=> e.to = q /\ e.msg \in S
  BY <1>1, <1>2, SentIff
<1>7. Count(queue[q], S) \in Nat /\ Count(todo[t], Sent(q, S)) \in Nat /\ Count(todo'[t], Sent(q, S)) \in Nat
  BY <1>2, CountFinite DEF BusOK
<1> HIDE DEF e
<1> QED BY <1>4, <1>5, <1>6, <1>7

(* What a message lost takes away; a delayed call only adds a wake-up. *)
LEMMA LostCounts ==
    ASSUME BusOK, NEW u \in Tasks, PublishLost(u) \/ InvokeRefused(u) \/ InvokeAccepted(u),
           NEW q \in Queues, NEW t \in Tasks, NEW S, u # t => Head(todo[u]) \notin Sent(q, S),
           [type |-> "dummy"] \notin S
    PROVE  Count(queue[q], S) + Count(todo[t], Sent(q, S))
             = Count(queue'[q], S) + Count(todo'[t], Sent(q, S))
                 + IF Head(todo[u]) \in Sent(q, S) THEN 1 ELSE 0
<1> DEFINE e == Head(todo[u])
<1>1. Does(u)
  BY DEF PublishLost, Publishing, InvokeRefused, InvokeAccepted, Invoking, Does
<1>2. todo'[t] \in Seq(Duties[t])
  BY <1>1, DutyDone DEF Does
<1>3. Count(queue'[q], S) = Count(queue[q], S)
  <2>1. CASE UNCHANGED queue
    BY <2>1
  <2>2. CASE queue' = [queue EXCEPT !["system"] = Append(@, [type |-> "dummy"])]
    <3>1. "system" \in Queues /\ Posts("system", [type |-> "dummy"])
      BY <2>2 DEF Queues, Carried, DummyMessage, Posts
    <3>2. Count(queue'[q], S) = Count(queue[q], S) + 0
      BY <3>1, PostedCounts
    <3>3. Count(queue[q], S) \in Nat
      BY CountFinite DEF BusOK
    <3> QED BY <3>2, <3>3
  <2> QED BY <2>1, <2>2 DEF PublishLost, InvokeRefused, InvokeAccepted
<1>4. Count(todo[t], Sent(q, S)) = Count(todo'[t], Sent(q, S)) + IF e \in Sent(q, S) THEN 1 ELSE 0
  BY <1>1, DutyCounts
<1>5. Count(queue[q], S) \in Nat /\ Count(todo'[t], Sent(q, S)) \in Nat
  BY <1>2, CountFinite DEF BusOK
<1> QED BY <1>3, <1>4, <1>5

(* Printing sends nothing. *)
LEMMA DrawnCounts ==
    ASSUME BusOK, ActivitiesOK, NEW u \in Tasks, Peek(u) \/ Drawn(u), NEW t \in Tasks, NEW q, NEW S
    PROVE  Count(todo'[t], Sent(q, S)) = Count(todo[t], Sent(q, S))
<1> DEFINE X == Duties[u]
<1>1. todo[u] \in Seq(X) /\ todo[u] # <<>> /\ Head(todo[u]).op \in {"print", "peek"} /\ DOMAIN todo = Tasks
  BY DEF Peek, Drawn, Drawing, Idle, BusOK
<1>2. Head(todo[u]) \in X /\ Tail(todo[u]) \in Seq(X)
  BY <1>1, HeadTailProperties
<1>3. \A e \in X : e.op \in {"print", "peek"} => e \notin Sent(q, S)
  BY SentIff
<1> HIDE DEF X
<1>4. Count(todo[u], Sent(q, S)) = Count(Tail(todo[u]), Sent(q, S)) + 0
  BY <1>1, <1>2, <1>3, CountTail
<1>5. Count(Tail(todo[u]), Sent(q, S)) \in Nat
  BY <1>2, CountFinite
<1>6. CASE t # u \/ todo' = todo
  BY <1>1, <1>6 DEF Peek, Drawn
<1>7. CASE t = u /\ Drawn(u)
  BY <1>1, <1>4, <1>5, <1>7 DEF Drawn
<1>8. CASE t = u /\ Peek(u) /\ Top # NULL
  <2>1. Draw(Top) \in X /\ Draw(Top).op = "print"
    BY <1>8, OnlyTwoDraw, Printable, TopIs DEF Peek, Draw, X
  <2>2. todo'[u] = <<Draw(Top)>> \o Tail(todo[u])
    BY <1>1, <1>8 DEF Peek
  <2> DEFINE d == Draw(Top)
             s == Tail(todo[u])
  <2>3. d \in X /\ d \notin Sent(q, S) /\ s \in Seq(X)
    BY <1>2, <1>3, <2>1
  <2>4. Count(<<d>> \o s, Sent(q, S)) = Count(s, Sent(q, S)) + 0
    <3> HIDE DEF d, s
    <3>1. Count(<<d>> \o s, Sent(q, S)) = Count(s, Sent(q, S)) + IF d \in Sent(q, S) THEN 1 ELSE 0
      BY <2>3, CountBefore
    <3> QED BY <2>3, <3>1
  <2> QED BY <1>4, <1>8, <2>2, <2>4
<1> QED BY <1>6, <1>7, <1>8 DEF Peek

(* Who may send what: grants and granted changes come from system_service, *)
(* requests for a change from the UI task.                                 *)
LEMMA Senders ==
    ASSUME NEW u \in Tasks, NEW e \in Duties[u]
    PROVE  /\ e \in Sent("doorlock", Grants) => u = "system"
           /\ e \in Sent("ui", Granting) => u = "system"
           /\ e \in Sent("system", SysopMessage) => u = "ui"
<1>1. CASE u = "ui"
  BY <1>1 DEF Duties, Drawings, DrawTop, InvokeBack, Sent
<1>2. CASE u = "system"
  BY <1>2 DEF Duties, Drawings, DrawTop, Sent
<1>3. CASE u = "doorlock"
  BY <1>3 DEF Duties, Sent, Granting, LockMessage, ResultMessage
<1>4. CASE u = "fg"
  BY <1>4 DEF Duties, Sent, Granting, FgMessage, ResultMessage, AuthMessage, SysopMessage
<1> QED BY <1>1, <1>2, <1>3, <1>4 DEF Tasks

(* The wake-up of invoke is none of the messages counted. *)
LEMMA DummyIsNone ==
    /\ [type |-> "dummy"] \notin Grants
    /\ [type |-> "dummy"] \notin Granting
    /\ [type |-> "dummy"] \notin SysopMessage
  BY DEF Grants, Granting, SysopMessage, LockMessage, ResultMessage

(* Which results open the door, and which open the new-password page. *)
LEMMA ValidResults ==
    ASSUME NEW pasw \in Seq(Chars), NEW for \in Purpose
    PROVE  /\ Result(TRUE, pasw, for) \in Grants /\ Result(FALSE, pasw, for) \notin Grants
           /\ Result(TRUE, pasw, for) \in Granting <=> for = "PASW_ALTER"
           /\ Result(FALSE, pasw, for) \notin Granting
<1> DEFINE yes == Result(TRUE, pasw, for)
           no == Result(FALSE, pasw, for)
<1>1. /\ yes \in ResultMessage /\ yes.type = "result" /\ yes.valid = TRUE /\ yes.for = for
      /\ no \in ResultMessage /\ no.type = "result" /\ no.valid = FALSE
  BY DEF Result, ResultMessage
<1> HIDE DEF yes, no
<1>2. FrontByte(yes) = 1 /\ FrontByte(no) = 0
  BY <1>1 DEF FrontByte
<1>3. yes \in Grants /\ no \notin Grants
  BY <1>1, <1>2 DEF Grants
<1>4. (yes \in Granting <=> for = "PASW_ALTER") /\ no \notin Granting
  BY <1>1 DEF Granting
<1> QED BY <1>3, <1>4 DEF yes, no

(* What an answer of system_service adds to what is on its way. *)
LEMMA ServiceCounts ==
    ASSUME BusOK, ServiceHandle
    PROVE  /\ Count(todo'["system"], Sent("doorlock", Grants)) = IF Right("DOOR_UNLOCK") THEN 1 ELSE 0
           /\ Count(todo'["system"], Sent("ui", Granting)) = IF Right("PASW_ALTER") THEN 1 ELSE 0
           /\ todo'["system"] = <<PopUp("ALTER_SUCCS")>> => Request \in SysopMessage
<1>1. "system" \in Queues /\ Request \in Carried["system"] /\ Request = Head(queue["system"])
  BY ServiceBus DEF Queues, Request
<1>2. ASSUME NEW out, Take("system", out) PROVE todo'["system"] = out
  BY <1>1, <1>2, TakeCounts
<1>3. \A pop \in {"PASW_VALID", "PASW_WRONG", "ALTER_SUCCS", "ALTER_FAIL"} :
         /\ PopUp(pop) \in Duties["system"]
         /\ PopUp(pop) \notin Sent("doorlock", Grants)
         /\ PopUp(pop) \notin Sent("ui", Granting)
         /\ PopUp(pop).msg.type = "reflex"
  BY PopUpFits DEF Duties, Sent, Granting, ReflexMessage, ResultMessage
<1>4. CASE OnTrustedAuth
  <2> DEFINE e == To("SERV_UI", Result(TRUE, <<>>, "DOOR_UNLOCK"))
             f == To("HW_DOOR_LOCK", [type |-> "lock", state |-> "UNLOCK"])
  <2>1. todo'["system"] = <<e, f>> /\ Request.trusted
    BY <1>2, <1>4 DEF OnTrustedAuth, Serve
  <2>2. Result(TRUE, <<>>, "DOOR_UNLOCK") \in ResultMessage /\ [type |-> "lock", state |-> "UNLOCK"] \in LockMessage
    BY DEF Result, ResultMessage, Purpose, LockMessage
  <2>3. e \in Duties["system"] /\ f \in Duties["system"]
    BY <2>2 DEF To, QueueOf, Sent, Duties
  <2>4. /\ e \notin Sent("doorlock", Grants) /\ f \notin Sent("doorlock", Grants)
        /\ e \notin Sent("ui", Granting) /\ f \notin Sent("ui", Granting)
    BY DEF To, QueueOf, Sent, Grants, FrontByte, Granting, Result
  <2>5. ~Right("DOOR_UNLOCK") /\ ~Right("PASW_ALTER")
    BY <2>1 DEF Right
  <2>6. <<e, f>> # <<PopUp("ALTER_SUCCS")>>
    <3> HIDE DEF e, f
    <3> QED OBVIOUS
  <2>7. /\ Count(<<e, f>>, Sent("doorlock", Grants)) = 0
        /\ Count(<<e, f>>, Sent("ui", Granting)) = 0
    <3> HIDE DEF e, f
    <3>1. Count(<<e, f>>, Sent("doorlock", Grants)) = 0 + 0
      BY <2>3, <2>4, CountFew
    <3>2. Count(<<e, f>>, Sent("ui", Granting)) = 0 + 0
      BY <2>3, <2>4, CountFew
    <3> QED BY <3>1, <3>2
  <2> HIDE DEF e, f
  <2> QED BY <2>1, <2>5, <2>6, <2>7
<1>5. CASE OnAuth
  <2> DEFINE valid == Request.pasw = stored
             echo == IF valid THEN Request.validEcho ELSE Request.wrongEcho
             shown == PopUp(IF valid THEN "PASW_VALID" ELSE "PASW_WRONG")
             answer == To(Request.respond, Result(valid, Request.pasw, Request.for))
             X == Duties["system"]
  <2>1. todo'["system"] = Verdict(Request) /\ Request.type = "auth" /\ ~Request.trusted /\ stored # <<>>
    BY <1>2, <1>5 DEF OnAuth, Serve
  <2>2. Request \in AuthMessage
    BY <1>1, <2>1 DEF Carried, SysopMessage, DummyMessage
  <2>14. Request.pasw \in Seq(Chars) /\ Request.for \in Purpose
    BY <2>2 DEF AuthMessage
  <2>3. Verdict(Request) = Append(IF echo THEN <<shown>> ELSE <<>>, answer)
    BY DEF Verdict
  <2>4. shown \in X /\ shown \notin Sent("doorlock", Grants) /\ shown \notin Sent("ui", Granting)
    BY <1>3
  <2>5. Result(valid, Request.pasw, Request.for) \in ResultMessage
    BY <2>2 DEF AuthMessage, Result, ResultMessage
  <2>6. answer \in X
    BY <2>2, <2>5 DEF AuthMessage, To, QueueOf, Sent, Duties
  <2>7. answer.to = IF Request.for = "DOOR_UNLOCK" THEN "doorlock" ELSE "ui"
    BY <2>2 DEF AuthMessage, To, QueueOf, RespondTo, Purpose
  <2>8. answer.op = "publish" /\ answer.msg = Result(valid, Request.pasw, Request.for)
    BY DEF To
  <2>9. answer \in Sent("doorlock", Grants) <=> Right("DOOR_UNLOCK")
    <3>1. answer.msg \in Grants <=> valid
      <4>1. CASE valid = TRUE
        BY <2>14, <2>8, <4>1, ValidResults
      <4>2. CASE valid = FALSE
        BY <2>14, <2>8, <4>2, ValidResults
      <4> QED BY <4>1, <4>2
    <3>2. answer \in Sent("doorlock", Grants) <=> Request.for = "DOOR_UNLOCK" /\ valid
      BY <2>6, <2>7, <2>8, <3>1, SentIff DEF Tasks
    <3> QED BY <2>1, <3>2 DEF Right
  <2>10. answer \in Sent("ui", Granting) <=> Right("PASW_ALTER")
    <3>1. answer.msg \in Granting <=> valid /\ Request.for = "PASW_ALTER"
      <4>1. CASE valid = TRUE
        BY <2>14, <2>8, <4>1, ValidResults
      <4>2. CASE valid = FALSE
        BY <2>14, <2>8, <4>2, ValidResults
      <4> QED BY <4>1, <4>2
    <3>2. answer \in Sent("ui", Granting) <=> Request.for = "PASW_ALTER" /\ valid
      BY <2>6, <2>7, <2>8, <3>1, SentIff DEF Tasks
    <3> QED BY <2>1, <3>2 DEF Right
  <2>11. answer.msg.type = "result" /\ PopUp("ALTER_SUCCS").msg.type = "reflex"
    BY <1>3, <2>8 DEF Result
  <2> HIDE DEF shown, answer, X, echo
  <2>12. CASE echo
    <3>1. Verdict(Request) = <<shown, answer>>
      <4>1. Verdict(Request) = Append(<<shown>>, answer)
        BY <2>3, <2>12
      <4>2. Append(<<shown>>, answer) = <<shown, answer>>
        BY <2>4, <2>6, FewAppended
      <4> QED BY <4>1, <4>2
    <3>2. Count(<<shown, answer>>, Sent("doorlock", Grants)) = 0 + IF answer \in Sent("doorlock", Grants) THEN 1 ELSE 0
      BY <2>4, <2>6, CountFew
    <3>3. Count(<<shown, answer>>, Sent("ui", Granting)) = 0 + IF answer \in Sent("ui", Granting) THEN 1 ELSE 0
      BY <2>4, <2>6, CountFew
    <3>4. <<shown, answer>> # <<PopUp("ALTER_SUCCS")>>
      OBVIOUS
    <3> QED BY <2>1, <2>9, <2>10, <3>1, <3>2, <3>3, <3>4
  <2>13. CASE ~echo
    <3>1. Verdict(Request) = <<answer>>
      BY <2>3, <2>13
    <3>2. Count(<<answer>>, Sent("doorlock", Grants)) = IF answer \in Sent("doorlock", Grants) THEN 1 ELSE 0
      BY <2>6, CountFew
    <3>3. Count(<<answer>>, Sent("ui", Granting)) = IF answer \in Sent("ui", Granting) THEN 1 ELSE 0
      BY <2>6, CountFew
    <3>4. <<answer>> # <<PopUp("ALTER_SUCCS")>>
      BY <2>11
    <3> QED BY <2>1, <2>9, <2>10, <3>1, <3>2, <3>3, <3>4
  <2> QED BY <2>12, <2>13
<1>6. CASE OnSysop
  <2>1. PICK pop \in {"ALTER_SUCCS", "ALTER_FAIL", "PASW_WRONG"} : todo'["system"] = <<PopUp(pop)>>
    BY <1>2, <1>6 DEF OnSysop, Serve
  <2>2. Request.type = "sysop"
    BY <1>6 DEF OnSysop, Serve
  <2>3. PopUp(pop) \in Duties["system"] /\ PopUp(pop) \notin Sent("doorlock", Grants)
        /\ PopUp(pop) \notin Sent("ui", Granting)
    BY <1>3
  <2>4. Request \in SysopMessage /\ ~Right("DOOR_UNLOCK") /\ ~Right("PASW_ALTER")
    BY <1>1, <2>2 DEF Carried, AuthMessage, DummyMessage, Right
  <2>5. Count(<<PopUp(pop)>>, Sent("doorlock", Grants)) = 0
    BY <2>3, CountFew
  <2>6. Count(<<PopUp(pop)>>, Sent("ui", Granting)) = 0
    BY <2>3, CountFew
  <2> QED BY <2>1, <2>4, <2>5, <2>6
<1>7. CASE CompareWithNull \/ OnDummy
  <2>1. todo'["system"] = <<>>
    BY <1>2, <1>7 DEF CompareWithNull, OnDummy, Serve
  <2>2. ~Right("DOOR_UNLOCK") /\ ~Right("PASW_ALTER")
    BY <1>7 DEF CompareWithNull, OnDummy, Serve, Right
  <2> QED BY <2>1, <2>2, CountEmpty
<1> QED BY <1>4, <1>5, <1>6, <1>7 DEF ServiceHandle

Typing == {"psw_alter"}

(* Only activity_run of the new-password page adds one to the stack ... *)
LEMMA PushCounts ==
    ASSUME ActivitiesOK, NEW a \in Activity, Push(a)
    PROVE  Count(stack', Typing) <= Count(stack, Typing) + IF a = "psw_alter" THEN 1 ELSE 0
<1>1. stack \in Seq(Activity) /\ Count(stack, Typing) \in Nat
  BY CountFinite DEF ActivitiesOK
<1>2. CASE stack' = Append(stack, a)
  <2>1. Count(Append(stack, a), Typing) = Count(stack, Typing) + IF a \in Typing THEN 1 ELSE 0
    BY <1>1, CountAppend
  <2> QED BY <1>1, <1>2, <2>1 DEF Typing
<1>3. CASE stack' = stack
  BY <1>1, <1>3
<1> QED BY <1>2, <1>3 DEF Push, Pushed

(* ... and only activity_back from it takes one away. *)
LEMMA PopCounts ==
    ASSUME ActivitiesOK, Pop
    PROVE  Count(stack, Typing) = Count(stack', Typing) + IF Top = "psw_alter" THEN 1 ELSE 0
<1>1. stack \in Seq(Activity) /\ stack' = Popped
  BY DEF ActivitiesOK, Pop
<1>2. CASE stack # <<>>
  <2>1. Count(stack, Typing) = Count(Popped, Typing) + IF stack[Len(stack)] \in Typing THEN 1 ELSE 0
    BY <1>1, <1>2, CountPopped DEF Popped
  <2>2. Top = stack[Len(stack)]
    BY <1>2 DEF Top
  <2> QED BY <1>1, <2>1, <2>2 DEF Typing
<1>3. CASE stack = <<>>
  <2>1. Popped = <<>> /\ Top # "psw_alter"
    BY <1>3 DEF Popped, Top, NULL
  <2> QED BY <1>1, <1>3, <2>1, CountEmpty
<1> QED BY <1>2, <1>3

(* A change being granted, typed in or asked for: what the UI task handles *)
(* makes none out of nothing.                                              *)
LEMMA UiCounts ==
    ASSUME BusOK, UiOK, ActivitiesOK, ActivitiesOK', UiHandle
    PROVE  Count(queue'["ui"], Granting) + Count(todo'["ui"], Sent("system", SysopMessage))
             + Count(stack', Typing)
             <= Count(queue["ui"], Granting) + Count(todo["ui"], Sent("system", SysopMessage))
                  + Count(stack, Typing)
<1> DEFINE C == Count(queue["ui"], Granting)
           Cn == Count(queue'["ui"], Granting)
           D == Count(todo["ui"], Sent("system", SysopMessage))
           Dn == Count(todo'["ui"], Sent("system", SysopMessage))
           E == Count(stack, Typing)
           En == Count(stack', Typing)
<1>1. "ui" \in Queues
  BY DEF Queues
<1>2. BusOK' /\ Msg \in Carried["ui"]
  BY UiBus
<1>3. C \in Nat /\ Cn \in Nat /\ D \in Nat /\ Dn \in Nat
  BY <1>1, <1>2, CountFinite DEF BusOK, Tasks, Queues
<1>4. E \in Nat /\ En \in Nat
  BY CountFinite DEF ActivitiesOK
<1>5. C = Cn + IF Msg \in Granting THEN 1 ELSE 0
  <2>1. PICK out : Take("ui", out)
    BY UiTakesOut
  <2> QED BY <1>1, <2>1, TakeCounts DEF Msg
<1>6. D = 0
  <2>1. todo["ui"] = <<>>
    BY UiTakesOut DEF Take, Idle
  <2> QED BY <2>1, CountEmpty
<1>7. ASSUME NEW out, Take("ui", out) PROVE todo'["ui"] = out
  BY <1>1, <1>7, TakeCounts
<1>8. /\ {AlterRequest, AuthRequest, InvokeBack, DrawTop} \subseteq Duties["ui"]
      /\ InvokeBack \notin Sent("system", SysopMessage)
      /\ AuthRequest \notin Sent("system", SysopMessage)
  BY UiRequests DEF InvokeBack, Sent, AuthMessage, SysopMessage
<1>9. \A e \in Drawings : e \in Duties["ui"] /\ e \notin Sent("system", SysopMessage)
  <2>1. Drawings \subseteq Duties["ui"]
    BY DEF Duties
  <2>2. \A e \in Drawings : e.op # "publish"
    BY DEF Drawings, DrawTop
  <2> QED BY <2>1, <2>2 DEF Sent
<1>10. ASSUME NEW e \in Drawings, NEW f \in {InvokeBack, AuthRequest},
              Take("ui", <<>>) \/ Take("ui", <<e>>) \/ Take("ui", <<e, f>>)
       PROVE  Dn = 0 /\ Cn <= C
  <2>1. Count(<<e>>, Sent("system", SysopMessage)) = 0
    BY <1>9, CountFew
  <2>2. e \in Duties["ui"] /\ f \in Duties["ui"]
        /\ e \notin Sent("system", SysopMessage) /\ f \notin Sent("system", SysopMessage)
    BY <1>8, <1>9
  <2>3. Count(<<e, f>>, Sent("system", SysopMessage)) = 0 + 0
    BY <2>2, CountFew
  <2>4. Dn = 0
    BY <1>7, <1>10, <2>1, <2>3, CountEmpty
  <2> QED BY <1>3, <1>5, <2>4
<1>11. DrawTop \in Drawings /\ \A a \in Activity : Draw(a) \in Drawings
  BY Printable DEF Drawings
<1>12. ASSUME Dn = 0, Cn <= C, En <= E PROVE Cn + Dn + En <= C + D + E
  BY <1>3, <1>4, <1>6, <1>12
<1>13. CASE UiQuiet \/ (OnKeyAtNull /\ Take("ui", <<>>)) \/ UiRefreshes
  <2>1. stack' = stack
    BY <1>13 DEF UiQuiet, OnKeyAtNull, UiRefreshes, Refresh, activityVars
  <2>2. Dn = 0 /\ Cn <= C
    BY <1>10, <1>11, <1>13 DEF UiQuiet, UiRefreshes
  <2> QED BY <1>4, <1>12, <2>1, <2>2
<1>14. ASSUME NEW a \in Activity \ {"home", "psw_alter"}, UiPushes(a)
       PROVE  Cn + Dn + En <= C + D + E
  <2>1. Dn = 0 /\ Cn <= C
    BY <1>10, <1>11, <1>14 DEF UiPushes
  <2>2. En <= E + 0
    BY <1>14, PushCounts DEF UiPushes
  <2> QED BY <1>4, <1>12, <2>1, <2>2
<1>15. CASE UiPops \/ UiAsks(AuthRequest)
  <2>1. Dn = 0 /\ Cn <= C
    BY <1>10, <1>11, <1>15 DEF UiPops, UiAsks
  <2>2. E = En + IF Top = "psw_alter" THEN 1 ELSE 0
    BY <1>15, PopCounts DEF UiPops, UiAsks
  <2> QED BY <1>4, <1>12, <2>1, <2>2
<1>16. CASE OnAlterGranted /\ UiPushes("psw_alter")
  <2>1. Msg.type = "result" /\ Msg.valid /\ Msg.for = "PASW_ALTER"
    BY <1>16 DEF OnAlterGranted, Receive
  <2>2. Msg \in Granting
    BY <1>2, <2>1 DEF Carried, Granting, KeyMessage, LockMessage, FgMessage, ReflexMessage
  <2>3. "psw_alter" \in Activity
    BY DEF Activity, InputPages
  <2>4. En <= E + 1
    BY <1>16, <2>3, PushCounts DEF UiPushes
  <2>5. Dn = 0
    BY <1>10, <1>11, <1>16, <2>3 DEF UiPushes
  <2>6. C = Cn + 1
    BY <1>5, <2>2
  <2> HIDE DEF C, Cn, D, Dn, E, En
  <2> QED BY <1>3, <1>4, <1>6, <2>4, <2>5, <2>6 DEF C, Cn, D, Dn, E, En
<1>17. CASE OnAlterConfirm /\ UiAsks(AlterRequest)
  <2>1. Top = "psw_alter" /\ Pop /\ todo'["ui"] = <<DrawTop, AlterRequest>>
    BY <1>7, <1>17 DEF OnAlterConfirm, UiAsks
  <2>2. E = En + 1
    BY <2>1, PopCounts
  <2>3. Count(<<DrawTop, AlterRequest>>, Sent("system", SysopMessage))
          = 0 + IF AlterRequest \in Sent("system", SysopMessage) THEN 1 ELSE 0
    <3>1. DrawTop \in Duties["ui"] /\ DrawTop \notin Sent("system", SysopMessage)
          /\ AlterRequest \in Duties["ui"]
      BY <1>8, <1>9, <1>11
    <3> QED BY <3>1, CountFew
  <2>4. Dn <= 1 /\ Cn <= C
    BY <1>3, <1>5, <2>1, <2>3
  <2> HIDE DEF C, Cn, D, Dn, E, En
  <2> QED BY <1>3, <1>4, <1>6, <2>2, <2>4 DEF C, Cn, D, Dn, E, En
<1> QED BY <1>13, <1>14, <1>15, <1>16, <1>17, UiTakes
-----------------------------------------------------------------------------
AccountTypes ==
    verified \in Nat /\ granted \in Nat /\ lost \in Nat /\ alters \in Nat /\ changes \in Nat

(* What is on its way, spelled out in this state and in the next. *)
LEMMA OnTheirWay ==
    /\ GrantOnItsWay = Count(queue["doorlock"], Grants) + Count(todo["system"], Sent("doorlock", Grants))
    /\ GrantOnItsWay' = Count(queue'["doorlock"], Grants) + Count(todo'["system"], Sent("doorlock", Grants))
    /\ ChangeOnItsWay =
          Count(queue["ui"], Granting) + Count(todo["system"], Sent("ui", Granting))
            + Count(queue["system"], SysopMessage) + Count(todo["ui"], Sent("system", SysopMessage))
            + Count(stack, Typing)
    /\ ChangeOnItsWay' =
          Count(queue'["ui"], Granting) + Count(todo'["system"], Sent("ui", Granting))
            + Count(queue'["system"], SysopMessage) + Count(todo'["ui"], Sent("system", SysopMessage))
            + Count(stack', Typing)
<1>1. GrantOnItsWay = Count(queue["doorlock"], Grants) + Count(todo["system"], Sent("doorlock", Grants))
  BY DEF GrantOnItsWay
<1>2. GrantOnItsWay' = Count(queue'["doorlock"], Grants) + Count(todo'["system"], Sent("doorlock", Grants))
  BY DEF GrantOnItsWay
<1>3. ChangeOnItsWay =
          Count(queue["ui"], Granting) + Count(todo["system"], Sent("ui", Granting))
            + Count(queue["system"], SysopMessage) + Count(todo["ui"], Sent("system", SysopMessage))
            + Count(stack, Typing)
  BY DEF ChangeOnItsWay, Typing
<1>4. ChangeOnItsWay' =
          Count(queue'["ui"], Granting) + Count(todo'["system"], Sent("ui", Granting))
            + Count(queue'["system"], SysopMessage) + Count(todo'["ui"], Sent("system", SysopMessage))
            + Count(stack', Typing)
  BY DEF ChangeOnItsWay, Typing
<1> QED BY <1>1, <1>2, <1>3, <1>4

(* All counts are numbers, in this state and in the next. *)
LEMMA BusCounts ==
    /\ BusOK => /\ \A q \in Queues : \A S : Count(queue[q], S) \in Nat
                /\ \A t \in Tasks : \A S : Count(todo[t], S) \in Nat
    /\ BusOK' => /\ \A q \in Queues : \A S : Count(queue'[q], S) \in Nat
                 /\ \A t \in Tasks : \A S : Count(todo'[t], S) \in Nat
<1>1. \A X : \A s \in Seq(X) : \A S : Count(s, S) \in Nat
  BY CountFinite
<1>2. BusOK => /\ \A q \in Queues : queue[q] \in Seq(Carried[q])
               /\ \A t \in Tasks : todo[t] \in Seq(Duties[t])
  BY DEF BusOK
<1>3. BusOK' => /\ \A q \in Queues : queue'[q] \in Seq(Carried[q])
                /\ \A t \in Tasks : todo'[t] \in Seq(Duties[t])
  BY DEF BusOK
<1> QED BY <1>1, <1>2, <1>3

(* Those of the accounts among them. *)
LEMMA OnTheirWayTypes ==
    ASSUME BusOK, BusOK', ActivitiesOK, ActivitiesOK'
    PROVE  /\ Count(queue["doorlock"], Grants) \in Nat
           /\ Count(todo["system"], Sent("doorlock", Grants)) \in Nat
           /\ Count(queue["ui"], Granting) \in Nat
           /\ Count(todo["system"], Sent("ui", Granting)) \in Nat
           /\ Count(queue["system"], SysopMessage) \in Nat
           /\ Count(todo["ui"], Sent("system", SysopMessage)) \in Nat
           /\ Count(stack, Typing) \in Nat
           /\ Count(queue'["doorlock"], Grants) \in Nat
           /\ Count(todo'["system"], Sent("doorlock", Grants)) \in Nat
           /\ Count(queue'["ui"], Granting) \in Nat
           /\ Count(todo'["system"], Sent("ui", Granting)) \in Nat
           /\ Count(queue'["system"], SysopMessage) \in Nat
           /\ Count(todo'["ui"], Sent("system", SysopMessage)) \in Nat
           /\ Count(stack', Typing) \in Nat
<1>1. Count(stack, Typing) \in Nat /\ Count(stack', Typing) \in Nat
  BY CountFinite DEF ActivitiesOK
<1> QED BY <1>1, BusCounts DEF Queues, Tasks

(* At boot nothing was verified and nothing is on its way. *)
LEMMA AccountsInitial == Init => AccountTypes /\ GrantsAccounted /\ ChangesVerified
<1> SUFFICES ASSUME Init PROVE AccountTypes /\ GrantsAccounted /\ ChangesVerified
  OBVIOUS
<1>1. /\ verified = 0 /\ granted = 0 /\ lost = 0 /\ alters = 0 /\ changes = 0
      /\ \A q \in Queues : queue[q] = <<>>
      /\ \A t \in Tasks : todo[t] = <<>>
  BY DEF Init, BusInit, NoMessages, NothingToDo
<1>2. Count(stack, Typing) = 0
  <2>1. stack = <<"home">> /\ "home" \notin Typing
    BY DEF Init, ActivitiesInit, Typing
  <2>2. "home" \in {"home"}
    OBVIOUS
  <2> QED BY <2>1, <2>2, CountFew
<1>3. GrantOnItsWay = 0 /\ ChangeOnItsWay = 0
  BY <1>1, <1>2, CountEmpty, OnTheirWay DEF Queues, Tasks
<1> QED BY <1>1, <1>3 DEF AccountTypes, GrantsAccounted, ChangesVerified

(* What a finished duty does to the accounts. *)
LEMMA FinishAccounts ==
    ASSUME TypeOK, AccountTypes, GrantsAccounted, ChangesVerified, TypeOK',
           NEW u \in Tasks, Finish(u), ~Peek(u), ~Drawn(u)
    PROVE  AccountTypes' /\ GrantsAccounted' /\ ChangesVerified'
<1> DEFINE G == Count(queue["doorlock"], Grants) + Count(todo["system"], Sent("doorlock", Grants))
           Gn == Count(queue'["doorlock"], Grants) + Count(todo'["system"], Sent("doorlock", Grants))
           R == Count(queue["ui"], Granting) + Count(todo["system"], Sent("ui", Granting))
           Rn == Count(queue'["ui"], Granting) + Count(todo'["system"], Sent("ui", Granting))
           S == Count(queue["system"], SysopMessage) + Count(todo["ui"], Sent("system", SysopMessage))
           Sn == Count(queue'["system"], SysopMessage) + Count(todo'["ui"], Sent("system", SysopMessage))
           E == Count(stack, Typing)
           En == Count(stack', Typing)
           e == Head(todo[u])
<1>1. /\ BusOK /\ UNCHANGED <<stack, verified, granted, alters, changes>>
      /\ \/ PublishSent(u) /\ UNCHANGED lost
         \/ /\ PublishLost(u) \/ InvokeRefused(u) \/ InvokeAccepted(u)
            /\ lost' = IF e.op = "publish" /\ e \in Sent("doorlock", Grants) THEN lost + 1 ELSE lost
  <2>1. CASE PublishSent(u) /\ UNCHANGED <<activityVars, serviceVars, lost>>
    BY <2>1 DEF Finish, TypeOK, activityVars
  <2>2. CASE /\ PublishLost(u)
             /\ lost' = IF Head(todo[u]) \in Sent("doorlock", Grants) THEN lost + 1 ELSE lost
             /\ UNCHANGED <<activityVars, serviceVars>>
    BY <2>2 DEF Finish, TypeOK, activityVars, PublishLost, Publishing
  <2>3. CASE (InvokeAccepted(u) \/ InvokeRefused(u)) /\ UNCHANGED lost
    BY <2>3 DEF Finish, TypeOK, activityVars, InvokeAccepted, InvokeRefused, Invoking
  <2> QED BY <2>1, <2>2, <2>3 DEF Finish
<1>2. Does(u)
  BY DEF Finish, PublishSent, PublishLost, Publishing, InvokeRefused, InvokeAccepted, Invoking, Does
<1>3. e \in Duties[u]
  BY <1>1, <1>2, DutyDone DEF Does
<1>4. /\ {"ui", "system", "doorlock"} \subseteq Queues /\ {"ui", "system"} \subseteq Tasks
      /\ u # "system" => Head(todo[u]) \notin Sent("doorlock", Grants)
      /\ u # "system" => Head(todo[u]) \notin Sent("ui", Granting)
      /\ u # "ui" => Head(todo[u]) \notin Sent("system", SysopMessage)
  BY <1>3, Senders DEF Queues, Tasks
<1>5. /\ G \in Nat /\ Gn \in Nat /\ R \in Nat /\ Rn \in Nat /\ S \in Nat /\ Sn \in Nat
      /\ E \in Nat /\ En = E
      /\ GrantOnItsWay = G /\ GrantOnItsWay' = Gn
      /\ ChangeOnItsWay = R + S + E /\ ChangeOnItsWay' = Rn + Sn + En
  <2>1. BusOK /\ BusOK' /\ ActivitiesOK /\ ActivitiesOK'
    BY DEF TypeOK
  <2>2. ChangeOnItsWay = R + S + E
    BY <2>1, OnTheirWay, OnTheirWayTypes
  <2>3. ChangeOnItsWay' = Rn + Sn + En
    BY <2>1, OnTheirWay, OnTheirWayTypes
  <2>4. G \in Nat /\ Gn \in Nat /\ R \in Nat /\ Rn \in Nat /\ S \in Nat /\ Sn \in Nat
    BY <2>1, OnTheirWayTypes
  <2> QED BY <1>1, <2>1, <2>2, <2>3, <2>4, OnTheirWay, OnTheirWayTypes
<1>6. CASE PublishSent(u) /\ UNCHANGED lost
  <2>1. Gn = G
    BY <1>1, <1>4, <1>6, SentCounts
  <2>2. Rn = R
    BY <1>1, <1>4, <1>6, SentCounts
  <2>3. Sn = S
    BY <1>1, <1>4, <1>6, SentCounts
  <2> HIDE DEF G, Gn, R, Rn, S, Sn, E, En
  <2>4. GrantOnItsWay' = GrantOnItsWay /\ ChangeOnItsWay' = ChangeOnItsWay
    BY <1>5, <2>1, <2>2, <2>3
  <2> QED BY <1>1, <1>6, <2>4 DEF AccountTypes, GrantsAccounted, ChangesVerified
<1>7. CASE /\ PublishLost(u) \/ InvokeRefused(u) \/ InvokeAccepted(u)
           /\ lost' = IF e.op = "publish" /\ e \in Sent("doorlock", Grants) THEN lost + 1 ELSE lost
  <2>1. G = Gn + IF e \in Sent("doorlock", Grants) THEN 1 ELSE 0
    BY <1>1, <1>4, <1>7, LostCounts, DummyIsNone
  <2>2. R = Rn + IF e \in Sent("ui", Granting) THEN 1 ELSE 0
    BY <1>1, <1>4, <1>7, LostCounts, DummyIsNone
  <2>3. S = Sn + IF e \in Sent("system", SysopMessage) THEN 1 ELSE 0
    BY <1>1, <1>4, <1>7, LostCounts, DummyIsNone
  <2>4. e \in Sent("doorlock", Grants) => e.op = "publish"
    BY DEF Sent
  <2> HIDE DEF G, Gn, R, Rn, S, Sn, E, En, e
  <2>5. lost' = (IF e \in Sent("doorlock", Grants) THEN lost + 1 ELSE lost) /\ lost' \in Nat
    BY <1>7, <2>4 DEF AccountTypes
  <2>6. granted + G + lost = verified /\ granted \in Nat /\ lost \in Nat
    BY <1>5 DEF AccountTypes, GrantsAccounted
  <2>7. granted + Gn + lost' = verified
    BY <1>5, <2>1, <2>5, <2>6
  <2>8. changes + (R + S + E) <= alters /\ changes \in Nat /\ alters \in Nat
    BY <1>5 DEF AccountTypes, ChangesVerified
  <2>9. changes + (Rn + Sn + En) <= alters
    BY <1>5, <2>2, <2>3, <2>8
  <2>10. GrantsAccounted'
    BY <1>1, <1>5, <2>7 DEF GrantsAccounted
  <2>11. ChangesVerified'
    BY <1>1, <1>5, <2>9 DEF ChangesVerified
  <2>12. AccountTypes'
    BY <1>1, <2>5 DEF AccountTypes
  <2> QED BY <2>10, <2>11, <2>12
<1> QED BY <1>1, <1>6, <1>7

(* Steps that leave the grants and the service alone, and make no change   *)
(* out of nothing.                                                         *)
LEMMA QuietAccounts ==
    ASSUME TypeOK, TypeOK', AccountTypes, GrantsAccounted, ChangesVerified,
           UNCHANGED <<verified, granted, lost, alters, changes>>,
           \A q \in Queues \ {"ui"} : queue'[q] = queue[q],
           Count(todo'["system"], Sent("doorlock", Grants)) = Count(todo["system"], Sent("doorlock", Grants)),
           Count(todo'["system"], Sent("ui", Granting)) = Count(todo["system"], Sent("ui", Granting)),
           Count(queue'["ui"], Granting) + Count(todo'["ui"], Sent("system", SysopMessage))
             + Count(stack', Typing)
             <= Count(queue["ui"], Granting) + Count(todo["ui"], Sent("system", SysopMessage))
                  + Count(stack, Typing)
    PROVE  AccountTypes' /\ GrantsAccounted' /\ ChangesVerified'
<1> DEFINE R == Count(queue["ui"], Granting)
           Rn == Count(queue'["ui"], Granting)
           A == Count(todo["system"], Sent("ui", Granting))
           An == Count(todo'["system"], Sent("ui", Granting))
           S == Count(queue["system"], SysopMessage)
           Sn == Count(queue'["system"], SysopMessage)
           T == Count(todo["ui"], Sent("system", SysopMessage))
           Tn == Count(todo'["ui"], Sent("system", SysopMessage))
           E == Count(stack, Typing)
           En == Count(stack', Typing)
<1>1. /\ R \in Nat /\ Rn \in Nat /\ A \in Nat /\ An \in Nat /\ S \in Nat /\ Sn \in Nat
      /\ T \in Nat /\ Tn \in Nat /\ E \in Nat /\ En \in Nat
  BY OnTheirWayTypes DEF TypeOK
<1>2. ChangeOnItsWay = R + A + S + T + E /\ ChangeOnItsWay' = Rn + An + Sn + Tn + En
  BY OnTheirWay
<1>3. GrantOnItsWay' = GrantOnItsWay
  BY OnTheirWay DEF Queues
<1>4. An = A /\ Sn = S /\ Rn + Tn + En <= R + T + E
  BY DEF Queues
<1> HIDE DEF R, Rn, A, An, S, Sn, T, Tn, E, En
<1>5. GrantsAccounted' /\ AccountTypes'
  BY <1>3 DEF GrantsAccounted, AccountTypes
<1>6. changes + (R + A + S + T + E) <= alters /\ changes \in Nat /\ alters \in Nat
  BY <1>2 DEF ChangesVerified, AccountTypes
<1>7. changes + (Rn + An + Sn + Tn + En) <= alters
  BY <1>1, <1>4, <1>6
<1>8. ChangesVerified'
  BY <1>2, <1>7 DEF ChangesVerified
<1> QED BY <1>5, <1>8

(* Nor does printing. *)
LEMMA DrawnAccounts ==
    ASSUME TypeOK, TypeOK', AccountTypes, GrantsAccounted, ChangesVerified,
           NEW u \in Tasks, Finish(u), Peek(u) \/ Drawn(u)
    PROVE  AccountTypes' /\ GrantsAccounted' /\ ChangesVerified'
<1>1. UNCHANGED <<queue, stack>>
  BY DEF Peek, Drawn
<1>2. UNCHANGED <<verified, granted, lost, alters, changes>>
  <2>1. ~PublishLost(u) /\ ~PublishSent(u) /\ ~InvokeAccepted(u) /\ ~InvokeRefused(u)
    BY DEF Peek, Drawn, Drawing, PublishLost, PublishSent, Publishing, InvokeAccepted, InvokeRefused, Invoking
  <2> QED BY <2>1 DEF Finish
<1>3. \A t \in Tasks : \A q, S : Count(todo'[t], Sent(q, S)) = Count(todo[t], Sent(q, S))
  BY DrawnCounts DEF TypeOK
<1>4. /\ Count(queue["ui"], Granting) \in Nat
      /\ Count(todo["ui"], Sent("system", SysopMessage)) \in Nat
      /\ Count(stack, Typing) \in Nat
  BY OnTheirWayTypes DEF TypeOK
<1> QED BY <1>1, <1>2, <1>3, <1>4, QuietAccounts DEF Tasks

(* A key opens nothing and changes nothing. *)
LEMMA PressAccounts ==
    ASSUME TypeOK, TypeOK', AccountTypes, GrantsAccounted, ChangesVerified, PressKey
    PROVE  AccountTypes' /\ GrantsAccounted' /\ ChangesVerified'
<1>1. PICK k \in Presses[keys + 1] :
         queue' = IF Full("ui") THEN queue
                  ELSE [queue EXCEPT !["ui"] = Append(@, [type |-> "key", key |-> k])]
  BY DEF PressKey
<1>2. UNCHANGED <<todo, stack, verified, granted, lost, alters, changes>>
  BY DEF PressKey, activityVars
<1>3. [type |-> "key", key |-> k] \in KeyMessage
  <2>1. keys + 1 \in 1 .. Len(Presses)
    BY DEF PressKey, TypeOK
  <2>2. Presses[keys + 1] \subseteq Keys
    BY <2>1, DoorSystemAssumption
  <2> QED BY <2>2 DEF KeyMessage
<1>4. "ui" \in Queues
  BY DEF Queues
<1>5. Count(queue'["ui"], Granting) = Count(queue["ui"], Granting) /\ \A q \in Queues \ {"ui"} : queue'[q] = queue[q]
  <2>1. CASE Full("ui")
    BY <1>1, <2>1
  <2>2. CASE ~Full("ui")
    <3>1. Posts("ui", [type |-> "key", key |-> k])
      BY <1>1, <1>3, <2>2 DEF Posts, Carried
    <3>2. [type |-> "key", key |-> k] \notin Granting
      BY DEF Granting, ResultMessage
    <3>3. Count(queue'["ui"], Granting) = Count(queue["ui"], Granting) + 0
      BY <1>4, <3>1, <3>2, PostedCounts DEF TypeOK
    <3>4. Count(queue["ui"], Granting) \in Nat
      BY <1>4, BusCounts DEF TypeOK
    <3> QED BY <3>1, <3>3, <3>4 DEF Posts, TypeOK, BusOK
  <2> QED BY <2>1, <2>2
<1>6. /\ Count(queue'["ui"], Granting) \in Nat
      /\ Count(todo["ui"], Sent("system", SysopMessage)) \in Nat
      /\ Count(stack, Typing) \in Nat
  BY OnTheirWayTypes DEF TypeOK
<1> QED BY <1>2, <1>5, <1>6, QuietAccounts

(* Nor does what the reader or the lock reports. *)
LEMMA StartAccounts ==
    ASSUME TypeOK, TypeOK', AccountTypes, GrantsAccounted, ChangesVerified,
           NEW t \in {"doorlock", "fg"}, NEW out, Start(t, out),
           UNCHANGED <<queue, stack, verified, granted, lost, alters, changes>>
    PROVE  AccountTypes' /\ GrantsAccounted' /\ ChangesVerified'
<1>1. todo'["ui"] = todo["ui"] /\ todo'["system"] = todo["system"]
  BY DEF Start, TypeOK, BusOK, Tasks
<1>2. /\ Count(queue["ui"], Granting) \in Nat
      /\ Count(todo["ui"], Sent("system", SysopMessage)) \in Nat
      /\ Count(stack, Typing) \in Nat
  BY OnTheirWayTypes DEF TypeOK
<1> QED BY <1>1, <1>2, QuietAccounts

(* The UI task passes on what it was granted. *)
LEMMA UiAccounts ==
    ASSUME TypeOK, TypeOK', AccountTypes, GrantsAccounted, ChangesVerified, UiTask
    PROVE  AccountTypes' /\ GrantsAccounted' /\ ChangesVerified'
<1>1. PICK out : Take("ui", out)
  BY UiTakesOut DEF UiTask, TypeOK
<1>2. "ui" \in Queues /\ "system" \in Tasks \ {"ui"}
  BY DEF Queues, Tasks
<1>3. (\A q \in Queues \ {"ui"} : queue'[q] = queue[q]) /\ todo'["system"] = todo["system"]
  BY <1>1, <1>2, TakeCounts DEF TypeOK
<1> QED BY <1>3, UiCounts, QuietAccounts DEF UiTask, TypeOK, historyVars

(* A delayed activity_back can only close the new-password page. *)
LEMMA DelayedAccounts ==
    ASSUME TypeOK, TypeOK', AccountTypes, GrantsAccounted, ChangesVerified, DelayedCall
    PROVE  AccountTypes' /\ GrantsAccounted' /\ ChangesVerified'
<1>1. Count(stack, Typing) = Count(stack', Typing) + IF Top = "psw_alter" THEN 1 ELSE 0
  BY PopCounts DEF DelayedCall, RunBack, TypeOK
<1>2. UNCHANGED <<queue, verified, granted, lost, alters, changes>>
  BY DEF DelayedCall, RunBack, historyVars
<1>3. todo["system"] = <<>> /\ todo'["system"] = <<DrawTop>> /\ todo'["ui"] = todo["ui"]
  BY DEF DelayedCall, RunBack, Start, Idle, TypeOK, BusOK, Tasks
<1>4. \A q, S : Count(<<DrawTop>>, Sent(q, S)) = 0 /\ Count(<<>>, Sent(q, S)) = 0
  <2>1. DrawTop \in Drawings /\ \A q, S : DrawTop \notin Sent(q, S)
    BY DEF Drawings, DrawTop, Sent
  <2> QED BY <2>1, CountFew, CountEmpty
<1>5. /\ Count(queue["ui"], Granting) \in Nat
      /\ Count(todo["ui"], Sent("system", SysopMessage)) \in Nat
      /\ Count(stack, Typing) \in Nat /\ Count(stack', Typing) \in Nat
  BY OnTheirWayTypes DEF TypeOK
<1> QED BY <1>1, <1>2, <1>3, <1>4, <1>5, QuietAccounts

(* system_service grants what it verifies, and takes a request for each    *)
(* change.                                                                 *)
LEMMA ServiceAccounts ==
    ASSUME TypeOK, TypeOK', AccountTypes, GrantsAccounted, ChangesVerified, ServiceTask
    PROVE  AccountTypes' /\ GrantsAccounted' /\ ChangesVerified'
<1> DEFINE G == Count(queue["doorlock"], Grants)
           H == Count(todo["system"], Sent("doorlock", Grants))
           Hn == Count(todo'["system"], Sent("doorlock", Grants))
           R == Count(queue["ui"], Granting)
           A == Count(todo["system"], Sent("ui", Granting))
           An == Count(todo'["system"], Sent("ui", Granting))
           S == Count(queue["system"], SysopMessage)
           Sn == Count(queue'["system"], SysopMessage)
           T == Count(todo["ui"], Sent("system", SysopMessage))
           E == Count(stack, Typing)
<1>1. /\ G \in Nat /\ H \in Nat /\ Hn \in Nat /\ R \in Nat /\ A \in Nat /\ An \in Nat
      /\ S \in Nat /\ Sn \in Nat /\ T \in Nat /\ E \in Nat
  BY OnTheirWayTypes DEF TypeOK
<1>2. ServiceHandle /\ BusOK /\ UNCHANGED <<stack, granted, lost>>
  BY DEF ServiceTask, TypeOK, activityVars, ServiceHandle, OnTrustedAuth, OnAuth, OnSysop,
         CompareWithNull, OnDummy
<1>3. PICK out : Take("system", out) /\ Request = Head(queue["system"])
  BY <1>2, ServiceTakes
<1>4. /\ queue'["doorlock"] = queue["doorlock"] /\ queue'["ui"] = queue["ui"]
      /\ todo["system"] = <<>> /\ todo'["ui"] = todo["ui"]
  BY <1>2, <1>3, TakeCounts DEF Queues, Tasks
<1>5. S = Sn + IF Request \in SysopMessage THEN 1 ELSE 0
  BY <1>2, <1>3, TakeCounts DEF Queues
<1>6. H = 0 /\ A = 0
  BY <1>4, CountEmpty
<1>7. Hn = IF Right("DOOR_UNLOCK") THEN 1 ELSE 0
  BY <1>2, ServiceCounts
<1>8. An = IF Right("PASW_ALTER") THEN 1 ELSE 0
  BY <1>2, ServiceCounts
<1>9. todo'["system"] = <<PopUp("ALTER_SUCCS")>> => Request \in SysopMessage
  BY <1>2, ServiceCounts
<1>10. /\ verified' = IF Right("DOOR_UNLOCK") THEN verified + 1 ELSE verified
       /\ alters' = IF Right("PASW_ALTER") THEN alters + 1 ELSE alters
       /\ changes' = IF todo'["system"] = <<PopUp("ALTER_SUCCS")>> THEN changes + 1 ELSE changes
  BY DEF ServiceTask
<1>11. GrantOnItsWay = G + H /\ GrantOnItsWay' = G + Hn
  BY <1>4, OnTheirWay
<1>12. ChangeOnItsWay = R + A + S + T + E /\ ChangeOnItsWay' = R + An + Sn + T + E
  BY <1>2, <1>4, OnTheirWay
<1> HIDE DEF G, H, Hn, R, A, An, S, Sn, T, E
<1>13. /\ verified \in Nat /\ granted \in Nat /\ lost \in Nat /\ alters \in Nat /\ changes \in Nat
       /\ granted + (G + H) + lost = verified
       /\ changes + (R + A + S + T + E) <= alters
  BY <1>11, <1>12 DEF AccountTypes, GrantsAccounted, ChangesVerified
<1>14. granted + (G + Hn) + lost = verified' /\ verified' \in Nat
  BY <1>1, <1>6, <1>7, <1>10, <1>13
<1>15. changes' + (R + An + Sn + T + E) <= alters' /\ changes' \in Nat /\ alters' \in Nat
  <2>1. changes' \in Nat /\ changes' + Sn <= changes + S
    BY <1>1, <1>5, <1>9, <1>10, <1>13
  <2>2. alters' \in Nat /\ alters' = alters + An
    BY <1>1, <1>8, <1>10, <1>13
  <2>3. changes + (R + S + T + E) <= alters
    BY <1>1, <1>6, <1>13
  <2>4. \A c, d, r, a, s, n, t, e, x \in Nat :
            c + (r + s + t + e) <= x /\ d + n <= c + s => d + (r + a + n + t + e) <= x + a
    OBVIOUS
  <2>5. changes' + (R + An + Sn + T + E) <= alters + An
    <3> DEFINE d == changes'
    <3>1. d \in Nat /\ d + Sn <= changes + S
      BY <2>1
    <3> HIDE DEF d
    <3>2. d + (R + An + Sn + T + E) <= alters + An
      BY <1>1, <1>13, <2>3, <2>4, <3>1
    <3> QED BY <3>2 DEF d
  <2> QED BY <2>1, <2>2, <2>5
<1>16. GrantsAccounted'
  BY <1>2, <1>11, <1>14 DEF GrantsAccounted
<1>17. ChangesVerified'
  BY <1>12, <1>15 DEF ChangesVerified
<1>18. AccountTypes'
  BY <1>2, <1>13, <1>14, <1>15 DEF AccountTypes
<1> QED BY <1>16, <1>17, <1>18

(* The lock opens once for each grant it takes (door_lock_task). *)
LEMMA LockAccounts ==
    ASSUME TypeOK, TypeOK', AccountTypes, GrantsAccounted, ChangesVerified, LockTask
    PROVE  AccountTypes' /\ GrantsAccounted' /\ ChangesVerified'
<1>1. UNCHANGED <<stack, verified, lost, alters, changes>>
  BY DEF LockTask, activityVars
<1>2. ASSUME NEW out, Take("doorlock", out),
             granted' = granted + IF FrontByte(Head(queue["doorlock"])) = 1 THEN 1 ELSE 0
      PROVE  AccountTypes' /\ GrantsAccounted' /\ ChangesVerified'
  <2> DEFINE G == Count(queue["doorlock"], Grants)
             Gn == Count(queue'["doorlock"], Grants)
             H == Count(todo["system"], Sent("doorlock", Grants))
  <2>1. G \in Nat /\ Gn \in Nat /\ H \in Nat
    BY OnTheirWayTypes DEF TypeOK
  <2>2. BusOK /\ "doorlock" \in Queues
    BY DEF TypeOK, Queues
  <2>3. G = Gn + IF Head(queue["doorlock"]) \in Grants THEN 1 ELSE 0
    BY <1>2, <2>2, TakeCounts
  <2>4. /\ queue'["ui"] = queue["ui"] /\ queue'["system"] = queue["system"]
        /\ todo'["ui"] = todo["ui"] /\ todo'["system"] = todo["system"]
    BY <1>2, <2>2, TakeCounts DEF Queues, Tasks
  <2>5. Head(queue["doorlock"]) \in LockMessage \cup ResultMessage
    BY <1>2, <2>2 DEF Take, BusOK, Carried
  <2>6. Head(queue["doorlock"]) \in Grants <=> FrontByte(Head(queue["doorlock"])) = 1
    BY <2>5 DEF Grants
  <2>7. GrantOnItsWay = G + H /\ GrantOnItsWay' = Gn + H
    BY <2>4, OnTheirWay
  <2>8. ChangeOnItsWay' = ChangeOnItsWay
    BY <1>1, <2>4, OnTheirWay
  <2> HIDE DEF G, Gn, H
  <2>9. granted \in Nat /\ lost \in Nat /\ granted + (G + H) + lost = verified
    BY <2>7 DEF AccountTypes, GrantsAccounted
  <2>10. granted' \in Nat /\ granted' + (Gn + H) + lost = verified
    BY <1>2, <2>1, <2>3, <2>6, <2>9
  <2>11. AccountTypes'
    BY <1>1, <2>10 DEF AccountTypes
  <2>12. GrantsAccounted'
    BY <1>1, <2>7, <2>10 DEF GrantsAccounted
  <2>13. ChangesVerified'
    BY <1>1, <2>8 DEF ChangesVerified
  <2> QED BY <2>11, <2>12, <2>13
<1>3. CASE LockOpens
  BY <1>2, <1>3 DEF LockOpens
<1>4. CASE LockIgnores
  <2>1. granted' = granted + 0
    BY <1>4 DEF LockIgnores, AccountTypes
  <2> QED BY <1>2, <1>4, <2>1 DEF LockIgnores
<1>5. CASE LockBeats
  <2>1. UNCHANGED <<queue, granted>> /\ \E out : Start("doorlock", out)
    BY <1>5 DEF LockBeats
  <2> QED BY <1>1, <2>1, StartAccounts
<1> QED BY <1>3, <1>4, <1>5 DEF LockTask

(* A restart clears the accounts. *)
LEMMA RebootAccounts ==
    ASSUME Reboot
    PROVE  AccountTypes' /\ GrantsAccounted' /\ ChangesVerified'
<1>1. /\ verified' = 0 /\ granted' = 0 /\ lost' = 0 /\ alters' = 0 /\ changes' = 0
      /\ \A q \in Queues : queue'[q] = <<>>
      /\ \A t \in Tasks : todo'[t] = <<>>
  BY DEF Reboot, NoMessages, NothingToDo
<1>2. Count(stack', Typing) = 0
  <2>1. stack' = <<"home">> /\ "home" \notin Typing /\ "home" \in {"home"}
    BY DEF Reboot, Typing
  <2> QED BY <2>1, CountFew
<1>3. GrantOnItsWay' = 0 /\ ChangeOnItsWay' = 0
  BY <1>1, <1>2, CountEmpty, OnTheirWay DEF Queues, Tasks
<1> QED BY <1>1, <1>3 DEF AccountTypes, GrantsAccounted, ChangesVerified

(* No step breaks the accounts. *)
LEMMA AccountsStep ==
    ASSUME TypeOK, TypeOK', AccountTypes, GrantsAccounted, ChangesVerified, [Next]_vars
    PROVE  AccountTypes' /\ GrantsAccounted' /\ ChangesVerified'
<1>1. CASE PressKey
  BY <1>1, PressAccounts
<1>2. CASE TouchReader \/ FgTask
  <2>1. UNCHANGED <<queue, stack, verified, granted, lost, alters, changes>>
    BY <1>2 DEF TouchReader, FgTask, FgStart, FgRetap, FgEnd, activityVars, historyVars
  <2>2. \E out : Start("fg", out)
    BY <1>2 DEF TouchReader, FgTask, FgStart, FgRetap, FgEnd
  <2> QED BY <2>1, <2>2, StartAccounts
<1>3. CASE UiTask
  BY <1>3, UiAccounts
<1>4. CASE ServiceTask
  BY <1>4, ServiceAccounts
<1>5. CASE DelayedCall
  BY <1>5, DelayedAccounts
<1>6. CASE LockTask
  BY <1>6, LockAccounts
<1>7. CASE \E t \in Tasks : Finish(t)
  BY <1>7, FinishAccounts, DrawnAccounts
<1>8. CASE Reboot
  BY <1>8, RebootAccounts
<1>9. CASE UNCHANGED vars
  <2>1. UNCHANGED <<queue, todo, stack, verified, granted, lost, alters, changes>>
    BY <1>9 DEF vars, busVars, activityVars, historyVars
  <2>2. /\ Count(queue["ui"], Granting) \in Nat
        /\ Count(todo["ui"], Sent("system", SysopMessage)) \in Nat
        /\ Count(stack, Typing) \in Nat
    BY OnTheirWayTypes DEF TypeOK
  <2> QED BY <2>1, <2>2, QuietAccounts
<1> QED BY <1>1, <1>2, <1>3, <1>4, <1>5, <1>6, <1>7, <1>8, <1>9 DEF Next

(* What holds together: the accounts rest on what is on the bus, and that  *)
(* on the stack.                                                           *)
AccountsInv ==
    /\ TypeOK /\ StackInv
    /\ AccountTypes /\ GrantsAccounted /\ ChangesVerified

(* AccountsInv holds at first and is kept by every step.                   *)
LEMMA AccountsInductive ==
    (Init => AccountsInv) /\ (AccountsInv /\ [Next]_vars => AccountsInv')
<1>1. Init => AccountsInv
  BY StackAndTypes, AccountsInitial DEF AccountsInv
<1>2. AccountsInv /\ [Next]_vars => AccountsInv'
  BY StackAndTypes, AccountsStep DEF AccountsInv
<1> QED BY <1>1, <1>2

(* The door opens once for each right password typed for it: what          *)
(* system_service verified (app.c:377) has opened the door, is on its      *)
(* way, or was lost to a full queue, and nothing else opens it.            *)
THEOREM GrantsAreAccounted == Spec => []GrantsAccounted
<1>1. AccountsInv => GrantsAccounted
  BY DEF AccountsInv
<1> QED BY <1>1, AccountsInductive, PTL DEF Spec

(* Each change of the password uses up one verification of the old one,    *)
(* although the new-password page keeps the old password and its input.    *)
THEOREM ChangesAreVerified == Spec => []ChangesVerified
<1>1. AccountsInv => ChangesVerified
  BY DEF AccountsInv
<1> QED BY <1>1, AccountsInductive, PTL DEF Spec
=============================================================================

