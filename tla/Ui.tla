--------------------------------- MODULE Ui ---------------------------------
(***************************************************************************)
(* ui_event_handler (app.c:77-334): the task that empties queue_ui and     *)
(* turns door, fingerprint, key and authentication events into activities  *)
(* on the stack and requests to system_service.  A handler reads the top of*)
(* the stack when it takes its message, and only then.                     *)
(***************************************************************************)
EXTENDS Activities, Integers

CONSTANTS
    Chars,                       \* what the keypad types, '#' apart
    MaxInput                     \* longest input kept (63)

ASSUME UiAssumption ==
    /\ "#" \notin Chars
    /\ MaxInput \in Nat

VARIABLES
    input,                       \* ipg_inpt_content of the two input pages
    authFor,                     \* avtivity_cache of psw_auth
    grant,                       \* avtivity_cache of psw_alter: a verified password
    select,                      \* vl_content_select of the two lists
    fgNext                       \* g_fg_next_state, read by the fingerprint task

uiVars == <<input, authFor, grant, select, fgNext>>

Controls == {"ENTER", "RETURN", "UP", "DOWN"}
Keys == Controls \cup Chars \cup {"#"}

(* The two lists of app_init, entry by entry. *)
Content == [manu |-> <<[act |-> "LAUNCH", arg |-> "fg_mode_set"],
                       [act |-> "AUTH", arg |-> "PASW_ALTER"],
                       [act |-> "LAUNCH", arg |-> "about"]>>,
            fg_mode_set |-> <<[act |-> "I_SET", arg |-> "SEARCH_N_SIGNIN"],
                              [act |-> "I_SET", arg |-> "ENROLL"],
                              [act |-> "I_SET", arg |-> "DEL_ALL"]>>]

NoInput == [p \in InputPages |-> <<>>]
FirstEntries == [l \in Lists |-> 1]

UiInit ==
    /\ input = NoInput
    /\ authFor = "DOOR_UNLOCK"
    /\ grant = <<>>
    /\ select = FirstEntries
    /\ fgNext = "SEARCH_N_SIGNIN"

(* invoke(delay, &activity_back, 0), to be made after the publishes. *)
InvokeBack == [op |-> "invoke"]

(* The task is free and the message before it is of this type. *)
Msg == Head(queue["ui"])

Receive(type, out) ==
    /\ up
    /\ queue["ui"] # <<>>
    /\ Msg.type = type
    /\ Take("ui", out)

KeyPressed(k, out) == Receive("key", out) /\ Msg.key = k
-----------------------------------------------------------------------------
(* Pop-ups: shown now, closed a second later by a delayed call. *)
OnReflex ==
    /\ Receive("reflex", <<Draw("popup"), InvokeBack>>)
    /\ Push("popup")
    /\ UNCHANGED uiVars

(* The door opened, is still open, locked again. *)
OnUnlock ==
    /\ Receive("lock", <<Draw("door_unlock")>>) /\ Msg.state = "UNLOCK"
    /\ Push("door_unlock")
    /\ UNCHANGED uiVars

OnUnlocked ==
    /\ Receive("lock", <<DrawTop>>) /\ Msg.state = "UNLOCKED"
    /\ Refresh
    /\ UNCHANGED uiVars

OnRelock ==
    /\ Receive("lock", <<DrawTop>>) /\ Msg.state = "RELOCK"
    /\ Pop
    /\ UNCHANGED uiVars

(* A fingerprint job starts: its page is shown. *)
OnFgStart ==
    /\ Receive("fg", <<Draw("fg_reader")>>) /\ Msg.progress = "JOB_START"
    /\ Push("fg_reader")
    /\ UNCHANGED uiVars

(* One of the eight touches of an enrolment is done. *)
OnFgProgress ==
    /\ Receive("fg", <<DrawTop>>) /\ Msg.progress = "PROGRESS_SUCC"
    /\ Refresh
    /\ UNCHANGED uiVars

(* The job ended, well or badly: the page stays a second or two.  (No job  *)
(* publishes the success of a search, which would close it at once.)       *)
OnFgEnd ==
    /\ Receive("fg", <<DrawTop, InvokeBack>>)
    /\ Msg.progress \in {"PROGRESS_FAIL", "JOB_SUCC", "JOB_FAIL"}
    /\ Refresh
    /\ UNCHANGED uiVars
-----------------------------------------------------------------------------
(* pasw_auth_activity_launch: note the purpose, show the page.  Input left *)
(* there by an earlier visit stays.                                        *)
LaunchAuth(for) ==
    /\ authFor' = for
    /\ Push("psw_auth")

RespondTo(for) == IF for = "DOOR_UNLOCK" THEN "HW_DOOR_LOCK" ELSE "SERV_UI"

(* ENTER at home opens the menu. *)
OnHomeEnter ==
    /\ KeyPressed("ENTER", <<Draw("manu")>>) /\ Top = "home"
    /\ Push("manu")
    /\ UNCHANGED uiVars

(* view_list_select_shift moves the selection and stops at the ends. *)
Shifted(l, dir) ==
    IF select[l] + dir \in DOMAIN Content[l] THEN select[l] + dir ELSE select[l]

OnListShift ==
    /\ \E dir \in {-1, 1} :
        /\ KeyPressed(IF dir = -1 THEN "UP" ELSE "DOWN", <<DrawTop>>) /\ Top \in Lists
        /\ select' = [select EXCEPT ![Top] = Shifted(Top, dir)]
    /\ Refresh
    /\ UNCHANGED <<input, authFor, grant, fgNext>>

(* ENTER does what the selected entry says. *)
OnListEnter ==
    /\ Top \in Lists
    /\ LET entry == Content[Top][select[Top]] IN
        \/ /\ KeyPressed("ENTER", <<Draw(entry.arg)>>) /\ entry.act = "LAUNCH"
           /\ Push(entry.arg)
           /\ UNCHANGED <<authFor, fgNext>>
        \/ /\ KeyPressed("ENTER", <<>>) /\ entry.act = "I_SET"
           /\ fgNext' = entry.arg
           /\ UNCHANGED <<authFor, activityVars>>
        \/ /\ KeyPressed("ENTER", <<Draw("psw_auth")>>) /\ entry.act = "AUTH"
           /\ LaunchAuth(entry.arg)
           /\ UNCHANGED fgNext
    /\ UNCHANGED <<input, grant, select>>

(* RETURN closes whatever is on top, the home activity included. *)
OnReturn ==
    /\ KeyPressed("RETURN", <<DrawTop>>) /\ Top # NULL
    /\ Pop
    /\ UNCHANGED uiVars

Appended(text, c) == IF Len(text) < MaxInput THEN Append(text, c) ELSE text

(* A character at home starts an unlock attempt with an empty input. *)
OnHomeChar ==
    /\ \E c \in Chars :
        /\ KeyPressed(c, <<Draw("psw_auth")>>) /\ Top = "home"
        /\ input' = [input EXCEPT !["psw_auth"] = Appended(<<>>, c)]
    /\ LaunchAuth("DOOR_UNLOCK")
    /\ UNCHANGED <<grant, select, fgNext>>

OnInputChar ==
    /\ \E c \in Chars :
        /\ KeyPressed(c, <<>>) /\ Top \in InputPages
        /\ input' = [input EXCEPT ![Top] = Appended(@, c)]
    /\ UNCHANGED <<activityVars, authFor, grant, select, fgNext>>

(* '#' on the password page asks system_service to verify the input. *)
OnAuthConfirm ==
    /\ KeyPressed("#", <<DrawTop, To("SERV_AUTH",
          [type |-> "auth", trusted |-> FALSE, pasw |-> input["psw_auth"],
           respond |-> RespondTo(authFor), for |-> authFor,
           validEcho |-> FALSE, wrongEcho |-> TRUE])>>)
    /\ Top = "psw_auth"
    /\ Pop
    /\ input' = [input EXCEPT !["psw_auth"] = <<>>]
    /\ UNCHANGED <<authFor, grant, select, fgNext>>

(* Mutant: the page stays after the request. *)
OnAlterConfirmStays ==
    /\ KeyPressed("#", <<To("SERV_SYSOP",
          [type |-> "sysop", grant |-> grant, new |-> input["psw_alter"]])>>)
    /\ Top = "psw_alter"
    /\ input' = [input EXCEPT !["psw_auth"] = <<>>]
    /\ UNCHANGED <<activityVars, authFor, grant, select, fgNext>>

(* '#' on the new-password page asks for the change, on the strength of the*)
(* password verified before.  The input cleared is that of psw_auth.       *)
OnAlterConfirm ==
    /\ KeyPressed("#", <<DrawTop, To("SERV_SYSOP",
          [type |-> "sysop", grant |-> grant, new |-> input["psw_alter"]])>>)
    /\ Top = "psw_alter"
    /\ input' = [input EXCEPT !["psw_auth"] = <<>>]
    /\ Pop
    /\ UNCHANGED <<authFor, grant, select, fgNext>>

(* Every other key at every other activity does nothing. *)
OnUnusedKey ==
    /\ \E k \in Keys :
        /\ KeyPressed(k, <<>>)
        /\ \/ k = "ENTER" /\ Top \notin Lists \cup {"home", NULL}
           \/ k \in {"UP", "DOWN"} /\ Top \notin Lists \cup {NULL}
           \/ k \in Chars /\ Top \notin InputPages \cup {"home", NULL}
           \/ k = "#" /\ Top \notin InputPages
    /\ UNCHANGED <<activityVars, uiVars>>

(* While system_service closes the last activity the stack is empty, and   *)
(* any key but '#' asks NULL for its view_type.                            *)
OnKeyAtNull ==
    /\ \E k \in Keys \ {"#"} : KeyPressed(k, <<>>)
    /\ Top = NULL
    /\ up' = FALSE
    /\ UNCHANGED <<stack, screen, overlap, uiVars>>
-----------------------------------------------------------------------------
(* The old password was right: remember it and ask for the new one. *)
OnAlterGranted ==
    /\ Receive("result", <<Draw("psw_alter")>>) /\ Msg.for = "PASW_ALTER" /\ Msg.valid
    /\ grant' = Msg.pasw
    /\ Push("psw_alter")
    /\ UNCHANGED <<input, authFor, select, fgNext>>

(* Any other authentication result changes nothing. *)
OnOtherResult ==
    /\ Receive("result", <<>>) /\ ~(Msg.for = "PASW_ALTER" /\ Msg.valid)
    /\ UNCHANGED <<activityVars, uiVars>>

UiHandle ==
    \/ OnReflex \/ OnUnlock \/ OnUnlocked \/ OnRelock
    \/ OnFgStart \/ OnFgProgress \/ OnFgEnd
    \/ OnHomeEnter \/ OnListShift \/ OnListEnter \/ OnReturn
    \/ OnHomeChar \/ OnInputChar \/ OnAuthConfirm \/ OnAlterConfirm
    \/ OnUnusedKey \/ OnKeyAtNull \/ OnAlterGranted \/ OnOtherResult
=============================================================================
