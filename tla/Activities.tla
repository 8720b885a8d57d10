----------------------------- MODULE Activities -----------------------------
(***************************************************************************)
(* The activity stack (activity.c) and what is on the screen.  Activities  *)
(* are run by the UI task and closed by the UI task and, through delayed   *)
(* calls, by system_service, on two cores and without a lock.              *)
(*                                                                         *)
(* An operation changes the stack and then prints.  The first half is a    *)
(* step of the task that begins it (Push, Pop); what is left of it comes   *)
(* before anything else the task has in todo, and another task's operation *)
(* can come in between.                                                    *)
(***************************************************************************)
EXTENDS Bus

CONSTANT StackMax                \* ACTIVITY_STACK_DEPTH_MAX (24)

ASSUME ActivitiesAssumption == StackMax \in Nat \ {0}

VARIABLES
    stack,                       \* activity_stack, bottom first
    screen,                      \* the activity printed last
    up,                          \* no task has dereferenced NULL
    overlap                      \* history of this boot: "none", "past" or "last", as
                                 \*   no operation, an earlier or the last one met another's

activityVars == <<stack, screen, up, overlap>>

Lists == {"manu", "fg_mode_set"}
InputPages == {"psw_auth", "psw_alter"}
Activity == Lists \cup InputPages
              \cup {"home", "fg_reader", "door_unlock", "popup", "about"}

NULL == "NULL"
Top == IF stack = <<>> THEN NULL ELSE stack[Len(stack)]     \* activity_stack_peek()

(* app_init runs the home activity last. *)
ActivitiesInit ==
    /\ stack = <<"home">>
    /\ screen = "home"
    /\ up = TRUE
    /\ overlap = "none"

(* What is left of an operation: to print an activity, or to look for the  *)
(* top of the stack and print that.                                        *)
Draw(a) == [op |-> "print", act |-> a]
DrawTop == [op |-> "peek"]

(* The task is in the middle of an operation. *)
Drawing(t) == ~Idle(t) /\ Head(todo[t]).op \in {"print", "peek"}

(* An operation begins; only the history has to know. *)
Begins ==
    overlap' = CASE \E t \in Tasks : Drawing(t) -> "last"
                 [] OTHER -> IF overlap = "none" THEN "none" ELSE "past"

(* activity_run(a) is Push(a), which a full stack refuses, and then, all   *)
(* the same, Draw(a).                                                      *)
Pushed(a) == IF Len(stack) < StackMax THEN Append(stack, a) ELSE stack
Push(a) ==
    /\ Begins
    /\ stack' = Pushed(a)
    /\ UNCHANGED <<screen, up>>

(* activity_back() is Pop and then DrawTop.  The name of what was popped   *)
(* is logged, and a NULL dereferenced if there was nothing.                *)
Popped == SubSeq(stack, 1, Len(stack) - 1)      \* activity_stack_pop()
Pop ==
    /\ Begins
    /\ stack' = Popped
    /\ up' = (stack # <<>>)
    /\ UNCHANGED screen

(* activity_screen_refresh() is DrawTop alone. *)
Refresh ==
    /\ Begins
    /\ UNCHANGED <<stack, screen, up>>
-----------------------------------------------------------------------------
(* Mutant: the page below is not printed again. *)
PeekUndrawn(t) ==
    /\ Drawing(t) /\ Head(todo[t]) = DrawTop
    /\ todo' = [todo EXCEPT ![t] = Tail(@)]
    /\ UNCHANGED <<queue, activityVars>>

(* The top is read, to be printed next: NULL when the last activity was    *)
(* closed, and the chip panics.                                            *)
Peek(t) ==
    /\ Drawing(t) /\ Head(todo[t]) = DrawTop
    /\ IF Top = NULL
       THEN up' = FALSE /\ UNCHANGED todo
       ELSE todo' = [todo EXCEPT ![t] = <<Draw(Top)>> \o Tail(@)] /\ UNCHANGED up
    /\ UNCHANGED <<queue, stack, screen, overlap>>

Drawn(t) ==
    /\ Drawing(t) /\ Head(todo[t]) # DrawTop
    /\ screen' = Head(todo[t]).act
    /\ todo' = [todo EXCEPT ![t] = Tail(@)]
    /\ UNCHANGED <<queue, stack, up, overlap>>
=============================================================================
