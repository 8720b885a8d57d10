----------------------------- MODULE DoorSystem -----------------------------
(***************************************************************************)
(* The door lock as a whole: the tasks of app_main (main.c:137-140), with  *)
(* the three queues between them, the key presses and touches of the people*)
(* at the door, and the restart of the chip after a panic or a power cut,  *)
(* which only the password in flash survives.                              *)
(*                                                                         *)
(* The lock is LockPromise, which DoorLock implements; time is left out, so*)
(* a beat comes whenever the lock's queue is empty and a full queue may    *)
(* lose any message.                                                       *)
(***************************************************************************)
EXTENDS Ui, SystemService, Fingerprint, Counting

CONSTANTS
    RelockSecs,                  \* seconds the lock stays open (10)
    Presses,                     \* bound on the keys pressed: the choice at each press
    MaxBoots                     \* bound on restarts

ASSUME DoorSystemAssumption ==
    /\ Default \in Seq(Chars) \ {<<>>}
    /\ Presses \in Seq(SUBSET Keys)
    /\ RelockSecs \in Nat \ {0}

VARIABLES
    open, left,                  \* the lock and its countdown
    keys, boots,                 \* history: keys pressed, restarts
    verified, granted, lost,     \* history of this boot: right passwords given to
                                 \*   open the door, times it opened, grants lost
    alters, changes              \* history of this boot: right passwords given to
                                 \*   change it, changes made

lockVars == <<open, left>>
historyVars == <<keys, boots, verified, granted, lost, alters, changes>>
vars == <<busVars, activityVars, uiVars, serviceVars, fgVars, lockVars, historyVars>>

Lock == INSTANCE LockPromise

Init ==
    /\ BusInit /\ ActivitiesInit /\ UiInit /\ ServiceInit /\ FgInit
    /\ Lock!LockInit
    /\ keys = 0 /\ boots = 0
    /\ verified = 0 /\ granted = 0 /\ lost = 0 /\ alters = 0 /\ changes = 0
-----------------------------------------------------------------------------
(* What is published: the messages of each type. *)
Purpose == {"DOOR_UNLOCK", "PASW_ALTER"}

KeyMessage == [type : {"key"}, key : Keys]
LockMessage == [type : {"lock"}, state : {"UNLOCK", "UNLOCKED", "RELOCK"}]
FgMessage == [type : {"fg"}, progress : {"JOB_START", "PROGRESS_SUCC", "PROGRESS_FAIL",
                                         "JOB_SUCC", "JOB_FAIL"}]
ReflexMessage == [type : {"reflex"}, pop : {"PASW_VALID", "PASW_WRONG", "ALTER_SUCCS", "ALTER_FAIL"}]
ResultMessage == [type : {"result"}, valid : BOOLEAN, pasw : Seq(Chars), for : Purpose]
AuthMessage ==
    {msg \in [type : {"auth"}, trusted : BOOLEAN, pasw : Seq(Chars),
              respond : {"HW_DOOR_LOCK", "SERV_UI"}, for : Purpose,
              validEcho : BOOLEAN, wrongEcho : BOOLEAN] : msg.respond = RespondTo(msg.for)}
SysopMessage == [type : {"sysop"}, grant : Seq(Chars), new : Seq(Chars)]
DummyMessage == [type : {"dummy"}]

(* Publishes of these messages to this queue. *)
Sent(q, msgs) == [op : {"publish"}, to : {q}, msg : msgs]
-----------------------------------------------------------------------------
(* The keypad task and the button interrupts publish a key; the queue full,*)
(* the key is lost.                                                        *)
PressKey ==
    /\ up
    /\ keys < Len(Presses)
    /\ keys' = keys + 1
    /\ \E k \in Presses[keys + 1] :
          queue' = IF Full("ui") THEN queue
                   ELSE [queue EXCEPT !["ui"] = Append(@, [type |-> "key", key |-> k])]
    /\ UNCHANGED <<todo, activityVars, uiVars, serviceVars, fgVars, lockVars, boots,
                   verified, granted, lost, alters, changes>>

UiTask ==
    /\ UiHandle
    /\ UNCHANGED <<serviceVars, fgVars, lockVars, historyVars>>

(* The service answers a request; the history notes the right passwords. *)
Right(for) ==
    /\ Request.type = "auth" /\ ~Request.trusted
    /\ Request.for = for
    /\ Request.pasw = stored /\ stored # <<>>

ServiceTask ==
    /\ ServiceHandle
    /\ verified' = IF Right("DOOR_UNLOCK") THEN verified + 1 ELSE verified
    /\ alters' = IF Right("PASW_ALTER") THEN alters + 1 ELSE alters
    /\ changes' = IF todo'["system"] = <<PopUp("ALTER_SUCCS")>> THEN changes + 1 ELSE changes
    /\ UNCHANGED <<uiVars, fgVars, lockVars, keys, boots, granted, lost>>

DelayedCall ==
    /\ RunBack
    /\ UNCHANGED <<uiVars, fgVars, lockVars, historyVars>>

TouchReader ==
    /\ up
    /\ FgStart(fgNext)
    /\ UNCHANGED <<activityVars, uiVars, serviceVars, lockVars, historyVars>>

FgTask ==
    /\ up
    /\ FgRetap \/ FgEnd
    /\ UNCHANGED <<activityVars, uiVars, serviceVars, lockVars, historyVars>>

(* Mutant: any byte other than 0 counts as valid. *)
FrontByteTruth(msg) == IF msg.type = "lock" \/ msg.valid THEN 1 ELSE 0

(* door_lock_task looks at the first byte of its message and nothing else: *)
(* pasw_valid of a result, DOOR_UNLOCK = 2 in a lock event.                *)
FrontByte(msg) ==
    CASE msg.type = "lock" -> 2
      [] msg.type = "result" /\ msg.valid -> 1
      [] OTHER -> 0

(* The messages that open the door. *)
Grants == {msg \in LockMessage \cup ResultMessage : FrontByte(msg) = 1}

Shown(state) == <<To("SERV_UI", [type |-> "lock", state |-> state])>>

LockOpens ==
    /\ Take("doorlock", Shown("UNLOCK"))
    /\ FrontByte(Head(queue["doorlock"])) = 1
    /\ Lock!Grant
    /\ granted' = granted + 1

LockIgnores ==
    /\ Take("doorlock", <<>>)
    /\ FrontByte(Head(queue["doorlock"])) # 1
    /\ UNCHANGED <<lockVars, granted>>

(* The receive times out. *)
LockBeats ==
    /\ queue["doorlock"] = <<>>
    /\ \/ Lock!CountDown /\ Start("doorlock", Shown("UNLOCKED"))
       \/ Lock!Relock /\ Start("doorlock", Shown("RELOCK"))
    /\ UNCHANGED <<queue, granted>>

LockTask ==
    /\ up
    /\ LockOpens \/ LockIgnores \/ LockBeats
    /\ UNCHANGED <<activityVars, uiVars, serviceVars, fgVars, keys, boots, verified,
                   lost, alters, changes>>

(* What a task still has to print, to publish or to delay. *)
Finish(t) ==
    /\ up
    /\ \/ Peek(t) /\ UNCHANGED <<serviceVars, lost>>
       \/ Drawn(t) /\ UNCHANGED <<serviceVars, lost>>
       \/ PublishSent(t) /\ UNCHANGED <<activityVars, serviceVars, lost>>
       \/ /\ PublishLost(t)
          /\ lost' = IF Head(todo[t]) \in Sent("doorlock", Grants) THEN lost + 1 ELSE lost
          /\ UNCHANGED <<activityVars, serviceVars>>
       \/ InvokeAccepted(t) /\ UNCHANGED lost
       \/ InvokeRefused(t) /\ UNCHANGED lost
    /\ UNCHANGED <<uiVars, fgVars, lockVars, keys, boots, verified, granted, alters, changes>>

(* A panic restarts the chip, and power can be cut at any time.  app_main  *)
(* writes the default password if it reads none, and the write may fail.   *)
Reboot ==
    /\ boots < MaxBoots
    /\ boots' = boots + 1
    /\ queue' = NoMessages /\ todo' = NothingToDo
    /\ stack' = <<"home">> /\ screen' = "home" /\ up' = TRUE /\ overlap' = "none"
    /\ input' = NoInput /\ authFor' = "DOOR_UNLOCK" /\ grant' = <<>>
    /\ select' = FirstEntries /\ fgNext' = "SEARCH_N_SIGNIN"
    /\ pending' = 0 /\ job' = "NONE" /\ retaps' = 0
    /\ open' = FALSE /\ left' = 0
    /\ stored' \in IF stored = <<>> THEN {Default, <<>>} ELSE {stored}
    /\ verified' = 0 /\ granted' = 0 /\ lost' = 0 /\ alters' = 0 /\ changes' = 0
    /\ UNCHANGED <<keys, touches>>

Next ==
    \/ PressKey \/ TouchReader
    \/ UiTask \/ ServiceTask \/ DelayedCall \/ FgTask \/ LockTask
    \/ \E t \in Tasks : Finish(t)
    \/ Reboot

Spec == Init /\ [][Next]_vars

(* Every task runs when it can and beats arrive; nobody has to press a key,*)
(* touch the reader or cut the power, and a delayed call may never run.    *)
FairSpec ==
    /\ Spec
    /\ WF_vars(UiTask) /\ WF_vars(ServiceTask)
    /\ WF_vars(FgTask) /\ WF_vars(LockTask)
    /\ \A t \in Tasks : WF_vars(Finish(t))
-----------------------------------------------------------------------------
(* What a queue carries, and what a task prints, publishes or delays: each *)
(* message goes where somebody knows what to do with it.                   *)
Carried ==
    [ui |-> KeyMessage \cup LockMessage \cup FgMessage \cup ReflexMessage \cup ResultMessage,
     system |-> AuthMessage \cup SysopMessage \cup DummyMessage,
     doorlock |-> LockMessage \cup ResultMessage]
Drawings == {DrawTop} \cup [op : {"print"}, act : Activity]
Duties ==
    [ui |-> {InvokeBack} \cup Drawings \cup Sent("system", AuthMessage \cup SysopMessage),
     system |-> Drawings \cup Sent("ui", ReflexMessage \cup ResultMessage)
                  \cup Sent("doorlock", LockMessage \cup ResultMessage),
     doorlock |-> Sent("ui", LockMessage),
     fg |-> Sent("ui", FgMessage) \cup Sent("system", AuthMessage)]

BusOK ==
    /\ DOMAIN queue = Queues /\ DOMAIN todo = Tasks
    /\ \A q \in Queues : queue[q] \in Seq(Carried[q]) /\ Len(queue[q]) <= Cap[q]
    /\ \A t \in Tasks : todo[t] \in Seq(Duties[t])

ActivitiesOK ==
    /\ stack \in Seq(Activity) /\ Len(stack) <= StackMax
    /\ screen \in Activity /\ up \in BOOLEAN /\ overlap \in {"none", "past", "last"}

UiOK ==
    /\ input \in [InputPages -> Seq(Chars)] /\ \A p \in InputPages : Len(input[p]) <= MaxInput
    /\ authFor \in Purpose /\ grant \in Seq(Chars)
    /\ select \in [Lists -> 1..3] /\ fgNext \in Jobs

TypeOK ==
    /\ BusOK /\ ActivitiesOK /\ UiOK
    /\ stored \in Seq(Chars) /\ pending \in 0..Slots
    /\ job \in Jobs \cup {"NONE"}
    /\ open \in BOOLEAN /\ left \in 0..RelockSecs
    /\ keys \in 0..Len(Presses)

(* Every opening of the door uses up one right password typed for it, and  *)
(* none disappears without trace: what was verified (app.c:377) has opened *)
(* the door, is on its way, or was lost to a full queue.  A recognised     *)
(* finger, a wrong password, a password typed for another purpose or a     *)
(* message handled twice would break the sum.                              *)
GrantOnItsWay ==
    Count(queue["doorlock"], Grants) + Count(todo["system"], Sent("doorlock", Grants))

GrantsAccounted == granted + GrantOnItsWay + lost = verified

(* No password change without its own verification of the old one: changes *)
(* made, requested, being typed in or just granted are never more than the *)
(* right old passwords given for a change in this boot, although the new   *)
(* page keeps the old password (avtivity_cache) and its input after use.   *)
Granting == {msg \in ResultMessage : msg.valid /\ msg.for = "PASW_ALTER"}
ChangeOnItsWay ==
    Count(queue["ui"], Granting) + Count(todo["system"], Sent("ui", Granting))
      + Count(queue["system"], SysopMessage) + Count(todo["ui"], Sent("system", SysopMessage))
      + Count(stack, {"psw_alter"})

ChangesVerified == changes + ChangeOnItsWay <= alters

(* Nothing guards the stack and the screen against the UI task and         *)
(* system_service working on them at once (activity.c:70-88).  What there  *)
(* is all the same: home stays at the bottom as long as no two operations  *)
(* met, and is nowhere else even then; and people see the activity their   *)
(* keys go to once the task that last worked on the stack had it to itself,*)
(* whatever happened before, unless the stack was full when an activity was*)
(* run (activity.c:19, 73-74).                                             *)
HomeAtBottom ==
    \A i \in 1..Len(stack) : /\ stack[i] = "home" => i = 1
                             /\ overlap = "none" /\ i = 1 => stack[i] = "home"

ShowsTop == stack # <<>> /\ (screen = Top \/ Len(stack) = StackMax)

StackSound ==
    up => /\ HomeAtBottom
          /\ overlap = "last" \/ (\E t \in Tasks : Drawing(t)) \/ ShowsTop

(* When people stop, the system comes to rest with the door locked: the    *)
(* tasks never wait for each other for ever, although the UI task and      *)
(* system_service each block on the other's full queue.                    *)
AtRest ==
    /\ \A q \in Queues : queue[q] = <<>>
    /\ \A t \in Tasks : Idle(t)
    /\ job = "NONE"
    /\ ~open

ComesToRest == <>[](up => AtRest)

(* main.c:112 "write defualt password if not exist": a restart keeps a     *)
(* password that was set.  An empty one reads as missing, and the default  *)
(* is back.                                                                *)
PasswordSurvivesReboot == [][Reboot => stored' = stored]_vars
=============================================================================
