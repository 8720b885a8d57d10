------------------------------ MODULE DoorLock ------------------------------
(***************************************************************************)
(* door_lock_task (main.c:32-86): one task that blocks on queue_doorlock,  *)
(* opens the lock on a valid authentication result, and uses the timeout   *)
(* of that same receive as a one-second heart beat while the lock is open. *)
(*                                                                         *)
(* The task runs as soon as it may: time passes only while it is blocked,  *)
(* in the receive or in the publish to a full display queue.               *)
(***************************************************************************)
EXTENDS Integers, Sequences

CONSTANTS
    RelockSecs,              \* seconds the lock stays open (10)
    SecTicks,                \* ticks of the heart beat, pdMS_TO_TICKS(1000)
    SendTicks,               \* longest block of a publish, pdMS_TO_TICKS(100)
    InboxCap,                \* slots of queue_doorlock (6)
    MaxMsgs                  \* bound on the messages other tasks send

ASSUME DoorLockAssumption ==
    /\ RelockSecs \in Nat \ {0}
    /\ SecTicks \in Nat \ {0}
    /\ SendTicks \in Nat
    /\ InboxCap \in Nat \ {0}
    /\ MaxMsgs \in Nat

(* A message is known to this task by its first byte only.  It is          *)
(* pasw_valid in an auth_result_t, and lock_status, always DOOR_UNLOCK = 2,*)
(* in the doorlock_event_t the trusted fingerprint path sends instead.     *)
WRONG == 0
VALID == 1
DOOR_UNLOCK == 2
FrontByte == {WRONG, VALID, DOOR_UNLOCK}

VARIABLES
    inbox,                   \* queue_doorlock
    pc,                      \* "recv": blocked in the receive; "send": in event_publish
    event,                   \* what is being published to the display
    cnt,                     \* countdown_cnt
    beat,                    \* heart_beat_freq is one second, not portMAX_DELAY
    green, red,              \* the two leds (the lock itself)
    waited,                  \* ticks spent in the blocking call the task is in
    since,                   \* history: ticks since the last valid result
    ignored,                 \* history: messages ignored since then
    sent                     \* history: messages sent to the task

vars == <<inbox, pc, event, cnt, beat, green, red, waited, since, ignored, sent>>

Events == {"NONE", "UNLOCK", "UNLOCKED", "RELOCK"}

Init ==
    /\ inbox = <<>>
    /\ pc = "recv"
    /\ event = "NONE"
    /\ cnt = 0
    /\ beat = FALSE
    /\ green = FALSE
    /\ red = TRUE
    /\ waited = 0
    /\ since = 0
    /\ ignored = 0
    /\ sent = 0

(* Mutant: a queue without a limit. *)
DeliverUnbounded(byte) ==
    /\ sent < MaxMsgs
    /\ inbox' = Append(inbox, byte)
    /\ sent' = sent + 1
    /\ UNCHANGED <<pc, event, cnt, beat, green, red, waited, since, ignored>>

(* Another task's event_publish puts a message into queue_doorlock. *)
Deliver(byte) ==
    /\ sent < MaxMsgs
    /\ Len(inbox) < InboxCap
    /\ inbox' = Append(inbox, byte)
    /\ sent' = sent + 1
    /\ UNCHANGED <<pc, event, cnt, beat, green, red, waited, since, ignored>>

(* The receive returns a valid result: the leds change at once, the        *)
(* countdown and the heart beat only after the publish (AfterSend).        *)
ReceiveValid ==
    /\ pc = "recv"
    /\ inbox # <<>>
    /\ Head(inbox) = VALID
    /\ inbox' = Tail(inbox)
    /\ green' = TRUE
    /\ red' = FALSE
    /\ event' = "UNLOCK"
    /\ pc' = "send"
    /\ waited' = 0
    /\ since' = 0
    /\ ignored' = 0
    /\ UNCHANGED <<cnt, beat, sent>>

(* Mutant: a message that is not a valid result restarts the countdown. *)
ReceiveOtherRestarts ==
    /\ pc = "recv"
    /\ inbox # <<>>
    /\ Head(inbox) # VALID
    /\ inbox' = Tail(inbox)
    /\ waited' = 0
    /\ ignored' = IF green THEN ignored + 1 ELSE ignored
    /\ cnt' = IF green THEN RelockSecs ELSE cnt
    /\ UNCHANGED <<pc, event, beat, green, red, since, sent>>

(* Any other message is dropped, and the next receive waits a whole beat. *)
ReceiveOther ==
    /\ pc = "recv"
    /\ inbox # <<>>
    /\ Head(inbox) # VALID
    /\ inbox' = Tail(inbox)
    /\ waited' = 0
    /\ ignored' = IF green THEN ignored + 1 ELSE ignored
    /\ UNCHANGED <<pc, event, cnt, beat, green, red, since, sent>>

(* Mutant: a beat one tick short. *)
BeatExpiredShort ==
    /\ pc = "recv"
    /\ inbox = <<>>
    /\ beat
    /\ waited >= SecTicks - 1

(* The receive times out. *)
BeatExpired ==
    /\ pc = "recv"
    /\ inbox = <<>>
    /\ beat
    /\ waited = SecTicks

(* ... with seconds left: publish them. *)
HeartBeat ==
    /\ BeatExpired
    /\ cnt - 1 # 0
    /\ cnt' = cnt - 1
    /\ event' = "UNLOCKED"
    /\ pc' = "send"
    /\ waited' = 0
    /\ UNCHANGED <<inbox, beat, green, red, since, ignored, sent>>

(* Mutant: the lock closes with one second left. *)
LastBeatEarly ==
    /\ BeatExpired
    /\ cnt - 1 <= 1
    /\ cnt' = 0
    /\ green' = FALSE
    /\ red' = TRUE
    /\ event' = "RELOCK"
    /\ pc' = "send"
    /\ waited' = 0
    /\ UNCHANGED <<inbox, beat, since, ignored, sent>>

(* ... with none left: lock, then publish. *)
LastBeat ==
    /\ BeatExpired
    /\ cnt - 1 = 0
    /\ cnt' = 0
    /\ green' = FALSE
    /\ red' = TRUE
    /\ event' = "RELOCK"
    /\ pc' = "send"
    /\ waited' = 0
    /\ UNCHANGED <<inbox, beat, since, ignored, sent>>

(* Mutants: the heart beat goes on after the last one; it is never begun. *)
AfterSendBeatsOn ==
    /\ pc = "send"
    /\ pc' = "recv"
    /\ event' = "NONE"
    /\ waited' = 0
    /\ cnt' = IF event = "UNLOCK" THEN RelockSecs ELSE cnt
    /\ beat' = (beat \/ event = "UNLOCK")
    /\ UNCHANGED <<inbox, green, red, since, ignored, sent>>

AfterSendNoBeat ==
    /\ pc = "send"
    /\ pc' = "recv"
    /\ event' = "NONE"
    /\ waited' = 0
    /\ cnt' = IF event = "UNLOCK" THEN RelockSecs ELSE cnt
    /\ UNCHANGED <<inbox, beat, green, red, since, ignored, sent>>

(* event_publish returns (delivered, or given up after 100 ms: the task    *)
(* does not look), and the assignments that follow it are made.            *)
AfterSend ==
    /\ pc = "send"
    /\ pc' = "recv"
    /\ event' = "NONE"
    /\ waited' = 0
    /\ cnt' = IF event = "UNLOCK" THEN RelockSecs ELSE cnt
    /\ beat' = CASE event = "UNLOCK" -> TRUE
                 [] event = "RELOCK" -> FALSE
                 [] OTHER -> beat
    /\ UNCHANGED <<inbox, green, red, since, ignored, sent>>

(* A tick passes while the task is blocked with a time limit. *)
Tick ==
    /\ \/ pc = "recv" /\ inbox = <<>> /\ beat /\ waited < SecTicks
       \/ pc = "send" /\ waited < SendTicks
    /\ waited' = waited + 1
    /\ since' = IF green THEN since + 1 ELSE since
    /\ UNCHANGED <<inbox, pc, event, cnt, beat, green, red, ignored, sent>>

Task == ReceiveValid \/ ReceiveOther \/ HeartBeat \/ LastBeat \/ AfterSend

Next == Task \/ Tick \/ \E byte \in FrontByte : Deliver(byte)

Spec == Init /\ [][Next]_vars

(* The scheduler runs a ready task and the tick interrupt does not stop;   *)
(* nobody has to send a message.                                           *)
FairSpec == Spec /\ WF_vars(Task) /\ WF_vars(Tick)
-----------------------------------------------------------------------------
TypeOK ==
    /\ inbox \in Seq(FrontByte) /\ Len(inbox) <= InboxCap
    /\ pc \in {"recv", "send"}
    /\ event \in Events
    /\ cnt \in 0..RelockSecs
    /\ beat \in BOOLEAN /\ green \in BOOLEAN /\ red \in BOOLEAN
    /\ waited \in Nat
    /\ since \in Nat
    /\ ignored \in Nat
    /\ sent \in 0..MaxMsgs

(* The open lock is always being counted down.  While the task waits, the  *)
(* green led, the heart beat and a non-zero countdown say the same thing,  *)
(* although main.c sets them before and after a publish that may block: a  *)
(* heart beat left off after the publish would leave the door open.        *)
OpenIsCounted ==
    /\ red <=> ~green
    /\ pc = "recv" => /\ green <=> beat
                      /\ green <=> cnt > 0
    /\ pc = "send" /\ event = "RELOCK" => ~green
    /\ pc = "send" /\ event # "RELOCK" => green

(* The door never relocks early: the led that goes back to red does so at  *)
(* least RelockSecs full seconds after the last valid result.              *)
NeverEarly == [][green /\ ~green' => since >= RelockSecs * SecTicks]_vars

(* How late it may relock.  main.c:53 says "10sec to relock", but every    *)
(* beat may lose the 100 ms of a publish to a full display queue, and every*)
(* ignored message (a wrong password tried at the open door) restarts the  *)
(* beat that was under way, which costs up to a second each.               *)
LatestRelock ==
    RelockSecs * (SecTicks + SendTicks) + SendTicks + ignored * SecTicks

NeverLaterThanIgnored == green => since <= LatestRelock

(* An open door locks again once the others stop sending. *)
EventuallyRelocks == green ~> ~green

(* The abstract lock: it opens, counts and locks as LockPromise says.  The *)
(* countdown shows as restarted from the moment the leds change.           *)
Promise == INSTANCE LockPromise WITH
    open <- green,
    left <- IF event = "UNLOCK" THEN RelockSecs ELSE cnt

KeepsPromise == Promise!LockSpec

(* app.c:369 sends what it calls "unlock door directly" for a recognised   *)
(* fingerprint.  Its first byte is DOOR_UNLOCK = 2 where main.c:46 wants 1,*)
(* so the message is thrown away.                                          *)
FingerprintOpens ==
    (pc = "recv" /\ inbox # <<>> /\ inbox[1] = DOOR_UNLOCK) ~> green
=============================================================================
