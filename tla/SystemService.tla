--------------------------- MODULE SystemService ---------------------------
(***************************************************************************)
(* system_service (app.c:347-463): the task that empties queue_system.  It *)
(* verifies passwords, changes the stored one, and in between runs the     *)
(* delayed calls.  Module Invoke has the delayed calls in detail; what it  *)
(* promises of them (module Deferred) is all that is used here: an accepted*)
(* activity_back runs later, at most once, or never.                       *)
(***************************************************************************)
EXTENDS Activities

CONSTANTS
    Default,                     \* the password of a new device, "0000"
    Slots                        \* INVOKE_SLOT_SIZE (16)

ASSUME ServiceAssumption == Slots \in Nat

VARIABLES
    stored,                      \* doorlock_pasw in flash; empty reads as NULL
    pending                      \* delayed calls of activity_back not yet run

serviceVars == <<stored, pending>>

ServiceInit ==
    /\ stored = Default
    /\ pending = 0

Request == Head(queue["system"])

Serve(type, out) ==
    /\ up
    /\ queue["system"] # <<>>
    /\ Request.type = type
    /\ Take("system", out)

PopUp(prefab) == To("SERV_UI", [type |-> "reflex", pop |-> prefab])

Result(valid, pasw, for) ==
    [type |-> "result", valid |-> valid, pasw |-> pasw, for |-> for]

(* An authentication by other hardware (the fingerprint reader): the lock  *)
(* gets a doorlock_event_t where it expects an auth_result_t.              *)
OnTrustedAuth ==
    /\ Serve("auth", <<To("SERV_UI", Result(TRUE, <<>>, "DOOR_UNLOCK")),
                       To("HW_DOOR_LOCK", [type |-> "lock", state |-> "UNLOCK"])>>)
    /\ Request.trusted
    /\ UNCHANGED <<activityVars, serviceVars>>

(* Pop-ups asked for, then the result to whoever is to act on it. *)
Verdict(request) ==
    LET valid == request.pasw = stored
        echo  == IF valid THEN request.validEcho ELSE request.wrongEcho
        shown == IF echo THEN <<PopUp(IF valid THEN "PASW_VALID" ELSE "PASW_WRONG")>>
                         ELSE <<>>
    IN  Append(shown, To(request.respond, Result(valid, request.pasw, request.for)))

OnAuth ==
    /\ Serve("auth", Verdict(Request))
    /\ ~Request.trusted
    /\ stored # <<>>
    /\ UNCHANGED <<activityVars, serviceVars>>

(* The password given when the change was asked for is compared again; the *)
(* write to flash may fail.                                                *)
OnSysop ==
    /\ stored # <<>>
    /\ \/ /\ Serve("sysop", <<PopUp("ALTER_SUCCS")>>)
          /\ Request.grant = stored
          /\ stored' = Request.new
       \/ /\ Serve("sysop", <<PopUp("ALTER_FAIL")>>)
          /\ Request.grant = stored
          /\ UNCHANGED stored
       \/ /\ Serve("sysop", <<PopUp("PASW_WRONG")>>)
          /\ Request.grant # stored
          /\ UNCHANGED stored
    /\ UNCHANGED <<activityVars, pending>>

(* An empty password reads as NULL, and strcmp dereferences it. *)
CompareWithNull ==
    /\ \/ Serve("auth", <<>>) /\ ~Request.trusted
       \/ Serve("sysop", <<>>)
    /\ stored = <<>>
    /\ up' = FALSE
    /\ UNCHANGED <<stack, screen, overlap, serviceVars>>

(* The message invoke() sends only to wake the task. *)
OnDummy ==
    /\ Serve("dummy", <<>>)
    /\ UNCHANGED <<activityVars, serviceVars>>

ServiceHandle ==
    \/ OnTrustedAuth \/ OnAuth \/ OnSysop \/ CompareWithNull \/ OnDummy

(* The time-out of the receive: a delayed activity_back is run. *)
RunBack ==
    /\ up
    /\ pending > 0
    /\ pending' = pending - 1
    /\ Start("system", <<DrawTop>>)
    /\ Pop
    /\ UNCHANGED <<queue, stored>>

-----------------------------------------------------------------------------
(* The other side of invoke(), run by the task that calls it. *)
Invoking(t) == up /\ ~Idle(t) /\ Head(todo[t]).op = "invoke"

InvokeAccepted(t) ==
    /\ Invoking(t)
    /\ pending < Slots
    /\ pending' = pending + 1
    /\ todo' = [todo EXCEPT ![t] = Tail(@)]
    /\ \/ ~Full("system") /\ queue' = [queue EXCEPT !["system"] = Append(@, [type |-> "dummy"])]
       \/ UNCHANGED queue        \* no earlier wake-up needed, or the queue is full
    /\ UNCHANGED <<activityVars, stored>>

(* The mutex is not to be had, or no slot is free. *)
InvokeRefused(t) ==
    /\ Invoking(t)
    /\ todo' = [todo EXCEPT ![t] = Tail(@)]
    /\ UNCHANGED <<queue, activityVars, serviceVars>>
=============================================================================
