-------------------------------- MODULE Bus --------------------------------
(***************************************************************************)
(* The event bus (app.c:33-37, 60-74): three bounded FreeRTOS queues, each *)
(* emptied by one task, and event_publish, by which any task puts a message*)
(* in one of them.                                                         *)
(*                                                                         *)
(* A handler takes its message, changes its own state and publishes, in    *)
(* that order.  What it still has to do is in todo: one publish is one     *)
(* step, so that messages of different tasks interleave, and a task takes  *)
(* no new message before it has published everything.  What else a task    *)
(* does bit by bit (printing a page, a delayed call) waits there too.      *)
(***************************************************************************)
EXTENDS Naturals, Sequences

CONSTANTS UiCap, SystemCap, DoorLockCap      \* 24, 6, 6 (app.c:35-37)

ASSUME BusAssumption ==
    /\ UiCap \in Nat \ {0}
    /\ SystemCap \in Nat \ {0}
    /\ DoorLockCap \in Nat \ {0}

VARIABLES
    queue,                   \* queue_ui, queue_system, queue_doorlock
    todo                     \* what each task still has to do, in order

busVars == <<queue, todo>>

Queues == {"ui", "system", "doorlock"}
Tasks == {"ui", "system", "doorlock", "fg"}

Cap == [ui |-> UiCap, system |-> SystemCap, doorlock |-> DoorLockCap]

(* The queue of a receiver, app.c:65-72. *)
QueueOf(recver) ==
    CASE recver = "SERV_UI" -> "ui"
      [] recver \in {"SERV_AUTH", "SERV_INVOKE", "SERV_SYSOP"} -> "system"
      [] recver = "HW_DOOR_LOCK" -> "doorlock"

Full(q) == Len(queue[q]) >= Cap[q]

(* A publish still to be made. *)
To(recver, msg) == [op |-> "publish", to |-> QueueOf(recver), msg |-> msg]

NoMessages == [q \in Queues |-> <<>>]
NothingToDo == [t \in Tasks |-> <<>>]

BusInit ==
    /\ queue = NoMessages
    /\ todo = NothingToDo

Idle(t) == todo[t] = <<>>

(* The task of queue q is free and takes the next message; it then has out *)
(* to publish.                                                             *)
Take(q, out) ==
    /\ Idle(q)
    /\ queue[q] # <<>>
    /\ queue' = [queue EXCEPT ![q] = Tail(@)]
    /\ todo' = [todo EXCEPT ![q] = out]

(* The task starts publishing without having taken a message. *)
Start(t, out) ==
    /\ Idle(t)
    /\ todo' = [todo EXCEPT ![t] = out]

Publishing(t) == ~Idle(t) /\ Head(todo[t]).op = "publish"

(* Mutant: a queue takes any number of messages. *)
PublishSentUnbounded(t) ==
    /\ Publishing(t)
    /\ LET e == Head(todo[t]) IN
        queue' = [queue EXCEPT ![e.to] = Append(@, e.msg)]
    /\ todo' = [todo EXCEPT ![t] = Tail(@)]

(* xQueueSend finds room. *)
PublishSent(t) ==
    /\ Publishing(t)
    /\ LET e == Head(todo[t]) IN
        /\ ~Full(e.to)
        /\ queue' = [queue EXCEPT ![e.to] = Append(@, e.msg)]
    /\ todo' = [todo EXCEPT ![t] = Tail(@)]

(* Mutant: xQueueSend waits for room without limit. *)
PublishWaitsOn(t) == FALSE

(* The queue stays full for 100 ms: the message is lost, and event_publish *)
(* returns true all the same.                                              *)
PublishLost(t) ==
    /\ Publishing(t)
    /\ Full(Head(todo[t]).to)
    /\ todo' = [todo EXCEPT ![t] = Tail(@)]
    /\ UNCHANGED queue
=============================================================================
