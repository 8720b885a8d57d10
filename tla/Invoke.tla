------------------------------- MODULE Invoke -------------------------------
(***************************************************************************)
(* Delayed calls: invoke() (app.c:467-508), run by the UI task, and the    *)
(* timer half of system_service (app.c:347-361, 424-461), which sleeps in  *)
(* its queue receive until the earliest call is due.  They share the table *)
(* to_do_list, guarded by x_todo_list_mutex, and the wake-up time          *)
(* s_awake_cntdwn, which the service reads without the mutex.              *)
(*                                                                         *)
(* Time is the FreeRTOS tick count, a counter modulo TickMod.  It advances *)
(* while every task is blocked, and MaxSlips times anywhere else: a tick   *)
(* interrupt between any two statements.                                   *)
(***************************************************************************)
EXTENDS Integers, Sequences, FiniteSetsExt

CONSTANTS
    TickMod,                 \* 2^32; TickMod-1 is portMAX_DELAY
    Start,                   \* tick count at the start of the behaviour
    MaxTime,                 \* bound on the ticks that pass, limited waits apart
    MaxSlips,                \* bound on ticks that interrupt running code
    Slots,                   \* INVOKE_SLOT_SIZE (16)
    MaxCalls, LastCall,      \* bounds: calls of invoke(), time of the last one
    Delays,                  \* delays asked for, in ticks (1000 and 2000 ms)
    QueueCap,                \* slots of queue_system (6)
    MaxWork, WorkTicks,      \* bounds: other messages, how long one may take
    InvokeTake,              \* invoke() waits this long for the mutex (100 ms)
    SendTicks,               \* ... and this long for room in the queue (100 ms)
    ServiceTake,             \* the service waits this long for the mutex (100 ticks)
    Retry                    \* ... and tries again so much later (200 ticks)

ASSUME InvokeAssumption ==
    /\ TickMod \in Nat /\ Start \in 0..(TickMod - 1)
    /\ Slots \in Nat \ {0} /\ QueueCap \in Nat \ {0}
    /\ ServiceTake \in Nat \ {0}
    /\ {MaxCalls, MaxTime, MaxSlips, MaxWork, Retry} \subseteq Nat
    /\ Delays \subseteq 1..(TickMod - 2)

MAX_DELAY == TickMod - 1

VARIABLES
    clock, slips,            \* ticks since Start; how many of them were slips
    to_do_list, awake,       \* the table; s_awake_cntdwn
    mutex,                   \* holder of x_todo_list_mutex, or "none"
    queue,                   \* queue_system
    spc, cur, planned,       \* service: where it is, cur_time, the s_awake it read
    until, swait, idx,       \*   end of the receive, ticks waited, slot scanned
    upc, udelay, uwait,      \* UI inside invoke(): where, delay asked, ticks waited
    uslot,                   \*   slot taken
    calls, works,            \* history: calls of invoke() and messages so far
    due, ran, disturbed      \* history: when a call is due, when it ran, whether
                             \*   it was overlapped, delayed or slipped

timeVars == <<clock, slips>>
tableVars == <<to_do_list, awake, mutex>>
serviceVars == <<spc, cur, planned, until, swait, idx>>
uiVars == <<upc, udelay, uwait, uslot>>
historyVars == <<calls, works, due, ran, disturbed>>
vars == <<timeVars, tableVars, queue, serviceVars, uiVars, historyVars>>

Calls == 1..MaxCalls
NotYet == -1

Now == (Start + clock) % TickMod
Minus(a, b) == (a - b) % TickMod          \* uint32_t subtraction
Plus(a, b) == (a + b) % TickMod

Unused == [req |-> 0, delay |-> MAX_DELAY, call |-> 0, func |-> 0]
InUse(i) == to_do_list[i].delay # MAX_DELAY
Pending == {to_do_list[i].call : i \in {j \in 1..Slots : InUse(j)}}

Init ==
    /\ clock = 0 /\ slips = 0
    /\ to_do_list = [i \in 1..Slots |-> Unused]
    /\ awake = MAX_DELAY
    /\ mutex = "none"
    /\ queue = <<>>
    /\ spc = "plan" /\ cur = 0 /\ planned = 0
    /\ until = 0 /\ swait = 0 /\ idx = 0
    /\ upc = "idle" /\ udelay = 0 /\ uwait = 0 /\ uslot = 0
    /\ calls = 0 /\ works = 0
    /\ due = [c \in Calls |-> NotYet]
    /\ ran = [c \in Calls |-> NotYet]
    /\ disturbed = {}
-----------------------------------------------------------------------------
(* invoke(), as the UI task runs it. *)

InvokeCall(delay) ==
    /\ upc = "idle"
    /\ calls < MaxCalls
    /\ clock <= LastCall
    /\ calls' = calls + 1
    /\ upc' = "take"
    /\ udelay' = delay
    /\ uwait' = 0
    /\ UNCHANGED <<timeVars, tableVars, queue, serviceVars, uslot, works, due, ran, disturbed>>

(* Dead locals are reset, here and in the service, to save states. *)
Returned == upc' = "idle" /\ udelay' = 0 /\ uwait' = 0 /\ uslot' = 0

InvokeTakes ==
    /\ upc = "take"
    /\ mutex = "none"
    /\ mutex' = "ui"
    /\ upc' = "fill"
    /\ UNCHANGED <<timeVars, to_do_list, awake, queue, serviceVars, udelay, uwait, uslot, historyVars>>

(* The mutex stayed taken: the request is dropped. *)
InvokeIgnored ==
    /\ upc = "take"
    /\ mutex # "none"
    /\ uwait >= InvokeTake
    /\ Returned
    /\ UNCHANGED <<timeVars, tableVars, queue, serviceVars, historyVars>>

(* The first free slot gets the request time and the delay. *)
InvokeFill ==
    /\ upc = "fill"
    /\ \E i \in 1..Slots :
        /\ ~InUse(i)
        /\ \A j \in 1..(i - 1) : InUse(j)
        /\ to_do_list' = [to_do_list EXCEPT ![i].req = Now,
                                            ![i].delay = udelay,
                                            ![i].call = calls]
        /\ uslot' = i
    /\ due' = [due EXCEPT ![calls] = clock + udelay]
    /\ disturbed' = IF Pending = {} THEN disturbed ELSE disturbed \cup Pending \cup {calls}
    /\ upc' = "awake"
    /\ UNCHANGED <<timeVars, awake, mutex, queue, serviceVars, udelay, uwait, calls, works, ran>>

(* No free slot: the loop ends and invoke() returns with the mutex held. *)
InvokeFull ==
    /\ upc = "fill"
    /\ \A i \in 1..Slots : InUse(i)
    /\ Returned
    /\ disturbed' = disturbed \cup Pending
    /\ UNCHANGED <<timeVars, tableVars, queue, serviceVars, calls, works, due, ran>>

(* Mutants: the wake-up time is not announced; it is stored as a delay. *)
InvokeAwakeSilent ==
    /\ upc = "awake"
    /\ awake' = IF udelay < awake THEN Plus(Now, udelay) ELSE awake
    /\ upc' = "store"
    /\ uwait' = 0
    /\ UNCHANGED <<timeVars, to_do_list, mutex, queue, serviceVars, udelay, uslot, historyVars>>

InvokeAwakeRelative ==
    /\ upc = "awake"
    /\ IF udelay < awake
       THEN awake' = udelay /\ upc' = "send"
       ELSE UNCHANGED awake /\ upc' = "store"
    /\ uwait' = 0
    /\ UNCHANGED <<timeVars, to_do_list, mutex, queue, serviceVars, udelay, uslot, historyVars>>

(* The delay is compared with the wake-up time, which is a point in time. *)
InvokeAwake ==
    /\ upc = "awake"
    /\ IF udelay < awake
       THEN awake' = Plus(Now, udelay) /\ upc' = "send"
       ELSE UNCHANGED awake /\ upc' = "store"
    /\ uwait' = 0
    /\ UNCHANGED <<timeVars, to_do_list, mutex, queue, serviceVars, udelay, uslot, historyVars>>

(* Mutant: the dummy is sent whether there is room or not. *)
InvokeSendUnbounded ==
    /\ upc = "send"
    /\ queue' = Append(queue, "dummy")
    /\ upc' = "store"
    /\ UNCHANGED <<timeVars, tableVars, serviceVars, udelay, uwait, uslot, historyVars>>

(* A dummy message makes the service compute its time-out again. *)
InvokeSend ==
    /\ upc = "send"
    /\ \/ /\ Len(queue) < QueueCap
          /\ queue' = Append(queue, "dummy")
       \/ /\ Len(queue) = QueueCap
          /\ uwait >= SendTicks
          /\ UNCHANGED queue
    /\ upc' = "store"
    /\ UNCHANGED <<timeVars, tableVars, serviceVars, udelay, uwait, uslot, historyVars>>

InvokeStore ==
    /\ upc = "store"
    /\ to_do_list' = [to_do_list EXCEPT ![uslot].func = to_do_list[uslot].call]
    /\ mutex' = "none"
    /\ Returned
    /\ UNCHANGED <<timeVars, awake, queue, serviceVars, historyVars>>

InvokeStep == InvokeTakes \/ InvokeIgnored \/ InvokeFill \/ InvokeFull
                \/ InvokeAwake \/ InvokeSend \/ InvokeStore
-----------------------------------------------------------------------------
(* system_service, its receive and its timer. *)

ServicePlan ==
    /\ spc = "plan"
    /\ cur' = Now
    /\ planned' = awake
    /\ spc' = "block"
    /\ UNCHANGED <<timeVars, tableVars, queue, until, swait, idx, uiVars, historyVars>>

ServiceBlock ==
    /\ spc = "block"
    /\ until' = clock + Max({planned, cur}) - cur
    /\ cur' = 0
    /\ spc' = "recv"
    /\ UNCHANGED <<timeVars, tableVars, queue, planned, swait, idx, uiVars, historyVars>>

ServiceReceive ==
    /\ spc = "recv"
    /\ queue # <<>>
    /\ queue' = Tail(queue)
    /\ spc' = IF Head(queue) = "dummy" THEN "plan" ELSE "work"
    /\ until' = 0
    /\ planned' = 0
    /\ swait' = 0
    /\ UNCHANGED <<timeVars, tableVars, cur, idx, uiVars, historyVars>>

ServiceDone ==
    /\ spc = "work"
    /\ spc' = "plan"
    /\ swait' = 0
    /\ UNCHANGED <<timeVars, tableVars, queue, cur, planned, until, idx, uiVars, historyVars>>

ServiceTimeout ==
    /\ spc = "recv"
    /\ queue = <<>>
    /\ clock >= until
    /\ cur' = Now
    /\ spc' = "take"
    /\ until' = 0
    /\ planned' = 0
    /\ swait' = 0
    /\ UNCHANGED <<timeVars, tableVars, queue, idx, uiVars, historyVars>>

(* Mutant: the table is scanned without the mutex. *)
ServiceTakesAnyway ==
    /\ spc = "take"
    /\ awake' = MAX_DELAY
    /\ idx' = 1
    /\ swait' = 0
    /\ spc' = "scan"
    /\ UNCHANGED <<timeVars, to_do_list, mutex, queue, cur, planned, until, uiVars, historyVars>>

ServiceTakes ==
    /\ spc = "take"
    /\ mutex = "none"
    /\ mutex' = "service"
    /\ awake' = MAX_DELAY
    /\ idx' = 1
    /\ swait' = 0
    /\ spc' = "scan"
    /\ UNCHANGED <<timeVars, to_do_list, queue, cur, planned, until, uiVars, historyVars>>

(* Mutant: the wait for the mutex has no limit. *)
ServiceWaitsOn == FALSE

ServiceDelayed ==
    /\ spc = "take"
    /\ mutex # "none"
    /\ swait >= ServiceTake
    /\ awake' = Plus(cur, Retry)
    /\ cur' = 0
    /\ swait' = 0
    /\ spc' = "plan"
    /\ UNCHANGED <<timeVars, to_do_list, mutex, queue, planned, until, idx, uiVars, historyVars>>

(* Mutant: the tick at which a call is due does not count. *)
IsTimeStrict(i) == Minus(cur, to_do_list[i].req) < to_do_list[i].delay

IsTime(i) == Minus(cur, to_do_list[i].req) <= to_do_list[i].delay

(* One turn of the loop over the table. *)
ScanNext ==
    /\ spc = "scan"
    /\ idx <= Slots
    /\ idx' = idx + 1
    /\ UNCHANGED <<timeVars, mutex, queue, spc, cur, planned, until, swait, uiVars, calls, works, due, disturbed>>

ScanUnused ==
    /\ ScanNext
    /\ ~InUse(idx)
    /\ UNCHANGED <<to_do_list, awake, ran>>

(* Mutant: the slot of a call that was run stays in use. *)
ScanRunKeeps ==
    /\ ScanNext
    /\ InUse(idx)
    /\ IsTime(idx)
    /\ ran' = [ran EXCEPT ![to_do_list[idx].func] = clock]
    /\ UNCHANGED <<to_do_list, awake>>

ScanRun ==
    /\ ScanNext
    /\ InUse(idx)
    /\ IsTime(idx)
    /\ ran' = [ran EXCEPT ![to_do_list[idx].func] = clock]
    /\ to_do_list' = [to_do_list EXCEPT ![idx].delay = MAX_DELAY]
    /\ UNCHANGED awake

ScanLater ==
    /\ ScanNext
    /\ InUse(idx)
    /\ ~IsTime(idx)
    /\ LET when == Plus(to_do_list[idx].req, to_do_list[idx].delay)
       IN  awake' = IF when < awake THEN Minus(when, cur) ELSE awake
    /\ UNCHANGED <<to_do_list, ran>>

ServiceGives ==
    /\ spc = "scan"
    /\ idx > Slots
    /\ mutex' = "none"
    /\ idx' = 0
    /\ cur' = 0
    /\ spc' = "plan"
    /\ UNCHANGED <<timeVars, to_do_list, awake, queue, planned, until, swait, uiVars, historyVars>>

ServiceStep == ServicePlan \/ ServiceBlock \/ ServiceReceive \/ ServiceTimeout
                 \/ ServiceTakes \/ ServiceDelayed \/ ScanUnused \/ ScanRun
                 \/ ScanLater \/ ServiceGives
-----------------------------------------------------------------------------
(* Another task's message for system_service. *)
Post ==
    /\ works < MaxWork
    /\ Len(queue) < QueueCap
    /\ works' = works + 1
    /\ queue' = Append(queue, "work")
    /\ UNCHANGED <<timeVars, tableVars, serviceVars, uiVars, calls, due, ran, disturbed>>

ServiceBlocked ==
    \/ spc = "recv" /\ queue = <<>> /\ clock < until
    \/ spc = "work" /\ swait < WorkTicks
    \/ spc = "take" /\ mutex # "none" /\ swait < ServiceTake

InvokeBlocked ==
    \/ upc = "idle"
    \/ upc = "take" /\ mutex # "none" /\ uwait < InvokeTake
    \/ upc = "send" /\ Len(queue) = QueueCap /\ uwait < SendTicks

(* A tick.  The calls it catches with the service away from its receive,   *)
(* or that a slip catches, count as disturbed.                             *)
Tick ==
    /\ clock < MaxTime \/ spc = "take" \/ upc \in {"take", "send"}
    /\ \/ ServiceBlocked /\ InvokeBlocked /\ UNCHANGED slips
       \/ ~(ServiceBlocked /\ InvokeBlocked) /\ slips < MaxSlips /\ slips' = slips + 1
    /\ clock' = clock + 1
    /\ swait' = IF spc \in {"work", "take"} THEN swait + 1 ELSE swait
    /\ uwait' = IF upc \in {"take", "send"} THEN uwait + 1 ELSE uwait
    /\ disturbed' = IF spc = "recv" /\ slips' = slips THEN disturbed
                                                      ELSE disturbed \cup Pending
    /\ UNCHANGED <<tableVars, queue, spc, cur, planned, until, idx, upc, udelay, uslot, calls, works, due, ran>>

Next ==
    \/ InvokeStep
    \/ ServiceStep
    \/ ServiceDone
    \/ Tick
    \/ Post
    \/ \E delay \in Delays : InvokeCall(delay)

Spec == Init /\ [][Next]_vars

(* Both tasks run when they can, and time passes. *)
FairSpec == Spec /\ WF_vars(InvokeStep) /\ WF_vars(ServiceStep)
                 /\ WF_vars(ServiceDone) /\ WF_vars(Tick)
-----------------------------------------------------------------------------
TypeOK ==
    /\ clock \in Nat /\ slips \in 0..MaxSlips
    /\ to_do_list \in [1..Slots -> [req : 0..MAX_DELAY, delay : Delays \cup {MAX_DELAY},
                                    call : 0..MaxCalls, func : 0..MaxCalls]]
    /\ {awake, cur, planned} \subseteq 0..MAX_DELAY
    /\ mutex \in {"none", "ui", "service"}
    /\ queue \in Seq({"dummy", "work"}) /\ Len(queue) <= QueueCap
    /\ spc \in {"plan", "block", "recv", "work", "take", "scan"}
    /\ upc \in {"idle", "take", "fill", "awake", "send", "store"}
    /\ idx \in 0..(Slots + 1) /\ {until, swait, uwait} \subseteq Nat
    /\ udelay \in Delays \cup {0} /\ uslot \in 0..Slots
    /\ calls \in 0..MaxCalls /\ works \in 0..MaxWork
    /\ due \in [Calls -> Nat \cup {NotYet}] /\ ran \in [Calls -> Nat \cup {NotYet}]
    /\ disturbed \subseteq Calls

(* The service never sleeps on an outdated wake-up time: if s_awake_cntdwn *)
(* changed after it was read (unlocked, app.c:359), a message is in the    *)
(* queue, or invoke() is about to put one there (app.c:490-492).  A full   *)
(* queue may swallow the dummy, but then there is a message anyway.        *)
NoLostWakeup ==
    spc \in {"block", "recv"} /\ planned # awake => queue # <<>> \/ upc = "send"

(* While the service walks the table or invoke() fills it, nobody else     *)
(* does, and every used slot the service meets holds the function of its   *)
(* own request and not a leftover of the slot's last user.                 *)
TableGuarded ==
    /\ spc = "scan" => /\ upc \notin {"fill", "awake", "send", "store"}
                       /\ \A i \in 1..Slots :
                             InUse(i) => to_do_list[i].func = to_do_list[i].call
    /\ spc = "scan" => mutex = "service"
    /\ upc \in {"fill", "awake", "send", "store"} => mutex = "ui"

(* Identity of calls: what runs was accepted, and runs once. *)
Identity == INSTANCE Deferred WITH
    pending <- Pending,
    finished <- {c \in Calls : ran[c] # NotYet}

KeepsIdentity == Identity!DeferredSpec

(* A call that no other call overlaps, that no tick interrupts and whose   *)
(* service is not busy runs at the very tick it is due, ...                *)
UndisturbedOnTime ==
    \A c \in Calls \ disturbed : ran[c] # NotYet => ran[c] = due[c]

(* ... and does run. *)
UndisturbedRuns ==
    \A c \in Calls : (c \in Pending) ~> (c \notin Pending \/ c \in disturbed)

(* invoke() always returns to the UI task, and the service always leaves   *)
(* its wait for the mutex, even when the mutex was lost by InvokeFull.     *)
TasksReturn ==
    /\ (upc # "idle") ~> (upc = "idle")
    /\ (spc = "take") ~> (spc # "take")
=============================================================================
