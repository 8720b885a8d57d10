---------------------------- MODULE InvokeProofs ----------------------------
(***************************************************************************)
(* Theorems about Invoke, for any number of slots and of calls, any delays *)
(* and any limits of the waits: every variable keeps its range, the table  *)
(* is used by one task at a time, an accepted call runs at most once, no   *)
(* wake-up time is lost, and a call that nothing disturbs is on time.      *)
(*                                                                         *)
(* Few of these are inductive.  That the scan meets only finished entries  *)
(* needs to know which one invoke() may have left unfinished, and that the *)
(* mutex excludes the scan until then.  That a call runs once needs its    *)
(* number to be in no second slot and among the calls made.  That it runs  *)
(* on time needs to know, at every statement of both tasks, where the time *)
(* it is due is kept.                                                      *)
(***************************************************************************)
EXTENDS Invoke, TLAPS

Entry == [req : Int, delay : Int, call : Int, func : Int]

Filling == upc \in {"awake", "send", "store"}     \* the slot uslot is taken

Table ==
    /\ to_do_list \in [1..Slots -> Entry]
    /\ clock \in Nat /\ udelay \in Int /\ calls \in Int
    /\ Filling => uslot \in 1..Slots

Exclusion ==
    /\ spc = "scan" => mutex = "service"
    /\ upc \in {"fill", "awake", "send", "store"} => mutex = "ui"

(* Only the entry being filled may hold the function of its last user. *)
Finished ==
    \A i \in 1..Slots :
        InUse(i) => \/ to_do_list[i].func = to_do_list[i].call
                    \/ Filling /\ i = uslot

GInv == Table /\ Exclusion /\ Finished
-----------------------------------------------------------------------------
(* The tick counter, however often it has wrapped, is a number.            *)
LEMMA NowIsInt == ASSUME clock \in Nat PROVE Now \in Int
  BY InvokeAssumption DEF Now

LEMMA InitGInv == Init => GInv
  BY InvokeAssumption DEF Init, GInv, Table, Exclusion, Finished, Entry, Unused, MAX_DELAY, InUse, Filling

(* What a step that leaves the table alone must respect. *)
LEMMA TableUntouched ==
  ASSUME GInv, UNCHANGED <<to_do_list, uslot>>,
         clock' \in Nat, udelay' \in Int, calls' \in Int,
         Filling' <=> Filling, Exclusion'
  PROVE  GInv'
  BY DEF GInv, Table, Finished, InUse, Filling

(* Every action keeps GInv.                                                *)
LEMMA NextGInv == GInv /\ [Next]_vars => GInv'
<1> SUFFICES ASSUME GInv, [Next]_vars PROVE GInv'
  OBVIOUS
<1>0. /\ to_do_list \in [1..Slots -> Entry]
      /\ clock \in Nat /\ udelay \in Int /\ calls \in Int
      /\ Filling => uslot \in 1..Slots
      /\ Exclusion
      /\ Finished
  BY DEF GInv, Table
<1>1. ASSUME NEW delay \in Delays, InvokeCall(delay) PROVE GInv'
  <2>1. /\ UNCHANGED <<to_do_list, uslot, clock, spc, mutex>>
        /\ calls' = calls + 1 /\ udelay' = delay /\ upc = "idle" /\ upc' = "take"
    BY <1>1 DEF InvokeCall, tableVars, timeVars, serviceVars
  <2>2. delay \in Int
    BY InvokeAssumption
  <2>3. (Filling' <=> Filling) /\ Exclusion'
    BY <2>1, <1>0 DEF Filling, Exclusion
  <2>4. QED
    BY <2>1, <2>2, <2>3, <1>0, TableUntouched
<1>2. CASE InvokeTakes
  <2>1. /\ UNCHANGED <<to_do_list, uslot, clock, spc, udelay, calls>>
        /\ upc = "take" /\ upc' = "fill" /\ mutex = "none" /\ mutex' = "ui"
    BY <1>2 DEF InvokeTakes, timeVars, serviceVars, historyVars
  <2>2. (Filling' <=> Filling) /\ Exclusion'
    BY <2>1, <1>0 DEF Filling, Exclusion
  <2>3. QED
    BY <2>1, <2>2, <1>0, TableUntouched
<1>3. CASE InvokeIgnored \/ InvokeFull
  <2>1. /\ UNCHANGED <<to_do_list, clock, spc, mutex, calls>>
        /\ upc \in {"take", "fill"} /\ upc' = "idle" /\ udelay' = 0
    BY <1>3 DEF InvokeIgnored, InvokeFull, Returned, timeVars, tableVars, serviceVars, historyVars
  <2>2. ~Filling /\ ~Filling' /\ Exclusion'
    BY <2>1, <1>0 DEF Filling, Exclusion
  <2>3. QED
    BY <2>1, <2>2, <1>0 DEF GInv, Table, Finished, InUse
<1>4. CASE InvokeFill
  <2>1. PICK i \in 1..Slots :
          /\ to_do_list' = [to_do_list EXCEPT ![i].req = Now, ![i].delay = udelay, ![i].call = calls]
          /\ uslot' = i
    BY <1>4 DEF InvokeFill
  <2>2. /\ upc = "fill" /\ upc' = "awake"
        /\ UNCHANGED <<mutex, spc, clock, udelay, calls>>
    BY <1>4 DEF InvokeFill, serviceVars, timeVars
  <2>3. Now \in Int
    BY <1>0, NowIsInt
  <2>4. to_do_list' \in [1..Slots -> Entry]
    BY <2>1, <2>3, <1>0 DEF Entry
  <2>5. \A j \in 1..Slots \ {i} : to_do_list'[j] = to_do_list[j]
    BY <2>1, <1>0
  <2>6. ~Filling /\ Filling' /\ Exclusion'
    BY <2>2, <1>0 DEF Filling, Exclusion
  <2>7. Table'
    BY <2>1, <2>2, <2>4, <1>0 DEF Table
  <2>8. Finished'
    BY <2>1, <2>5, <2>6, <1>0 DEF Finished, InUse
  <2>9. QED
    BY <2>6, <2>7, <2>8 DEF GInv
<1>5. CASE InvokeAwake \/ InvokeSend
  <2>1. /\ UNCHANGED <<to_do_list, uslot, clock, spc, mutex, udelay, calls>>
        /\ upc \in {"awake", "send"} /\ upc' \in {"send", "store"}
    BY <1>5 DEF InvokeAwake, InvokeSend, timeVars, tableVars, serviceVars, historyVars
  <2>2. (Filling' <=> Filling) /\ Exclusion'
    BY <2>1, <1>0 DEF Filling, Exclusion
  <2>3. QED
    BY <2>1, <2>2, <1>0, TableUntouched
<1>6. CASE InvokeStore
  <2>1. /\ to_do_list' = [to_do_list EXCEPT ![uslot].func = to_do_list[uslot].call]
        /\ upc = "store" /\ upc' = "idle" /\ mutex' = "none" /\ udelay' = 0
        /\ UNCHANGED <<spc, clock, calls>>
    BY <1>6 DEF InvokeStore, Returned, serviceVars, timeVars, historyVars
  <2>2. uslot \in 1..Slots /\ mutex = "ui" /\ spc # "scan" /\ ~Filling'
    BY <2>1, <1>0 DEF Exclusion, Filling
  <2>3. to_do_list' \in [1..Slots -> Entry]
    BY <2>1, <2>2, <1>0 DEF Entry
  <2>4. /\ \A j \in 1..Slots \ {uslot} : to_do_list'[j] = to_do_list[j]
        /\ to_do_list'[uslot].func = to_do_list'[uslot].call
    BY <2>1, <2>2, <1>0 DEF Entry
  <2>5. Table'
    BY <2>1, <2>2, <2>3, <1>0 DEF Table
  <2>6. Exclusion'
    BY <2>1, <2>2 DEF Exclusion
  <2>7. Finished'
    BY <2>2, <2>4, <1>0 DEF Finished, InUse
  <2>8. QED
    BY <2>5, <2>6, <2>7 DEF GInv
<1>7. CASE ServicePlan \/ ServiceBlock \/ ServiceReceive \/ ServiceDone \/ ServiceTimeout \/ ServiceDelayed
  <2>1. /\ UNCHANGED <<to_do_list, mutex, clock, uslot, upc, udelay, calls>>
        /\ spc' # "scan"
    BY <1>7 DEF ServicePlan, ServiceBlock, ServiceReceive, ServiceDone, ServiceTimeout, ServiceDelayed,
                timeVars, tableVars, uiVars, historyVars
  <2>2. (Filling' <=> Filling) /\ Exclusion'
    BY <2>1, <1>0 DEF Filling, Exclusion
  <2>3. QED
    BY <2>1, <2>2, <1>0, TableUntouched
<1>8. CASE ServiceTakes \/ ServiceGives
  <2>1. /\ UNCHANGED <<to_do_list, clock, uslot, upc, udelay, calls>>
        /\ \/ mutex = "none" /\ mutex' = "service" /\ spc' = "scan"
           \/ spc = "scan" /\ mutex' = "none" /\ spc' = "plan"
    BY <1>8 DEF ServiceTakes, ServiceGives, timeVars, uiVars, historyVars
  <2>2. (Filling' <=> Filling) /\ Exclusion'
    BY <2>1, <1>0 DEF Filling, Exclusion
  <2>3. QED
    BY <2>1, <2>2, <1>0, TableUntouched
<1>9. CASE ScanUnused \/ ScanLater
  <2>1. UNCHANGED <<to_do_list, mutex, spc, clock, uslot, upc, udelay, calls>>
    BY <1>9 DEF ScanUnused, ScanLater, ScanNext, timeVars, uiVars
  <2>2. (Filling' <=> Filling) /\ Exclusion'
    BY <2>1, <1>0 DEF Filling, Exclusion
  <2>3. QED
    BY <2>1, <2>2, <1>0, TableUntouched
<1>10. CASE ScanRun
  <2>1. /\ to_do_list' = [to_do_list EXCEPT ![idx].delay = MAX_DELAY]
        /\ UNCHANGED <<mutex, spc, clock, uslot, upc, udelay, calls>>
    BY <1>10 DEF ScanRun, ScanNext, uiVars, timeVars
  <2>2. MAX_DELAY \in Int
    BY InvokeAssumption DEF MAX_DELAY
  <2>3. to_do_list' \in [1..Slots -> Entry]
    BY <2>1, <2>2, <1>0 DEF Entry
  <2>4. \A j \in 1..Slots : /\ to_do_list'[j].func = to_do_list[j].func
                            /\ to_do_list'[j].call = to_do_list[j].call
                            /\ to_do_list'[j].delay # MAX_DELAY => to_do_list[j].delay # MAX_DELAY
    BY <2>1, <1>0 DEF Entry
  <2>5. (Filling' <=> Filling) /\ Exclusion'
    BY <2>1, <1>0 DEF Filling, Exclusion
  <2>6. Table'
    BY <2>1, <2>3, <2>5, <1>0 DEF Table
  <2>7. Finished'
    BY <2>1, <2>4, <2>5, <1>0 DEF Finished, InUse
  <2>8. QED
    BY <2>5, <2>6, <2>7 DEF GInv
<1>11. CASE Tick \/ Post \/ UNCHANGED vars
  <2>1. /\ UNCHANGED <<to_do_list, mutex, spc, uslot, upc, udelay, calls>>
        /\ clock' \in {clock, clock + 1}
    BY <1>11 DEF Tick, Post, vars, timeVars, tableVars, serviceVars, uiVars, historyVars
  <2>2. (Filling' <=> Filling) /\ Exclusion'
    BY <2>1, <1>0 DEF Filling, Exclusion
  <2>3. QED
    BY <2>1, <2>2, <1>0, TableUntouched
<1>12. QED
  BY <1>1, <1>2, <1>3, <1>4, <1>5, <1>6, <1>7, <1>8, <1>9, <1>10, <1>11 DEF Next, InvokeStep, ServiceStep

LEMMA AlwaysGInv == Spec => []GInv
  BY InitGInv, NextGInv, PTL DEF Spec

(* While the service scans the table or invoke() fills it, the other task  *)
(* is out of it, and the scan meets no half-written entry.                 *)
THEOREM TableIsGuarded == Spec => []TableGuarded
<1>1. GInv => TableGuarded
  <2> SUFFICES ASSUME GInv PROVE TableGuarded
    OBVIOUS
  <2>1. spc = "scan" => ~Filling /\ upc # "fill"
    BY DEF GInv, Exclusion, Filling
  <2>2. QED
    BY <2>1 DEF GInv, Exclusion, Finished, Filling, TableGuarded
<1>2. QED
  BY <1>1, AlwaysGInv, PTL
-----------------------------------------------------------------------------
Done == {c \in Calls : ran[c] # NotYet}

(* Every used slot holds a call of its own, made and not yet run. *)
Fresh ==
    /\ ran \in [Calls -> Int]
    /\ calls \in 0..MaxCalls
    /\ \A c \in Calls : c > calls => ran[c] = NotYet
    /\ \A i \in 1..Slots : InUse(i) => /\ to_do_list[i].call \in 1..calls
                                       /\ ran[to_do_list[i].call] = NotYet
    /\ \A i, j \in 1..Slots :
          InUse(i) /\ InUse(j) /\ to_do_list[i].call = to_do_list[j].call => i = j

(* The call being made is new, and its delay is one a slot can show. *)
Making ==
    upc \in {"take", "fill"} =>
        /\ calls \in Calls /\ udelay \in Delays
        /\ ran[calls] = NotYet
        /\ \A i \in 1..Slots : InUse(i) => to_do_list[i].call # calls

LEMMA InitFresh == Init => Fresh /\ Making /\ Identity!DeferredInit
<1> SUFFICES ASSUME Init PROVE Fresh /\ Making /\ Identity!DeferredInit
  OBVIOUS
<1>1. \A i \in 1..Slots : ~InUse(i)
  BY DEF Init, InUse, Unused
<1>2. ran = [c \in Calls |-> NotYet] /\ calls = 0 /\ upc = "idle"
  BY DEF Init
<1>3. Fresh
  BY <1>1, <1>2, InvokeAssumption DEF Fresh, Calls, NotYet
<1>4. Pending = {} /\ {c \in Calls : ran[c] # NotYet} = {}
  BY <1>1, <1>2 DEF Pending
<1>5. QED
  BY <1>2, <1>3, <1>4 DEF Making, Identity!DeferredInit

(* A step that leaves the table's calls and the record of runs alone. *)
LEMMA CallsUntouched ==
  ASSUME Fresh, UNCHANGED <<ran, calls>>,
         \A i \in 1..Slots : /\ InUse(i)' <=> InUse(i)
                             /\ to_do_list'[i].call = to_do_list[i].call
  PROVE  Fresh' /\ UNCHANGED <<Pending, Done>>
<1>1. Fresh'
  BY DEF Fresh
<1>2. Pending' = Pending
  BY DEF Pending
<1>3. Done' = Done
  BY DEF Done
<1>4. QED
  BY <1>1, <1>2, <1>3

LEMMA InvokeCallFresh ==
  ASSUME Fresh, NEW delay \in Delays, InvokeCall(delay)
  PROVE  Fresh' /\ Making' /\ UNCHANGED <<Pending, Done>>
<1>1. /\ UNCHANGED <<to_do_list, ran>> /\ calls < MaxCalls
      /\ calls' = calls + 1 /\ udelay' = delay
  BY DEF InvokeCall, tableVars
<1>2. \A i \in 1..Slots : InUse(i)' <=> InUse(i)
  BY <1>1 DEF InUse
<1>3. calls \in Int /\ MaxCalls \in Int /\ calls' \in 0..MaxCalls /\ calls' \in Calls /\ calls' > calls
  BY <1>1, InvokeAssumption DEF Fresh, Calls
<1>4. \A i \in 1..Slots : InUse(i) => to_do_list[i].call \in 1..calls' /\ to_do_list[i].call # calls'
  BY <1>1, <1>3 DEF Fresh
<1>5. \A c \in Calls : c > calls' => ran[c] = NotYet
  BY <1>1, <1>3 DEF Fresh, Calls
<1>6. Fresh'
  BY <1>1, <1>2, <1>3, <1>4, <1>5 DEF Fresh
<1>7. ran[calls'] = NotYet
  BY <1>3 DEF Fresh
<1>8. Making'
  BY <1>1, <1>2, <1>3, <1>4, <1>7 DEF Making
<1>9. QED
  BY <1>1, <1>2, <1>6, <1>8 DEF Pending, Done

(* The entry of a new call: the abstract Accept. *)
LEMMA InvokeFillFresh ==
  ASSUME GInv, Fresh, Making, InvokeFill
  PROVE  Fresh' /\ Making' /\ Identity!Accept(calls)
<1>1. PICK i \in 1..Slots :
        /\ ~InUse(i)
        /\ to_do_list' = [to_do_list EXCEPT ![i].req = Now, ![i].delay = udelay, ![i].call = calls]
  BY DEF InvokeFill
<1>2. /\ upc = "fill" /\ upc' = "awake" /\ UNCHANGED <<ran, calls>>
      /\ to_do_list \in [1..Slots -> Entry]
  BY DEF InvokeFill, GInv, Table
<1>3. /\ calls \in Calls /\ udelay \in Delays /\ ran[calls] = NotYet
      /\ \A j \in 1..Slots : InUse(j) => to_do_list[j].call # calls
  BY <1>2 DEF Making
<1>4. /\ to_do_list'[i].call = calls /\ InUse(i)'
      /\ \A j \in 1..Slots \ {i} : to_do_list'[j] = to_do_list[j]
  <2>1. udelay # MAX_DELAY
    BY <1>3, InvokeAssumption DEF MAX_DELAY
  <2>2. /\ to_do_list'[i].call = calls /\ to_do_list'[i].delay = udelay
        /\ \A j \in 1..Slots \ {i} : to_do_list'[j] = to_do_list[j]
    BY <1>1, <1>2 DEF Entry
  <2>3. QED
    BY <2>1, <2>2 DEF InUse
<1>5. \A j \in 1..Slots \ {i} : InUse(j)' <=> InUse(j)
  BY <1>4 DEF InUse
<1>6. Fresh'
  <2>1. calls \in 1..calls
    BY <1>3, InvokeAssumption DEF Calls
  <2>2. \A j \in 1..Slots : InUse(j)' => /\ to_do_list'[j].call \in 1..calls
                                         /\ ran[to_do_list'[j].call] = NotYet
    BY <1>3, <1>4, <1>5, <2>1 DEF Fresh
  <2>3. \A j, k \in 1..Slots :
           InUse(j)' /\ InUse(k)' /\ to_do_list'[j].call = to_do_list'[k].call => j = k
    BY <1>3, <1>4, <1>5 DEF Fresh
  <2>4. QED
    BY <1>2, <2>2, <2>3 DEF Fresh
<1>7. Pending' = Pending \cup {calls}
  BY <1>1, <1>4, <1>5 DEF Pending
<1>8. calls \notin Pending
  BY <1>3 DEF Pending
<1>9. Making'
  BY <1>2 DEF Making
<1>10. QED
  BY <1>2, <1>3, <1>6, <1>7, <1>8, <1>9 DEF Identity!Accept

(* One turn of the scan that calls a function: the abstract RunCall.  The  *)
(* function is that of the entry's own request because the scan meets no   *)
(* unfinished entry.                                                       *)
LEMMA ScanRunFresh ==
  ASSUME GInv, Fresh, Making, ScanRun,
         NEW k \in 1..Slots, idx = k,
         NEW c, c = to_do_list[k].call
  PROVE  /\ Fresh' /\ Making'
         /\ c \in Calls /\ Identity!RunCall(c)
<1>1. /\ InUse(k) /\ upc' = upc /\ calls' = calls /\ udelay' = udelay
      /\ to_do_list \in [1..Slots -> Entry]
      /\ to_do_list' = [to_do_list EXCEPT ![k].delay = MAX_DELAY]
      /\ ran' = [ran EXCEPT ![to_do_list[k].func] = clock]
      /\ clock \in Nat
  BY DEF ScanRun, ScanNext, GInv, Table, uiVars, historyVars
<1>2. to_do_list[k].func = c
  <2>1. spc = "scan" /\ ~Filling
    BY DEF GInv, Exclusion, Filling, ScanRun, ScanNext
  <2>2. QED
    BY <1>1, <2>1 DEF GInv, Finished
<1>3. c \in 1..calls /\ c \in Calls /\ ran[c] = NotYet
  BY <1>1, InvokeAssumption DEF Fresh, Calls
<1>4. /\ ran' \in [Calls -> Int] /\ ran'[c] # NotYet
      /\ \A d \in Calls \ {c} : ran'[d] = ran[d]
  BY <1>1, <1>2, <1>3 DEF Fresh, NotYet
<1>5. /\ ~InUse(k)'
      /\ \A j \in 1..Slots : to_do_list'[j].call = to_do_list[j].call
      /\ \A j \in 1..Slots \ {k} : InUse(j)' <=> InUse(j)
  <2>1. /\ to_do_list'[k].delay = MAX_DELAY
        /\ \A j \in 1..Slots : to_do_list'[j].call = to_do_list[j].call
        /\ \A j \in 1..Slots \ {k} : to_do_list'[j] = to_do_list[j]
    BY <1>1 DEF Entry
  <2>2. QED
    BY <2>1 DEF InUse
<1>6. \A j \in 1..Slots \ {k} : InUse(j) => to_do_list[j].call # c
  BY <1>1 DEF Fresh
<1>7. Fresh'
  <2>1. \A j \in 1..Slots : InUse(j)' => /\ to_do_list'[j].call \in 1..calls
                                         /\ to_do_list[j].call \in Calls \ {c}
                                         /\ ran[to_do_list[j].call] = NotYet
    BY <1>5, <1>6, InvokeAssumption DEF Fresh, Calls
  <2>2. \A j \in 1..Slots : InUse(j)' => ran'[to_do_list'[j].call] = NotYet
    BY <1>4, <1>5, <2>1
  <2>3. \A d \in Calls : d > calls => ran'[d] = NotYet
    BY <1>3, <1>4, InvokeAssumption DEF Fresh, Calls
  <2>4. \A j, l \in 1..Slots :
           InUse(j)' /\ InUse(l)' /\ to_do_list'[j].call = to_do_list'[l].call => j = l
    BY <1>5 DEF Fresh
  <2>5. QED
    BY <1>1, <1>4, <2>1, <2>2, <2>3, <2>4 DEF Fresh
<1>8. Making'
  <2>1. spc = "scan" /\ upc # "fill"
    BY DEF GInv, Exclusion, ScanRun, ScanNext
  <2>2. upc = "take" => ran'[calls] = NotYet
    BY <1>1, <1>4 DEF Making
  <2>3. QED
    BY <1>1, <1>5, <2>1, <2>2 DEF Making
<1>9. Pending' = Pending \ {c}
  BY <1>1, <1>5, <1>6 DEF Pending
<1>10. Done' = Done \cup {c}
  BY <1>3, <1>4 DEF Done
<1>11. c \in Pending
  BY <1>1 DEF Pending
<1>12. Identity!RunCall(c)
  BY <1>9, <1>10, <1>11 DEF Identity!RunCall, Done
<1>13. QED
  BY <1>3, <1>7, <1>8, <1>12

(* The scan starts at the first slot. *)
Walk == idx \in Nat /\ (spc = "scan" => idx >= 1)

LEMMA NextWalk == Walk /\ [Next]_vars => Walk'
<1> SUFFICES ASSUME Walk, [Next]_vars PROVE Walk'
  OBVIOUS
<1>1. CASE ServiceTakes \/ ServiceGives
  BY <1>1 DEF ServiceTakes, ServiceGives, Walk
<1>2. CASE ScanUnused \/ ScanRun \/ ScanLater
  BY <1>2 DEF ScanUnused, ScanRun, ScanLater, ScanNext, Walk
<1>3. CASE ServicePlan \/ ServiceBlock \/ ServiceReceive \/ ServiceTimeout \/ ServiceDelayed \/ ServiceDone
  BY <1>3 DEF ServicePlan, ServiceBlock, ServiceReceive, ServiceTimeout, ServiceDelayed, ServiceDone, Walk
<1>4. CASE InvokeStep \/ \E delay \in Delays : InvokeCall(delay)
  <2>1. UNCHANGED <<idx, spc>>
    BY <1>4 DEF InvokeStep, InvokeTakes, InvokeIgnored, InvokeFill, InvokeFull, InvokeAwake,
                InvokeSend, InvokeStore, InvokeCall, serviceVars
  <2>2. QED
    BY <2>1 DEF Walk
<1>5. CASE Tick \/ Post \/ UNCHANGED vars
  <2>1. UNCHANGED <<idx, spc>>
    BY <1>5 DEF Tick, Post, vars, serviceVars
  <2>2. QED
    BY <2>1 DEF Walk
<1>6. QED
  BY <1>1, <1>2, <1>3, <1>4, <1>5 DEF Next, ServiceStep

LEMMA NextFresh ==
  ASSUME GInv, Fresh, Making, Walk, [Next]_vars
  PROVE  Fresh' /\ Making' /\ [Identity!DeferredNext]_(Identity!deferredVars)
<1>t. to_do_list \in [1..Slots -> Entry] /\ (Filling => uslot \in 1..Slots)
  BY DEF GInv, Table
<1>d. (UNCHANGED <<Pending, Done>>) => UNCHANGED Identity!deferredVars
  BY DEF Done, Identity!deferredVars
<1>1. ASSUME NEW delay \in Delays, InvokeCall(delay)
      PROVE  Fresh' /\ Making' /\ UNCHANGED Identity!deferredVars
  BY <1>1, <1>d, InvokeCallFresh
<1>2. CASE InvokeFill
  <2>1. calls \in Calls
    BY <1>2 DEF InvokeFill, Making
  <2>2. QED
    BY <1>2, <2>1, InvokeFillFresh DEF Identity!DeferredNext
<1>3. CASE ScanRun
  <2>1. idx \in 1..Slots
    BY <1>3, InvokeAssumption DEF ScanRun, ScanNext, Walk
  <2>2. PICK k \in 1..Slots : idx = k
    BY <2>1
  <2>3. PICK c : c = to_do_list[k].call
    OBVIOUS
  <2>4. Fresh' /\ Making' /\ c \in Calls /\ Identity!RunCall(c)
    BY <1>3, <2>2, <2>3, ScanRunFresh
  <2>5. QED
    BY <2>4 DEF Identity!DeferredNext
<1>4. CASE InvokeStore
  <2>1. /\ to_do_list' = [to_do_list EXCEPT ![uslot].func = to_do_list[uslot].call]
        /\ upc = "store" /\ upc' = "idle" /\ UNCHANGED <<ran, calls>>
    BY <1>4 DEF InvokeStore, Returned, historyVars
  <2>2. \A i \in 1..Slots : /\ to_do_list'[i].delay = to_do_list[i].delay
                            /\ to_do_list'[i].call = to_do_list[i].call
    BY <1>t, <2>1 DEF Entry
  <2>3. \A i \in 1..Slots : InUse(i)' <=> InUse(i)
    BY <2>2 DEF InUse
  <2>4. QED
    BY <1>d, <2>1, <2>2, <2>3, CallsUntouched DEF Making
<1>5. CASE InvokeTakes \/ InvokeIgnored \/ InvokeFull \/ InvokeAwake \/ InvokeSend
  <2>1. /\ UNCHANGED <<to_do_list, ran, calls>>
        /\ \/ upc = "take" /\ upc' = "fill" /\ udelay' = udelay
           \/ upc' \in {"idle", "send", "store"}
    BY <1>5 DEF InvokeTakes, InvokeIgnored, InvokeFull, InvokeAwake, InvokeSend, Returned,
                tableVars, historyVars
  <2>2. \A i \in 1..Slots : InUse(i)' <=> InUse(i)
    BY <2>1 DEF InUse
  <2>3. Making'
    BY <2>1, <2>2 DEF Making
  <2>4. QED
    BY <1>d, <2>1, <2>2, <2>3, CallsUntouched
<1>6. CASE \/ ServicePlan \/ ServiceBlock \/ ServiceReceive \/ ServiceTimeout \/ ServiceTakes
           \/ ServiceDelayed \/ ScanUnused \/ ScanLater \/ ServiceGives \/ ServiceDone
           \/ Tick \/ Post \/ UNCHANGED vars
  <2>1. UNCHANGED <<to_do_list, ran, calls, upc, udelay>>
    BY <1>6 DEF ServicePlan, ServiceBlock, ServiceReceive, ServiceTimeout, ServiceTakes,
                ServiceDelayed, ScanNext, ScanUnused, ScanLater, ServiceGives, ServiceDone,
                Tick, Post, vars, tableVars, uiVars, historyVars
  <2>2. \A i \in 1..Slots : InUse(i)' <=> InUse(i)
    BY <2>1 DEF InUse
  <2>3. Making'
    BY <2>1, <2>2 DEF Making
  <2>4. QED
    BY <1>d, <2>1, <2>2, <2>3, CallsUntouched
<1>7. QED
  BY <1>1, <1>2, <1>3, <1>4, <1>5, <1>6 DEF Next, InvokeStep, ServiceStep

(* What runs was accepted, and runs once: Invoke implements Deferred.      *)
THEOREM ImplementsDeferred == Spec => KeepsIdentity
<1> DEFINE All == GInv /\ Fresh /\ Making /\ Walk
<1>1. Init => All /\ Identity!DeferredInit
  BY InitGInv, InitFresh DEF Init, Walk
<1>2. All /\ [Next]_vars => All' /\ [Identity!DeferredNext]_(Identity!deferredVars)
  BY NextGInv, NextFresh, NextWalk
<1> HIDE DEF All
<1>3. QED
  BY <1>1, <1>2, PTL DEF Spec, KeepsIdentity, Identity!DeferredSpec
-----------------------------------------------------------------------------
Waking == queue \in Seq({"dummy", "work"}) /\ NoLostWakeup

LEMMA NextWaking == Waking /\ [Next]_vars => Waking'
<1> SUFFICES ASSUME Waking, [Next]_vars PROVE Waking'
  OBVIOUS
<1>1. ASSUME NEW delay \in Delays, InvokeCall(delay) PROVE Waking'
  <2>1. UNCHANGED <<queue, spc, planned, awake>> /\ upc = "idle"
    BY <1>1 DEF InvokeCall, serviceVars, tableVars
  <2>2. QED
    BY <2>1 DEF Waking, NoLostWakeup
<1>2. CASE InvokeAwake
  <2>1. /\ UNCHANGED <<queue, spc, planned>> /\ upc = "awake"
        /\ upc' = "send" \/ UNCHANGED awake
    BY <1>2 DEF InvokeAwake, serviceVars
  <2>2. QED
    BY <2>1 DEF Waking, NoLostWakeup
<1>3. CASE InvokeSend
  <2>1. queue' \in Seq({"dummy", "work"}) /\ queue' # <<>>
    <3>1. CASE queue' = Append(queue, "dummy")
      BY <3>1 DEF Waking
    <3>2. CASE Len(queue) = QueueCap /\ UNCHANGED queue
      BY <3>2, InvokeAssumption DEF Waking
    <3>3. QED
      BY <1>3, <3>1, <3>2 DEF InvokeSend
  <2>2. QED
    BY <2>1 DEF Waking, NoLostWakeup
<1>4. CASE InvokeTakes \/ InvokeIgnored \/ InvokeFill \/ InvokeFull \/ InvokeStore
  <2>1. UNCHANGED <<queue, spc, planned, awake>> /\ upc # "send"
    BY <1>4 DEF InvokeTakes, InvokeIgnored, InvokeFill, InvokeFull, InvokeStore, serviceVars, tableVars
  <2>2. QED
    BY <2>1 DEF Waking, NoLostWakeup
<1>5. CASE ServicePlan
  BY <1>5 DEF ServicePlan, Waking, NoLostWakeup, tableVars, uiVars
<1>6. CASE ServiceBlock
  <2>1. UNCHANGED <<queue, planned, awake, upc>> /\ spc = "block"
    BY <1>6 DEF ServiceBlock, tableVars, uiVars
  <2>2. QED
    BY <2>1 DEF Waking, NoLostWakeup
<1>7. CASE ServiceReceive
  <2>1. spc' \notin {"block", "recv"} /\ queue # <<>> /\ queue' = Tail(queue)
    BY <1>7 DEF ServiceReceive
  <2>2. queue' \in Seq({"dummy", "work"})
    BY <2>1 DEF Waking
  <2>3. QED
    BY <2>1, <2>2 DEF Waking, NoLostWakeup
<1>8. CASE ServiceDone \/ ServiceTimeout \/ ServiceTakes \/ ServiceDelayed \/ ServiceGives
  <2>1. UNCHANGED queue /\ spc' \notin {"block", "recv"}
    BY <1>8 DEF ServiceDone, ServiceTimeout, ServiceTakes, ServiceDelayed, ServiceGives
  <2>2. QED
    BY <2>1 DEF Waking, NoLostWakeup
<1>9. CASE ScanUnused \/ ScanRun \/ ScanLater
  <2>1. UNCHANGED queue /\ spc' = "scan"
    BY <1>9 DEF ScanUnused, ScanRun, ScanLater, ScanNext
  <2>2. QED
    BY <2>1 DEF Waking, NoLostWakeup
<1>10. CASE Tick \/ UNCHANGED vars
  <2>1. UNCHANGED <<queue, spc, planned, awake, upc>>
    BY <1>10 DEF Tick, vars, serviceVars, tableVars, uiVars
  <2>2. QED
    BY <2>1 DEF Waking, NoLostWakeup
<1>11. CASE Post
  <2>1. UNCHANGED <<spc, planned, awake, upc>> /\ queue' = Append(queue, "work")
    BY <1>11 DEF Post, serviceVars, tableVars, uiVars
  <2>2. queue' \in Seq({"dummy", "work"}) /\ queue' # <<>>
    BY <2>1 DEF Waking
  <2>3. QED
    BY <2>2 DEF Waking, NoLostWakeup
<1>12. QED
  BY <1>1, <1>2, <1>3, <1>4, <1>5, <1>6, <1>7, <1>8, <1>9, <1>10, <1>11 DEF Next, InvokeStep, ServiceStep

(* The unlocked read of the wake-up time loses no announcement of invoke(),*)
(* however small the queue: a full one swallows the dummy message, but any *)
(* message makes the service read the time again.                          *)
THEOREM WakeupNotLost == Spec => []NoLostWakeup
<1>1. Init => Waking
  BY DEF Init, Waking, NoLostWakeup
<1>2. Waking => NoLostWakeup
  BY DEF Waking
<1>3. QED
  BY <1>1, <1>2, NextWaking, PTL DEF Spec
-----------------------------------------------------------------------------
(* Tick arithmetic. *)
LEMMA Ticks ==
    /\ TickMod \in Nat /\ TickMod > 0 /\ MAX_DELAY \in Nat /\ Start \in 0..MAX_DELAY
    /\ \A a \in Int : a % TickMod \in 0..MAX_DELAY
    /\ \A a \in 0..MAX_DELAY : a % TickMod = a
<1>1. TickMod \in Nat /\ TickMod > 0 /\ Start \in 0..(TickMod - 1)
  BY InvokeAssumption
<1>2. ASSUME NEW a \in Int PROVE a % TickMod \in 0..(TickMod - 1)
  BY <1>1
<1>3. ASSUME NEW a \in 0..(TickMod - 1) PROVE a % TickMod = a
  BY <1>1
<1> QED BY <1>1, <1>2, <1>3 DEF MAX_DELAY

(* The larger of two numbers is one of them.                               *)
LEMMA MaxOfTwo ==
    ASSUME NEW a \in Int, NEW b \in Int
    PROVE  Max({a, b}) = IF a >= b THEN a ELSE b
<1> DEFINE m == IF a >= b THEN a ELSE b
<1>1. m \in {a, b} /\ \A y \in {a, b} : m >= y
  OBVIOUS
<1>2. \A x \in {a, b} : (\A y \in {a, b} : x >= y) => x = m
  OBVIOUS
<1> HIDE DEF m
<1>3. Max({a, b}) = m
  BY <1>1, <1>2 DEF Max
<1> QED BY <1>3 DEF m

LEMMA InitTyped == Init => TypeOK
<1> SUFFICES ASSUME Init PROVE TypeOK
  OBVIOUS
<1>1. \A i \in 1..Slots : Unused \in [req : 0..MAX_DELAY, delay : Delays \cup {MAX_DELAY},
                                      call : 0..MaxCalls, func : 0..MaxCalls]
  BY Ticks, InvokeAssumption DEF Unused
<1>2. to_do_list \in [1..Slots -> [req : 0..MAX_DELAY, delay : Delays \cup {MAX_DELAY},
                                   call : 0..MaxCalls, func : 0..MaxCalls]]
  BY <1>1 DEF Init
<1>3. {awake, cur, planned} \subseteq 0..MAX_DELAY /\ {until, swait, uwait} \subseteq Nat
  BY Ticks DEF Init
<1>4. queue \in Seq({"dummy", "work"}) /\ Len(queue) <= QueueCap
  BY InvokeAssumption DEF Init
<1>5. due \in [Calls -> Nat \cup {NotYet}] /\ ran \in [Calls -> Nat \cup {NotYet}] /\ disturbed \subseteq Calls
  BY DEF Init
<1>6. /\ slips \in 0..MaxSlips /\ calls \in 0..MaxCalls /\ works \in 0..MaxWork
      /\ idx \in 0..(Slots + 1) /\ uslot \in 0..Slots /\ clock \in Nat
  BY InvokeAssumption DEF Init
<1> QED BY <1>2, <1>3, <1>4, <1>5, <1>6 DEF Init, TypeOK

(* A call waiting in the table is one of those made. *)
LEMMA PendingAreCalls == Fresh => Pending \subseteq Calls
<1> SUFFICES ASSUME Fresh, NEW i \in 1..Slots, InUse(i) PROVE to_do_list[i].call \in Calls
  BY DEF Pending
<1> QED BY InvokeAssumption DEF Fresh, Calls

LEMMA InvokeTyped ==
    ASSUME TypeOK, GInv, Fresh, Making, InvokeStep \/ \E delay \in Delays : InvokeCall(delay)
    PROVE  TypeOK'
<1> USE DEF timeVars, tableVars, serviceVars, uiVars, historyVars
<1>0. Returned => udelay' \in Delays \cup {0} /\ uwait' = 0 /\ uslot' \in 0..Slots /\ upc' = "idle"
  BY InvokeAssumption DEF Returned
<1>1. ASSUME NEW delay \in Delays, InvokeCall(delay) PROVE TypeOK'
  <2>1. calls' \in 0..MaxCalls /\ udelay' \in Delays /\ uwait' = 0
    BY <1>1, InvokeAssumption DEF InvokeCall, TypeOK
  <2> QED BY <1>1, <2>1 DEF InvokeCall, TypeOK
<1>2. CASE InvokeTakes
  BY <1>2 DEF InvokeTakes, TypeOK
<1>3. CASE InvokeIgnored
  BY <1>0, <1>3 DEF InvokeIgnored, TypeOK
<1>4. CASE InvokeFull
  <2>1. disturbed' \subseteq Calls
    BY <1>4, PendingAreCalls DEF InvokeFull, TypeOK
  <2> QED BY <1>0, <1>4, <2>1 DEF InvokeFull, TypeOK
<1>5. CASE InvokeFill
  <2>1. PICK i \in 1..Slots :
          /\ to_do_list' = [to_do_list EXCEPT ![i].req = Now, ![i].delay = udelay, ![i].call = calls]
          /\ uslot' = i
    BY <1>5 DEF InvokeFill
  <2>2. Now \in 0..MAX_DELAY
    BY Ticks DEF Now, TypeOK
  <2>3. udelay \in Delays /\ calls \in Calls /\ calls \in 0..MaxCalls
    BY <1>5 DEF InvokeFill, Making, TypeOK
  <2>4. to_do_list' \in [1..Slots -> [req : 0..MAX_DELAY, delay : Delays \cup {MAX_DELAY},
                                      call : 0..MaxCalls, func : 0..MaxCalls]]
    BY <2>1, <2>2, <2>3 DEF TypeOK
  <2>5. due' \in [Calls -> Nat \cup {NotYet}]
    <3>1. clock + udelay \in Nat
      BY <2>3, InvokeAssumption DEF TypeOK
    <3> QED BY <1>5, <2>3, <3>1 DEF InvokeFill, TypeOK
  <2>6. disturbed' \subseteq Calls
    BY <1>5, <2>3, PendingAreCalls DEF InvokeFill, TypeOK
  <2>7. uslot' \in 0..Slots
    BY <2>1, InvokeAssumption
  <2> QED BY <1>5, <2>4, <2>5, <2>6, <2>7 DEF InvokeFill, TypeOK
<1>6. CASE InvokeAwake
  <2>1. Plus(Now, udelay) \in 0..MAX_DELAY
    <3>1. Now \in Int /\ udelay \in Int
      BY InvokeAssumption, NowIsInt DEF TypeOK
    <3> QED BY <3>1, Ticks DEF Plus
  <2>2. awake' \in 0..MAX_DELAY /\ uwait' = 0 /\ upc' \in {"send", "store"}
    BY <1>6, <2>1 DEF InvokeAwake, TypeOK
  <2> QED BY <1>6, <2>2 DEF InvokeAwake, TypeOK
<1>7. CASE InvokeSend
  <2>1. queue' \in Seq({"dummy", "work"}) /\ Len(queue') <= QueueCap
    <3>1. CASE Len(queue) < QueueCap /\ queue' = Append(queue, "dummy")
      BY <3>1, InvokeAssumption DEF TypeOK
    <3>2. CASE UNCHANGED queue
      BY <3>2 DEF TypeOK
    <3> QED BY <1>7, <3>1, <3>2 DEF InvokeSend
  <2> QED BY <1>7, <2>1 DEF InvokeSend, TypeOK
<1>8. CASE InvokeStore
  <2>1. uslot \in 1..Slots
    BY <1>8 DEF InvokeStore, GInv, Table, Filling
  <2>2. to_do_list' \in [1..Slots -> [req : 0..MAX_DELAY, delay : Delays \cup {MAX_DELAY},
                                      call : 0..MaxCalls, func : 0..MaxCalls]]
    BY <1>8, <2>1 DEF InvokeStore, TypeOK
  <2>3. mutex' = "none" /\ upc' = "idle" /\ uwait' = 0 /\ udelay' \in Delays \cup {0} /\ uslot' \in 0..Slots
    BY <1>0, <1>8 DEF InvokeStore
  <2>4. UNCHANGED <<clock, slips, awake, queue, spc, cur, planned, until, swait, idx, calls, works, due, ran, disturbed>>
    BY <1>8 DEF InvokeStore
  <2> QED BY <2>2, <2>3, <2>4 DEF TypeOK
<1> QED BY <1>1, <1>2, <1>3, <1>4, <1>5, <1>6, <1>7, <1>8 DEF InvokeStep

LEMMA ServiceTyped ==
    ASSUME TypeOK, GInv, Fresh, Walk, ServiceStep \/ ServiceDone
    PROVE  TypeOK'
<1> USE DEF timeVars, tableVars, serviceVars, uiVars, historyVars
<1>1. Now \in 0..MAX_DELAY
  BY Ticks DEF Now, TypeOK
<1>2. CASE ServicePlan
  BY <1>1, <1>2 DEF ServicePlan, TypeOK
<1>3. CASE ServiceBlock
  <2>1. cur \in Int /\ planned \in Int /\ clock \in Nat
    BY <1>3, Ticks DEF TypeOK
  <2>2. until' = clock + (IF planned >= cur THEN planned ELSE cur) - cur
    BY <1>3, <2>1, MaxOfTwo DEF ServiceBlock
  <2>3. until' \in Nat /\ cur' \in 0..MAX_DELAY
    BY <1>3, <2>1, <2>2, Ticks DEF ServiceBlock
  <2> QED BY <1>3, <2>3 DEF ServiceBlock, TypeOK
<1>4. CASE ServiceReceive
  <2>1. queue' \in Seq({"dummy", "work"}) /\ Len(queue') <= QueueCap
    BY <1>4, InvokeAssumption DEF ServiceReceive, TypeOK
  <2>2. planned' \in 0..MAX_DELAY /\ until' \in Nat /\ swait' \in Nat /\ spc' \in {"plan", "work"}
    BY <1>4, Ticks DEF ServiceReceive
  <2> QED BY <1>4, <2>1, <2>2 DEF ServiceReceive, TypeOK
<1>5. CASE ServiceDone
  BY <1>5 DEF ServiceDone, TypeOK
<1>6. CASE ServiceTimeout
  <2>1. 0 \in 0..MAX_DELAY
    BY Ticks
  <2> QED BY <1>1, <1>6, <2>1 DEF ServiceTimeout, TypeOK
<1>7. CASE ServiceTakes
  <2>1. awake' \in 0..MAX_DELAY /\ idx' \in 0..(Slots + 1)
    BY <1>7, Ticks, InvokeAssumption DEF ServiceTakes
  <2> QED BY <1>7, <2>1 DEF ServiceTakes, TypeOK
<1>8. CASE ServiceDelayed
  <2>1. Plus(cur, Retry) \in 0..MAX_DELAY /\ 0 \in 0..MAX_DELAY
    <3>1. cur \in Int /\ Retry \in Int
      BY InvokeAssumption, Ticks DEF TypeOK
    <3> QED BY <3>1, Ticks DEF Plus
  <2> QED BY <1>8, <2>1 DEF ServiceDelayed, TypeOK
<1>9. CASE ServiceGives
  <2>1. 0 \in 0..MAX_DELAY /\ 0 \in 0..(Slots + 1)
    BY Ticks, InvokeAssumption
  <2> QED BY <1>9, <2>1 DEF ServiceGives, TypeOK
<1>10. CASE ScanUnused \/ ScanRun \/ ScanLater
  <2>1. idx \in 1..Slots /\ idx' \in 0..(Slots + 1)
    BY <1>10, InvokeAssumption DEF ScanUnused, ScanRun, ScanLater, ScanNext, Walk
  <2>2. UNCHANGED <<timeVars, mutex, queue, spc, cur, planned, until, swait, uiVars, calls, works, due, disturbed>>
    BY <1>10 DEF ScanUnused, ScanRun, ScanLater, ScanNext
  <2>3. CASE ScanUnused
    BY <2>1, <2>2, <2>3 DEF ScanUnused, TypeOK
  <2>4. CASE ScanRun
    <3>1. ran' \in [Calls -> Nat \cup {NotYet}]
      BY <2>4 DEF ScanRun, TypeOK
    <3>2. to_do_list' \in [1..Slots -> [req : 0..MAX_DELAY, delay : Delays \cup {MAX_DELAY},
                                        call : 0..MaxCalls, func : 0..MaxCalls]]
      BY <2>1, <2>4 DEF ScanRun, TypeOK
    <3> QED BY <2>1, <2>2, <2>4, <3>1, <3>2 DEF ScanRun, TypeOK
  <2>5. CASE ScanLater
    <3>1. to_do_list[idx].req \in Int /\ to_do_list[idx].delay \in Int /\ cur \in Int
      <4>1. /\ to_do_list[idx].req \in 0..MAX_DELAY /\ to_do_list[idx].delay \in Delays \cup {MAX_DELAY}
            /\ cur \in 0..MAX_DELAY
        BY <2>1 DEF TypeOK
      <4>2. Delays \subseteq Int /\ MAX_DELAY \in Int
        BY InvokeAssumption, Ticks
      <4>3. to_do_list[idx].delay \in Int
        BY <4>1, <4>2
      <4> QED BY <4>1, <4>2, <4>3
    <3>2. Plus(to_do_list[idx].req, to_do_list[idx].delay) \in Int
      BY <3>1, Ticks DEF Plus
    <3>3. awake' \in 0..MAX_DELAY
      <4>1. Minus(Plus(to_do_list[idx].req, to_do_list[idx].delay), cur) \in 0..MAX_DELAY
        BY <3>1, <3>2, Ticks DEF Minus
      <4> QED BY <2>5, <4>1 DEF ScanLater, TypeOK
    <3> QED BY <2>1, <2>2, <2>5, <3>3 DEF ScanLater, TypeOK
  <2> QED BY <1>10, <2>3, <2>4, <2>5
<1> QED BY <1>2, <1>3, <1>4, <1>5, <1>6, <1>7, <1>8, <1>9, <1>10 DEF ServiceStep

LEMMA OthersTyped ==
    ASSUME TypeOK, Fresh, Tick \/ Post \/ UNCHANGED vars
    PROVE  TypeOK'
<1> USE DEF timeVars, tableVars, serviceVars, uiVars, historyVars
<1>1. CASE Tick
  <2>1. clock' \in Nat /\ slips' \in 0..MaxSlips
    <3>1. clock' = clock + 1 /\ clock \in Nat /\ slips \in 0..MaxSlips
      BY <1>1 DEF Tick, TypeOK
    <3>2. UNCHANGED slips \/ (slips < MaxSlips /\ slips' = slips + 1)
      BY <1>1 DEF Tick
    <3> QED BY <3>1, <3>2, InvokeAssumption
  <2>2. {until', swait', uwait'} \subseteq Nat
    BY <1>1 DEF Tick, TypeOK
  <2>3. disturbed' \subseteq Calls
    BY <1>1, PendingAreCalls DEF Tick, TypeOK
  <2> QED BY <1>1, <2>1, <2>2, <2>3 DEF Tick, TypeOK
<1>2. CASE Post
  <2>1. queue' \in Seq({"dummy", "work"}) /\ Len(queue') <= QueueCap
    BY <1>2, InvokeAssumption DEF Post, TypeOK
  <2>2. works' \in 0..MaxWork
    BY <1>2, InvokeAssumption DEF Post, TypeOK
  <2> QED BY <1>2, <2>1, <2>2 DEF Post, TypeOK
<1>3. CASE UNCHANGED vars
  BY <1>3 DEF vars, TypeOK
<1> QED BY <1>1, <1>2, <1>3

(* All actions keep the types.                                             *)
LEMMA NextTyped ==
    ASSUME TypeOK, GInv, Fresh, Making, Walk, [Next]_vars
    PROVE  TypeOK'
  BY InvokeTyped, ServiceTyped, OthersTyped DEF Next

(* The queue of system_service never holds more than its length, and every *)
(* slot, time and index keeps its range: the sum of a tick and a delay     *)
(* wraps, the scan ends behind the last slot, and a slot in use has a      *)
(* delay that was asked for (app.c:336-361, 424-508).                      *)
THEOREM CallsTyped == Spec => []TypeOK
<1> DEFINE All == TypeOK /\ GInv /\ Fresh /\ Making /\ Walk
<1>1. Init => All
  BY InitTyped, InitGInv, InitFresh DEF Init, Walk
<1>2. All /\ [Next]_vars => All'
  BY NextTyped, NextGInv, NextFresh, NextWalk
<1>3. All => TypeOK
  OBVIOUS
<1> HIDE DEF All
<1> QED BY <1>1, <1>2, <1>3, PTL DEF Spec
-----------------------------------------------------------------------------
(* The tick counter has not wrapped, nor does it before a call is due. *)
Unwrapped == \A d \in Delays \cup {0} : Start + clock + d < MAX_DELAY

(* While no call is pending no wake-up time is set, and the service sleeps *)
(* without limit or is about to.                                           *)
Restful ==
    \/ \E i \in 1..Slots : InUse(i)
    \/ /\ awake = MAX_DELAY /\ spc # "take"
       /\ spc \in {"block", "recv"} => planned = MAX_DELAY

Sleeping ==
    /\ Filling => InUse(uslot)
    /\ spc = "scan" => awake = MAX_DELAY \/ \E j \in 1..Slots : j < idx /\ InUse(j)
    /\ spc = "block" => cur <= Start + clock
    /\ spc = "recv" /\ planned = MAX_DELAY => until >= MAX_DELAY - Start

(* A call that nothing disturbs is the only one; asked for at r in slot i, *)
(* it is due at t, the wake-up time is just that, and the service is on    *)
(* its way to sleep till then.                                             *)
Where(i, r, d, t) ==
    /\ r <= Start + clock /\ clock <= t
    /\ Filling => r = Start + clock /\ udelay = d
    /\ upc = "awake" => awake = MAX_DELAY
    /\ upc # "awake" /\ spc # "scan" => awake = Start + t
    /\ spc = "block" => planned = MAX_DELAY \/ (planned = Start + t /\ cur = Start + clock)
    /\ spc = "recv" => planned = MAX_DELAY \/ (planned = Start + t /\ until = t)
    /\ spc \in {"take", "scan"} => clock = t /\ cur = Start + clock
    /\ spc = "take" => swait = 0
    /\ spc = "scan" => awake = MAX_DELAY /\ idx <= i

Timed(i) ==
    LET e == to_do_list[i]
        at == due[e.call]
    IN  /\ \A j \in 1..Slots : InUse(j) => j = i
        /\ e.delay \in Delays /\ e.req + e.delay = Start + at
        /\ Where(i, e.req, e.delay, at)

Undisturbed(i) == InUse(i) /\ to_do_list[i].call \notin disturbed

Timing == Restful /\ Sleeping /\ \A i \in 1..Slots : Undisturbed(i) => Timed(i)

(* All that the steps below need to know, and keep. *)
Base == TypeOK /\ GInv /\ Fresh /\ Making /\ Walk /\ Waking /\ Unwrapped

LEMMA InTime ==
    ASSUME Base
    PROVE  /\ clock \in Nat /\ Start \in Nat /\ Start + clock < MAX_DELAY /\ Now = Start + clock
           /\ \A d \in Delays : d \in Nat /\ d > 0 /\ Start + clock + d < MAX_DELAY /\ Plus(Now, d) = Start + clock + d
<1>1. clock \in Nat /\ Start \in Nat /\ MAX_DELAY \in Nat /\ \A d \in Delays : d \in Nat /\ d > 0
  BY Ticks, InvokeAssumption DEF Base, TypeOK
<1>2. Start + clock < MAX_DELAY
  <2>1. Start + clock + 0 < MAX_DELAY
    BY DEF Base, Unwrapped
  <2> QED BY <1>1, <2>1
<1>3. Now = Start + clock
  <2>1. Start + clock \in 0..MAX_DELAY
    BY <1>1, <1>2
  <2> QED BY <2>1, Ticks DEF Now
<1>4. ASSUME NEW d \in Delays PROVE Start + clock + d < MAX_DELAY /\ Plus(Now, d) = Start + clock + d
  <2>1. Start + clock + d < MAX_DELAY
    BY DEF Base, Unwrapped
  <2>2. Start + clock + d \in 0..MAX_DELAY
    BY <1>1, <2>1
  <2> QED BY <1>3, <2>1, <2>2, Ticks DEF Plus
<1> QED BY <1>1, <1>2, <1>3, <1>4

(* A step that leaves the table alone keeps a call in its time if it keeps *)
(* the tasks where they have to be.                                        *)
LEMMA TableStays ==
    ASSUME Base, Timing, UNCHANGED due, disturbed \subseteq disturbed',
           \A j \in 1..Slots : /\ to_do_list'[j].req = to_do_list[j].req
                              /\ to_do_list'[j].delay = to_do_list[j].delay
                              /\ to_do_list'[j].call = to_do_list[j].call,
           NEW i \in 1..Slots, Undisturbed(i)',
           \A r \in Int, t \in Int, d \in Delays : r + d = Start + t /\ Where(i, r, d, t) => Where(i, r, d, t)'
    PROVE  Timed(i)'
<1> DEFINE r == to_do_list[i].req
           d == to_do_list[i].delay
           t == due[to_do_list[i].call]
<1>1. InUse(i) /\ to_do_list[i].call \notin disturbed
  BY DEF Undisturbed, InUse
<1>2. Timed(i)
  BY <1>1 DEF Timing, Undisturbed
<1>3. r \in Int /\ t \in Int
  <2>1. to_do_list[i].call \in Calls
    BY <1>1, InvokeAssumption DEF Base, Fresh, Calls
  <2> QED BY <2>1, Ticks DEF Base, TypeOK, NotYet
<1>4. (\A j \in 1..Slots : InUse(j) => j = i) /\ d \in Delays /\ r + d = Start + t /\ Where(i, r, d, t)
  BY <1>2 DEF Timed
<1>5. PICK r1 \in Int, t1 \in Int, d1 \in Delays : r1 = r /\ t1 = t /\ d1 = d
  BY <1>3, <1>4
<1>6. Where(i, r1, d1, t1)'
  <2>1. Where(i, r1, d1, t1) /\ r1 + d1 = Start + t1
    BY <1>4, <1>5
  <2> QED BY <2>1
<1>7. to_do_list'[i].req = r1 /\ to_do_list'[i].delay = d1 /\ due'[to_do_list'[i].call] = t1
  BY <1>5
<1>8. \A j \in 1..Slots : InUse(j)' => j = i
  BY <1>4 DEF InUse
<1> QED BY <1>4, <1>5, <1>6, <1>7, <1>8 DEF Timed

(* invoke() before it has a slot, and when it gives up. *)
LEMMA OutsideTimed ==
    ASSUME Base, Timing,
           InvokeTakes \/ InvokeIgnored \/ InvokeFull \/ \E delay \in Delays : InvokeCall(delay)
    PROVE  Timing'
<1>1. /\ {upc, upc'} \subseteq {"idle", "take", "fill"} /\ disturbed \subseteq disturbed'
      /\ UNCHANGED <<clock, to_do_list, awake, spc, cur, planned, until, swait, idx, due>>
  BY DEF InvokeTakes, InvokeIgnored, InvokeFull, InvokeCall, Returned, timeVars, tableVars, serviceVars, historyVars
<1>2. \A i \in 1..Slots : InUse(i)' <=> InUse(i)
  BY <1>1 DEF InUse
<1>3. Restful'
  BY <1>1, <1>2 DEF Timing, Restful
<1>4. Sleeping'
  BY <1>1, <1>2 DEF Timing, Sleeping, Filling
<1>5. ASSUME NEW i \in 1..Slots, Undisturbed(i)' PROVE Timed(i)'
  <2>1. ASSUME NEW r \in Int, NEW t \in Int, NEW d \in Delays, Where(i, r, d, t) PROVE Where(i, r, d, t)'
    BY <1>1, <2>1 DEF Where, Filling
  <2> QED BY <1>1, <1>5, <2>1, TableStays
<1> QED BY <1>3, <1>4, <1>5 DEF Timing

(* With the slot taken: the service is not in the table, and the wake-up   *)
(* time becomes that of the only call.                                     *)
LEMMA InsideTimed ==
    ASSUME Base, Timing, InvokeAwake \/ InvokeSend \/ InvokeStore
    PROVE  Timing'
<1>1. /\ Filling /\ disturbed' = disturbed /\ uslot \in 1..Slots /\ spc # "scan" /\ upc' # "awake"
      /\ UNCHANGED <<clock, spc, cur, planned, until, swait, idx, due>>
      /\ Filling' => uslot' = uslot /\ udelay' = udelay
  BY DEF InvokeAwake, InvokeSend, InvokeStore, Returned, timeVars, tableVars, serviceVars, historyVars,
         Filling, Base, GInv, Table, Exclusion
<1>2. \A j \in 1..Slots : /\ to_do_list'[j].req = to_do_list[j].req
                          /\ to_do_list'[j].delay = to_do_list[j].delay
                          /\ to_do_list'[j].call = to_do_list[j].call
  <2>1. to_do_list \in [1..Slots -> Entry]
    BY DEF Base, GInv, Table
  <2>2. CASE UNCHANGED to_do_list
    BY <2>2
  <2>3. CASE to_do_list' = [to_do_list EXCEPT ![uslot].func = to_do_list[uslot].call]
    BY <1>1, <2>1, <2>3 DEF Entry
  <2> QED BY <2>2, <2>3 DEF InvokeAwake, InvokeSend, InvokeStore, tableVars
<1>3. \A i \in 1..Slots : InUse(i)' <=> InUse(i)
  BY <1>2 DEF InUse
<1>4. InUse(uslot) /\ \E i \in 1..Slots : InUse(i)'
  BY <1>1, <1>3 DEF Timing, Sleeping
<1>5. Restful'
  BY <1>1, <1>3, <1>4 DEF Restful
<1>6. Sleeping'
  BY <1>1, <1>3, <1>4 DEF Timing, Sleeping
<1>7. ASSUME NEW i \in 1..Slots, Undisturbed(i)' PROVE Timed(i)'
  <2>1. ASSUME NEW r \in Int, NEW t \in Int, NEW d \in Delays, r + d = Start + t, Where(i, r, d, t)
        PROVE  Where(i, r, d, t)'
    <3>1. r = Start + clock /\ udelay = d /\ r <= Start + clock /\ clock <= t
      BY <1>1, <2>1 DEF Where
    <3>2. awake' = Start + t
      <4>1. CASE InvokeAwake
        <5>1. awake = MAX_DELAY /\ udelay < MAX_DELAY /\ Plus(Now, d) = Start + clock + d
          BY <2>1, <3>1, <4>1, InTime, Ticks DEF Where, InvokeAwake
        <5>2. awake' = Plus(Now, d)
          BY <3>1, <4>1, <5>1 DEF InvokeAwake
        <5> QED BY <2>1, <3>1, <5>1, <5>2, InTime
      <4>2. CASE InvokeSend \/ InvokeStore
        <5>1. awake' = awake /\ upc # "awake"
          BY <4>2 DEF InvokeSend, InvokeStore, tableVars
        <5> QED BY <1>1, <2>1, <5>1 DEF Where
      <4> QED BY <4>1, <4>2
    <3>3. Filling' => r = Start + clock' /\ udelay' = d
      BY <1>1, <3>1
    <3> QED BY <1>1, <2>1, <3>1, <3>2, <3>3 DEF Where
  <2> QED BY <1>1, <1>2, <1>7, <2>1, TableStays
<1> QED BY <1>5, <1>6, <1>7 DEF Timing

LEMMA FillTimed ==
    ASSUME Base, Timing, InvokeFill
    PROVE  Timing'
<1>1. PICK i \in 1..Slots :
        /\ ~InUse(i)
        /\ to_do_list' = [to_do_list EXCEPT ![i].req = Now, ![i].delay = udelay, ![i].call = calls]
        /\ uslot' = i
  BY DEF InvokeFill
<1>2. /\ upc = "fill" /\ upc' = "awake" /\ spc # "scan"
      /\ due' = [due EXCEPT ![calls] = clock + udelay]
      /\ UNCHANGED <<clock, awake, spc, cur, planned, until, swait, idx, udelay>>
  BY DEF InvokeFill, timeVars, serviceVars, Base, GInv, Exclusion
<1>3. calls \in Calls /\ udelay \in Delays /\ to_do_list \in [1..Slots -> Entry] /\ due \in [Calls -> Nat \cup {NotYet}]
  BY <1>2 DEF Base, Making, GInv, Table, TypeOK
<1>4. /\ to_do_list'[i].req = Now /\ to_do_list'[i].delay = udelay /\ to_do_list'[i].call = calls
      /\ \A j \in 1..Slots \ {i} : to_do_list'[j] = to_do_list[j]
  BY <1>1, <1>3 DEF Entry
<1>5. udelay \in Nat /\ udelay # MAX_DELAY /\ Now = Start + clock /\ clock \in Nat /\ Start \in Nat
  BY <1>3, InTime, Ticks
<1>6. InUse(i)' /\ \A j \in 1..Slots \ {i} : InUse(j)' <=> InUse(j)
  <2>1. to_do_list'[i].delay # MAX_DELAY
    BY <1>4, <1>5
  <2> QED BY <1>4, <2>1 DEF InUse
<1>7. Restful'
  BY <1>6 DEF Restful
<1>8. Sleeping'
  <2>1. to_do_list'[uslot'].delay # MAX_DELAY
    BY <1>1, <1>4, <1>5
  <2> QED BY <1>2, <2>1 DEF Timing, Sleeping, InUse
<1>9. ASSUME NEW k \in 1..Slots, Undisturbed(k)' PROVE Timed(k)'
  <2>1. InUse(k)' /\ to_do_list'[k].call \notin disturbed'
    BY <1>9 DEF Undisturbed
  <2>2. Pending = {}
    <3>1. SUFFICES ASSUME Pending # {} PROVE FALSE
      OBVIOUS
    <3>2. disturbed' = disturbed \cup Pending \cup {calls}
      BY <3>1 DEF InvokeFill
    <3>3. CASE k = i
      BY <1>4, <2>1, <3>2, <3>3
    <3>4. CASE k # i
      BY <1>4, <1>6, <2>1, <3>2, <3>4 DEF Pending
    <3> QED BY <3>3, <3>4
  <2>3. \A j \in 1..Slots : ~InUse(j)
    BY <2>2 DEF Pending
  <2>4. k = i /\ \A j \in 1..Slots : InUse(j)' => j = i
    BY <1>6, <2>1, <2>3
  <2>5. awake = MAX_DELAY /\ spc # "take" /\ (spc \in {"block", "recv"} => planned = MAX_DELAY)
    BY <2>3 DEF Timing, Restful
  <2>6. due'[calls] = clock + udelay
    BY <1>2, <1>3
  <2>7. PICK r \in Int, t \in Int, d \in Delays : r = Now /\ t = clock + udelay /\ d = udelay
    BY <1>3, <1>5
  <2>8. Where(k, r, d, t)'
    <3>1. r <= Start + clock' /\ clock' <= t /\ r = Start + clock' /\ udelay' = d
      BY <1>2, <1>5, <2>7
    <3> QED BY <1>2, <2>5, <3>1 DEF Where
  <2>9. r + d = Start + t
    BY <1>5, <2>7
  <2>10. to_do_list'[k].req = r /\ to_do_list'[k].delay = d /\ due'[to_do_list'[k].call] = t
    BY <1>4, <2>4, <2>6, <2>7
  <2> QED BY <2>4, <2>8, <2>9, <2>10 DEF Timed
<1> QED BY <1>7, <1>8, <1>9 DEF Timing

(* The service on its way to its receive and out of it. *)
LEMMA SleepTimed ==
    ASSUME Base, Timing,
           ServicePlan \/ ServiceBlock \/ ServiceReceive \/ ServiceDone \/ ServiceTimeout
    PROVE  Timing'
<1> USE DEF timeVars, tableVars, uiVars, historyVars
<1>1. UNCHANGED <<clock, to_do_list, awake, mutex, uslot, upc, udelay, due, disturbed, idx>> /\ spc' # "scan" /\ spc # "scan"
  BY DEF ServicePlan, ServiceBlock, ServiceReceive, ServiceDone, ServiceTimeout
<1>2. \A i \in 1..Slots : InUse(i)' <=> InUse(i)
  BY <1>1 DEF InUse
<1>3. clock \in Nat /\ Start \in Nat /\ Start + clock < MAX_DELAY /\ Now = Start + clock /\ MAX_DELAY \in Nat
      /\ cur \in Int /\ planned \in Int
  BY InTime, Ticks DEF Base, TypeOK
<1>4. ServiceBlock => until' = clock + (IF planned >= cur THEN planned ELSE cur) - cur
  BY <1>3, MaxOfTwo DEF ServiceBlock
<1>5. ServiceTimeout => planned # MAX_DELAY
  <2>1. SUFFICES ASSUME ServiceTimeout, planned = MAX_DELAY PROVE FALSE
    OBVIOUS
  <2>2. until >= MAX_DELAY - Start /\ clock >= until /\ until \in Nat
    BY <2>1 DEF Timing, Sleeping, ServiceTimeout, Base, TypeOK
  <2> QED BY <1>3, <2>2
<1>6. Restful'
  <2>1. CASE \E i \in 1..Slots : InUse(i)
    BY <1>2, <2>1 DEF Restful
  <2>2. CASE /\ awake = MAX_DELAY /\ spc # "take"
             /\ spc \in {"block", "recv"} => planned = MAX_DELAY
    <3>1. awake' = MAX_DELAY /\ spc' # "take" /\ (spc' \in {"block", "recv"} => planned' = MAX_DELAY)
      BY <1>1, <1>5, <2>2 DEF ServicePlan, ServiceBlock, ServiceReceive, ServiceDone, ServiceTimeout
    <3> QED BY <3>1 DEF Restful
  <2> QED BY <2>1, <2>2 DEF Timing, Restful
<1>7. Sleeping'
  <2>1. Filling' => InUse(uslot)'
    BY <1>1 DEF Timing, Sleeping, Filling, InUse
  <2>2. spc' = "block" => cur' <= Start + clock'
    <3>1. spc' = "block" => ServicePlan
      BY DEF ServicePlan, ServiceBlock, ServiceReceive, ServiceDone, ServiceTimeout
    <3> QED BY <1>1, <1>3, <3>1 DEF ServicePlan
  <2>3. spc' = "recv" /\ planned' = MAX_DELAY => until' >= MAX_DELAY - Start
    <3>1. SUFFICES ASSUME spc' = "recv", planned' = MAX_DELAY PROVE until' >= MAX_DELAY - Start
      OBVIOUS
    <3>2. ServiceBlock /\ planned = MAX_DELAY
      BY <3>1 DEF ServicePlan, ServiceBlock, ServiceReceive, ServiceDone, ServiceTimeout
    <3>3. cur <= Start + clock
      BY <3>2 DEF ServiceBlock, Timing, Sleeping
    <3> QED BY <1>3, <1>4, <3>2, <3>3
  <2> QED BY <1>1, <2>1, <2>2, <2>3 DEF Sleeping
<1>8. ASSUME NEW i \in 1..Slots, Undisturbed(i)' PROVE Timed(i)'
  <2>1. ASSUME NEW r \in Int, NEW t \in Int, NEW d \in Delays, r + d = Start + t, Where(i, r, d, t)
        PROVE  Where(i, r, d, t)'
    <3>1. /\ r <= Start + clock' /\ clock' <= t
          /\ Filling' => r = Start + clock' /\ udelay' = d
          /\ upc' = "awake" => awake' = MAX_DELAY
          /\ upc' # "awake" => awake' = Start + t
      BY <1>1, <2>1 DEF Where, Filling
    <3>2. CASE ServicePlan
      <4>1. planned' = awake /\ cur' = Start + clock' /\ spc' = "block"
        BY <1>1, <1>3, <3>2 DEF ServicePlan
      <4> QED BY <1>1, <3>1, <4>1 DEF Where
    <3>3. CASE ServiceBlock
      <4>1. planned = MAX_DELAY \/ (planned = Start + t /\ cur = Start + clock)
        BY <2>1, <3>3 DEF Where, ServiceBlock
      <4>2. planned = MAX_DELAY \/ until' = t
        BY <1>1, <1>3, <1>4, <3>1, <3>3, <4>1
      <4>3. planned' = planned /\ spc' = "recv"
        BY <3>3 DEF ServiceBlock
      <4> QED BY <3>1, <4>1, <4>2, <4>3 DEF Where
    <3>4. CASE ServiceReceive \/ ServiceDone
      <4>1. spc' \in {"plan", "work"}
        BY <3>4 DEF ServiceReceive, ServiceDone
      <4> QED BY <3>1, <4>1 DEF Where
    <3>5. CASE ServiceTimeout
      <4>1. spc' = "take" /\ swait' = 0 /\ cur' = Start + clock' /\ clock >= until
        BY <1>1, <1>3, <3>5 DEF ServiceTimeout
      <4>2. until = t
        BY <1>5, <2>1, <3>5 DEF Where, ServiceTimeout
      <4>3. clock' = t
        BY <1>1, <1>3, <3>1, <4>1, <4>2
      <4> QED BY <3>1, <4>1, <4>3 DEF Where
    <3> QED BY <3>2, <3>3, <3>4, <3>5
  <2> QED BY <1>1, <1>8, <2>1, TableStays
<1> QED BY <1>6, <1>7, <1>8 DEF Timing

(* The scan: at the tick the only call is due, its slot is the only one it *)
(* finds, and it is due by the wrapped difference of the two times.        *)
LEMMA DueInScan ==
    ASSUME Base, Timing, spc = "scan", NEW i \in 1..Slots, Undisturbed(i)
    PROVE  /\ \A j \in 1..Slots : InUse(j) => j = i
           /\ IsTime(i) /\ clock = due[to_do_list[i].call] /\ idx <= i
<1> DEFINE r == to_do_list[i].req
           d == to_do_list[i].delay
           t == due[to_do_list[i].call]
<1>1. (\A j \in 1..Slots : InUse(j) => j = i) /\ d \in Delays /\ r + d = Start + t /\ Where(i, r, d, t)
  BY DEF Timing, Timed
<1>2. clock = t /\ cur = Start + clock /\ idx <= i
  BY <1>1 DEF Where
<1>3. r \in Int /\ d \in 0..MAX_DELAY /\ clock \in Int /\ Start \in Int
  <2>1. r \in 0..MAX_DELAY
    BY DEF Base, TypeOK
  <2>2. d \in Nat /\ d < MAX_DELAY
    BY <1>1, InTime, Ticks
  <2> QED BY <2>1, <2>2, InTime, Ticks
<1>4. cur - r = d
  BY <1>1, <1>2, <1>3
<1>5. Minus(cur, r) = d
  BY <1>3, <1>4, Ticks DEF Minus
<1>6. IsTime(i)
  BY <1>3, <1>5 DEF IsTime
<1> QED BY <1>1, <1>2, <1>6

LEMMA ScanTimed ==
    ASSUME Base, Timing, ServiceTakes \/ ServiceDelayed \/ ScanUnused \/ ScanLater \/ ServiceGives
    PROVE  Timing'
<1> USE DEF timeVars, tableVars, uiVars, historyVars
<1>1. UNCHANGED <<clock, to_do_list, uslot, upc, udelay, due, disturbed>>
  BY DEF ServiceTakes, ServiceDelayed, ScanUnused, ScanLater, ScanNext, ServiceGives
<1>2. \A i \in 1..Slots : InUse(i)' <=> InUse(i)
  BY <1>1 DEF InUse
<1>3. Filling' => InUse(uslot)'
  BY <1>1 DEF Timing, Sleeping, Filling, InUse
<1>4. CASE ServiceTakes
  <2>1. spc = "take" /\ spc' = "scan" /\ idx' = 1 /\ awake' = MAX_DELAY /\ cur' = cur /\ ~Filling
    BY <1>4 DEF ServiceTakes, Base, GInv, Exclusion, Filling
  <2>2. Restful' /\ Sleeping'
    BY <1>3, <2>1 DEF Restful, Sleeping
  <2>3. ASSUME NEW i \in 1..Slots, Undisturbed(i)' PROVE Timed(i)'
    <3>1. ASSUME NEW r \in Int, NEW t \in Int, NEW d \in Delays, Where(i, r, d, t) PROVE Where(i, r, d, t)'
      BY <1>1, <2>1, <3>1 DEF Where, Filling
    <3> QED BY <1>1, <2>3, <3>1, TableStays
  <2> QED BY <2>2, <2>3 DEF Timing
<1>5. CASE ServiceDelayed
  <2>1. spc = "take" /\ spc' = "plan" /\ swait > 0
    BY <1>5, InvokeAssumption DEF ServiceDelayed, Base, TypeOK
  <2>2. Restful'
    BY <1>2, <2>1 DEF Timing, Restful
  <2>3. Sleeping'
    BY <1>3, <2>1 DEF Sleeping
  <2>4. ASSUME NEW i \in 1..Slots, Undisturbed(i)' PROVE FALSE
    <3>1. Timed(i)
      BY <1>1, <2>4 DEF Timing, Undisturbed, InUse
    <3> QED BY <2>1, <3>1 DEF Timed, Where
  <2> QED BY <2>2, <2>3, <2>4 DEF Timing
<1>6. CASE ScanUnused \/ ScanLater
  <2>1. /\ spc = "scan" /\ spc' = "scan" /\ cur' = cur /\ idx' = idx + 1 /\ idx \in 1..Slots
    BY <1>6, InvokeAssumption DEF ScanUnused, ScanLater, ScanNext, Base, Walk
  <2>2. awake' = awake \/ InUse(idx)
    BY <1>6 DEF ScanUnused, ScanLater
  <2>3. Restful'
    BY <1>2, <2>1, <2>2 DEF Timing, Restful
  <2>4. Sleeping'
    <3>1. awake' = MAX_DELAY \/ \E j \in 1..Slots : j < idx + 1 /\ InUse(j)
      BY <2>1, <2>2 DEF Timing, Sleeping
    <3>2. awake' = MAX_DELAY \/ \E j \in 1..Slots : j < idx' /\ InUse(j)'
      BY <1>2, <2>1, <3>1
    <3> QED BY <1>3, <2>1, <3>2 DEF Sleeping
  <2>5. ASSUME NEW i \in 1..Slots, Undisturbed(i)' PROVE Timed(i)'
    <3>1. Undisturbed(i)
      BY <1>1, <2>5 DEF Undisturbed, InUse
    <3>2. (InUse(idx) => idx = i) /\ IsTime(i) /\ idx <= i
      BY <2>1, <3>1, DueInScan
    <3>3. ~InUse(idx) /\ awake' = awake
      BY <1>6, <3>2 DEF ScanUnused, ScanLater
    <3>4. idx' <= i
      BY <2>1, <3>1, <3>2, <3>3 DEF Undisturbed
    <3>5. ASSUME NEW r \in Int, NEW t \in Int, NEW d \in Delays, Where(i, r, d, t) PROVE Where(i, r, d, t)'
      BY <1>1, <2>1, <3>3, <3>4, <3>5 DEF Where, Filling
    <3> QED BY <1>1, <2>5, <3>5, TableStays
  <2> QED BY <2>3, <2>4, <2>5 DEF Timing
<1>7. CASE ServiceGives
  <2>1. spc = "scan" /\ spc' = "plan" /\ awake' = awake /\ idx > Slots /\ idx \in Nat
    BY <1>7 DEF ServiceGives, Base, Walk
  <2>2. Restful' /\ Sleeping'
    <3>1. Restful'
      BY <1>2, <2>1 DEF Timing, Restful
    <3> QED BY <1>3, <2>1, <3>1 DEF Sleeping
  <2>3. ASSUME NEW i \in 1..Slots, Undisturbed(i)' PROVE FALSE
    <3>1. Undisturbed(i)
      BY <1>1, <2>3 DEF Undisturbed, InUse
    <3>2. idx <= i
      BY <2>1, <3>1, DueInScan
    <3> QED BY <2>1, <3>2, InvokeAssumption
  <2> QED BY <2>2, <2>3 DEF Timing
<1> QED BY <1>4, <1>5, <1>6, <1>7

LEMMA RunTimed ==
    ASSUME Base, Timing, UndisturbedOnTime, ScanRun
    PROVE  Timing' /\ UndisturbedOnTime'
<1> USE DEF timeVars, uiVars
<1>1. /\ UNCHANGED <<clock, awake, uslot, upc, due, disturbed>> /\ spc = "scan" /\ spc' = "scan"
      /\ idx' = idx + 1 /\ idx \in 1..Slots /\ InUse(idx) /\ ~Filling /\ ~Filling'
      /\ to_do_list \in [1..Slots -> Entry]
      /\ to_do_list' = [to_do_list EXCEPT ![idx].delay = MAX_DELAY]
      /\ ran' = [ran EXCEPT ![to_do_list[idx].func] = clock]
  BY InvokeAssumption DEF ScanRun, ScanNext, Base, Walk, GInv, Exclusion, Table, Filling
<1>2. /\ to_do_list'[idx].delay = MAX_DELAY
      /\ \A j \in 1..Slots \ {idx} : to_do_list'[j] = to_do_list[j]
  BY <1>1 DEF Entry
<1>3. \A j \in 1..Slots : InUse(j)' <=> InUse(j) /\ j # idx
  BY <1>2 DEF InUse
<1>4. awake' = MAX_DELAY \/ \E j \in 1..Slots : j < idx' /\ InUse(j)'
  <2>1. awake = MAX_DELAY \/ \E j \in 1..Slots : j < idx /\ InUse(j)
    BY <1>1 DEF Timing, Sleeping
  <2>2. ASSUME NEW j \in 1..Slots, j < idx, InUse(j) PROVE j < idx' /\ InUse(j)'
    BY <1>1, <1>3, <2>2
  <2> QED BY <1>1, <2>1, <2>2
<1>5. Restful' /\ Sleeping'
  BY <1>1, <1>4 DEF Restful, Sleeping
<1>6. ASSUME NEW i \in 1..Slots, Undisturbed(i)' PROVE FALSE
  <2>1. InUse(i) /\ i # idx /\ to_do_list'[i] = to_do_list[i]
    BY <1>2, <1>3, <1>6 DEF Undisturbed
  <2>2. Undisturbed(i)
    BY <1>1, <1>6, <2>1 DEF Undisturbed
  <2> QED BY <1>1, <2>1, <2>2, DueInScan
<1>7. UndisturbedOnTime'
  <2> DEFINE c == to_do_list[idx].call
  <2>1. to_do_list[idx].func = c
    BY <1>1 DEF Base, GInv, Finished
  <2>2. c \notin disturbed => clock = due[c]
    BY <1>1, DueInScan DEF Undisturbed
  <2>3. ran' = [ran EXCEPT ![c] = clock] /\ ran \in [Calls -> Int]
    BY <1>1, <2>1 DEF Base, Fresh
  <2> HIDE DEF c
  <2>4. ASSUME NEW b \in Calls, b \notin disturbed', ran'[b] # NotYet PROVE ran'[b] = due'[b]
    <3>1. CASE b = c
      BY <1>1, <2>2, <2>3, <2>4, <3>1
    <3>2. CASE b # c
      BY <1>1, <2>3, <2>4, <3>2 DEF UndisturbedOnTime
    <3> QED BY <3>1, <3>2
  <2> QED BY <2>4 DEF UndisturbedOnTime
<1> QED BY <1>5, <1>6, <1>7 DEF Timing

(* A tick disturbs what is pending, unless the service sleeps till a time  *)
(* that has not come: it cannot be sleeping without limit, since then the  *)
(* message of invoke() would be in its queue.                              *)
LEMMA TickTimed ==
    ASSUME Base, Timing, Tick \/ Post \/ UNCHANGED vars
    PROVE  Timing'
<1> USE DEF timeVars, tableVars, serviceVars, uiVars, historyVars
<1>1. /\ UNCHANGED <<to_do_list, awake, spc, cur, planned, until, idx, upc, udelay, uslot, due>>
      /\ disturbed \subseteq disturbed'
  BY DEF Tick, Post, vars
<1>2. \A i \in 1..Slots : InUse(i)' <=> InUse(i)
  BY <1>1 DEF InUse
<1>3. clock \in Nat /\ Start \in Nat /\ cur \in Int /\ clock' \in {clock, clock + 1}
  BY InTime, Ticks DEF Base, TypeOK, Tick, Post, vars
<1>4. Restful'
  BY <1>1, <1>2 DEF Timing, Restful
<1>5. Sleeping'
  <2>1. Filling' => InUse(uslot)'
    BY <1>1 DEF Timing, Sleeping, Filling, InUse
  <2>2. spc = "block" => cur <= Start + clock'
    <3>1. spc = "block" => cur <= Start + clock
      BY DEF Timing, Sleeping
    <3>2. clock' = clock \/ clock' = clock + 1
      BY <1>3
    <3>3. CASE clock' = clock
      BY <3>1, <3>3
    <3>4. CASE clock' = clock + 1
      BY <1>3, <3>1, <3>4
    <3> QED BY <3>2, <3>3, <3>4
  <2>3. spc' = "scan" => awake' = MAX_DELAY \/ \E j \in 1..Slots : j < idx' /\ InUse(j)'
    BY <1>1, <1>2 DEF Timing, Sleeping
  <2>4. spc' = "recv" /\ planned' = MAX_DELAY => until' >= MAX_DELAY - Start
    BY <1>1 DEF Timing, Sleeping
  <2> QED BY <1>1, <2>1, <2>2, <2>3, <2>4 DEF Sleeping
<1>6. CASE Post \/ UNCHANGED vars
  <2>1. ASSUME NEW i \in 1..Slots, Undisturbed(i)' PROVE Timed(i)'
    <3>1. UNCHANGED <<clock, swait>>
      BY <1>6 DEF Post, vars
    <3>2. ASSUME NEW r \in Int, NEW t \in Int, NEW d \in Delays, Where(i, r, d, t) PROVE Where(i, r, d, t)'
      BY <1>1, <3>1, <3>2 DEF Where, Filling
    <3> QED BY <1>1, <2>1, <3>2, TableStays
  <2> QED BY <1>4, <1>5, <2>1 DEF Timing
<1>7. CASE Tick
  <2>1. ASSUME NEW i \in 1..Slots, Undisturbed(i)' PROVE Timed(i)'
    <3>1. InUse(i) /\ to_do_list[i].call \in Pending /\ to_do_list[i].call \notin disturbed'
      BY <1>1, <1>2, <2>1 DEF Undisturbed, Pending
    <3>2. spc = "recv" /\ slips' = slips /\ slips \in Int
      BY <1>7, <3>1 DEF Tick, Base, TypeOK
    <3>3. ServiceBlocked /\ InvokeBlocked
      BY <1>7, <3>2 DEF Tick
    <3>4. queue = <<>> /\ clock < until /\ upc # "send" /\ ~Filling
      BY <3>2, <3>3, InvokeAssumption DEF ServiceBlocked, InvokeBlocked, Filling
    <3>5. until \in Nat
      BY DEF Base, TypeOK
    <3>6. ASSUME NEW r \in Int, NEW t \in Int, NEW d \in Delays, r + d = Start + t, Where(i, r, d, t)
          PROVE  Where(i, r, d, t)'
      <4>1. r <= Start + clock /\ clock <= t /\ awake = Start + t /\ (planned = MAX_DELAY \/ until = t)
        BY <3>2, <3>4, <3>6 DEF Where, Filling
      <4>2. Start + t < MAX_DELAY
        BY <1>3, <3>6, <4>1, InTime, Ticks
      <4>3. planned = awake
        BY <3>2, <3>4 DEF Base, Waking, NoLostWakeup
      <4>4. until = t
        BY <4>1, <4>2, <4>3, Ticks
      <4>5. r <= Start + clock' /\ clock' <= t
        <5>1. clock' = clock + 1
          BY <1>7 DEF Tick
        <5> QED BY <1>3, <3>4, <3>5, <3>6, <4>1, <4>4, <5>1
      <4> QED BY <1>1, <3>2, <3>4, <4>1, <4>3, <4>4, <4>5 DEF Where, Filling
    <3> QED BY <1>1, <2>1, <3>6, TableStays
  <2> QED BY <1>4, <1>5, <2>1 DEF Timing
<1> QED BY <1>6, <1>7

(* Only the scan runs a call, and a call gets its time before it ran. *)
LEMMA RecordStays ==
    ASSUME Base, UndisturbedOnTime, [Next]_vars, ~ScanRun
    PROVE  UndisturbedOnTime'
<1> USE DEF timeVars, tableVars, serviceVars, uiVars, historyVars
<1>1. CASE InvokeFill
  <2>1. /\ calls \in Calls /\ ran[calls] = NotYet /\ ran' = ran /\ disturbed \subseteq disturbed'
        /\ due' = [due EXCEPT ![calls] = clock + udelay] /\ due \in [Calls -> Nat \cup {NotYet}]
    BY <1>1 DEF InvokeFill, Base, Making, TypeOK
  <2>2. \A c \in Calls \ {calls} : due'[c] = due[c]
    BY <2>1
  <2> QED BY <2>1, <2>2 DEF UndisturbedOnTime
<1>2. CASE ~InvokeFill
  <2>1. UNCHANGED <<ran, due>> /\ disturbed \subseteq disturbed'
    BY <1>2 DEF Next, InvokeStep, ServiceStep, InvokeTakes, InvokeIgnored, InvokeFull, InvokeAwake, InvokeSend,
                InvokeStore, InvokeCall, ServicePlan, ServiceBlock, ServiceReceive, ServiceTimeout, ServiceTakes,
                ServiceDelayed, ScanUnused, ScanLater, ScanNext, ServiceGives, ServiceDone, Tick, Post, vars
  <2> QED BY <2>1 DEF UndisturbedOnTime
<1> QED BY <1>1, <1>2

(* All actions keep the timing, as long as no wake-up time wraps.          *)
LEMMA NextTimed ==
    ASSUME Base, Timing, UndisturbedOnTime, [Next]_vars
    PROVE  Timing' /\ UndisturbedOnTime'
<1>1. CASE ScanRun
  BY <1>1, RunTimed
<1>2. CASE ~ScanRun
  <2>1. Timing'
    BY <1>2, OutsideTimed, InsideTimed, FillTimed, SleepTimed, ScanTimed, TickTimed DEF Next, InvokeStep, ServiceStep
  <2> QED BY <1>2, <2>1, RecordStays
<1> QED BY <1>1, <1>2

LEMMA InitTimed == Init => Timing /\ UndisturbedOnTime
<1> SUFFICES ASSUME Init PROVE Timing /\ UndisturbedOnTime
  OBVIOUS
<1>1. \A i \in 1..Slots : ~InUse(i)
  BY DEF Init, InUse, Unused
<1>2. Restful /\ Sleeping
  BY DEF Init, Restful, Sleeping, Filling
<1>3. UndisturbedOnTime
  BY DEF Init, UndisturbedOnTime
<1> QED BY <1>1, <1>2, <1>3 DEF Timing, Undisturbed

(* Before a step that is in time it was in time, for the clock never goes  *)
(* back.                                                                   *)
LEMMA WasUnwrapped ==
    ASSUME TypeOK, [Next]_vars, Unwrapped'
    PROVE  Unwrapped
<1>1. clock \in Nat /\ clock' \in {clock, clock + 1}
  BY DEF TypeOK, Next, InvokeStep, ServiceStep, InvokeTakes, InvokeIgnored, InvokeFull, InvokeFill, InvokeAwake,
         InvokeSend, InvokeStore, InvokeCall, ServicePlan, ServiceBlock, ServiceReceive, ServiceTimeout, ServiceTakes,
         ServiceDelayed, ScanUnused, ScanLater, ScanRun, ScanNext, ServiceGives, ServiceDone, Tick, Post, vars,
         timeVars, tableVars, serviceVars, uiVars, historyVars
<1>2. clock <= clock'
  BY <1>1
<1>3. \A d \in Delays \cup {0} : d \in Nat
  BY InvokeAssumption
<1>4. Start \in Nat /\ MAX_DELAY \in Int
  BY InvokeAssumption DEF MAX_DELAY
<1>5. \A d \in Delays \cup {0} : Start + clock' + d < MAX_DELAY
  BY DEF Unwrapped, MAX_DELAY
<1>6. ASSUME NEW d \in Delays \cup {0} PROVE Start + clock + d < MAX_DELAY
  <2>1. Start + clock' + d < MAX_DELAY /\ d \in Nat /\ clock' \in Nat
    BY <1>1, <1>3, <1>5
  <2>2. \A k, m \in Nat, n \in Nat : k <= m /\ Start + m + n < MAX_DELAY => Start + k + n < MAX_DELAY
    BY <1>4
  <2> QED BY <1>1, <1>2, <2>1, <2>2
<1> QED BY <1>6 DEF Unwrapped

(* A call that no other call overlaps, that no tick interrupts and whose   *)
(* service is not busy runs at the very tick it is due, as long as the     *)
(* counter of ticks has not wrapped, which it does after 2^32 of them      *)
(* (app.c:359-360, 433-446, 486-492).                                      *)
THEOREM RunsOnTime == Spec => [](Unwrapped => UndisturbedOnTime)
<1> DEFINE Always == TypeOK /\ GInv /\ Fresh /\ Making /\ Walk /\ Waking
           OnTime == Unwrapped => Timing /\ UndisturbedOnTime
<1>1. Init => Always /\ OnTime
  BY InitTyped, InitGInv, InitFresh, InitTimed DEF Init, Walk, Waking, NoLostWakeup
<1>2. Always /\ [Next]_vars => Always'
  BY NextTyped, NextGInv, NextFresh, NextWalk, NextWaking
<1>3. ASSUME Always, OnTime, [Next]_vars PROVE OnTime'
  <2>1. SUFFICES ASSUME Unwrapped' PROVE Timing' /\ UndisturbedOnTime'
    OBVIOUS
  <2>2. Unwrapped
    BY <1>3, <2>1, WasUnwrapped
  <2>3. Base /\ Timing /\ UndisturbedOnTime
    BY <1>3, <2>2 DEF Base
  <2> QED BY <1>3, <2>3, NextTimed
<1>4. OnTime => (Unwrapped => UndisturbedOnTime)
  OBVIOUS
<1> HIDE DEF Always, OnTime
<1> QED BY <1>1, <1>2, <1>3, <1>4, PTL DEF Spec
=============================================================================
