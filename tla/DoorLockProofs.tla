--------------------------- MODULE DoorLockProofs ---------------------------
(***************************************************************************)
(* What door_lock_task guarantees for every countdown, beat, publish limit *)
(* and queue size.  The induction is over one invariant, IInv: how the     *)
(* countdown, the leds and the heart beat agree at each of the two blocking*)
(* points, and how the time since the last grant is bracketed by the       *)
(* seconds already counted off.                                            *)
(***************************************************************************)
EXTENDS DoorLock, TLAPS

(* Time accounted for when c seconds remain and each counted one took k    *)
(* ticks, and the time n restarted beats may have lost.  Both are products *)
(* of two unknowns: the proofs use them through the lemmas below only.     *)
Spent(c, k) == (RelockSecs - c) * k
Lost(n) == n * SecTicks

Waiting ==
    /\ event = "NONE"
    /\ waited <= SecTicks
    /\ green <=> beat
    /\ green <=> cnt > 0
    /\ beat => /\ since >= Spent(cnt, SecTicks) + waited
               /\ since <= Spent(cnt, SecTicks + SendTicks)
                             + Lost(ignored) + waited + SendTicks

Sending ==
    /\ event # "NONE"
    /\ waited <= SendTicks
    /\ event = "UNLOCK" => green /\ ignored = 0 /\ since <= waited
    /\ event = "UNLOCKED" =>
          /\ green /\ beat /\ cnt > 0
          /\ since >= Spent(cnt, SecTicks)
          /\ since <= Spent(cnt, SecTicks + SendTicks) + Lost(ignored) + waited
    /\ event = "RELOCK" => ~green /\ cnt = 0

IInv ==
    /\ TypeOK
    /\ red <=> ~green
    /\ pc = "recv" => Waiting
    /\ pc = "send" => Sending
-----------------------------------------------------------------------------
(* One second less on the countdown is one more k accounted for. *)
LEMMA SpentStep ==
    ASSUME NEW c \in Int, NEW k \in Int
    PROVE  /\ Spent(c, k) \in Int
           /\ Spent(c - 1, k) = Spent(c, k) + k
<1>1. (RelockSecs - c) \in Int
  BY DoorLockAssumption
<1>2. \A d \in Int : (d + 1) * k = d * k + k
  OBVIOUS
<1>3. RelockSecs - (c - 1) = (RelockSecs - c) + 1
  BY DoorLockAssumption
<1>4. QED
  BY <1>1, <1>2, <1>3 DEF Spent

(* Nothing is accounted for at the start of a countdown, all at its end. *)
LEMMA SpentEnds ==
    ASSUME NEW k \in Int
    PROVE  Spent(RelockSecs, k) = 0 /\ Spent(0, k) = RelockSecs * k
<1>1. RelockSecs - RelockSecs = 0 /\ RelockSecs - 0 = RelockSecs
  BY DoorLockAssumption
<1>2. 0 * k = 0
  OBVIOUS
<1>3. QED
  BY <1>1, <1>2 DEF Spent

(* With at least one second left, at least one k is not accounted for. *)
LEMMA SpentBefore ==
    ASSUME NEW c \in Int, c >= 1, NEW k \in Nat
    PROVE  Spent(c, k) + k <= RelockSecs * k
<1>1. \A d \in Nat : d * k >= 0
  OBVIOUS
<1>2. (c - 1) * k >= 0
  BY <1>1
<1>3. (RelockSecs - c) * k + k = RelockSecs * k - (c - 1) * k
  BY DoorLockAssumption
<1>4. RelockSecs * k \in Int /\ (c - 1) * k \in Int
  BY DoorLockAssumption
<1>5. QED
  BY <1>2, <1>3, <1>4 DEF Spent

(* Each ignored message may cost one beat. *)
LEMMA LostStep ==
    ASSUME NEW n \in Nat
    PROVE  Lost(n) \in Nat /\ Lost(n + 1) = Lost(n) + SecTicks /\ Lost(0) = 0
<1>1. \A s \in Nat : n * s \in Nat /\ (n + 1) * s = n * s + s /\ 0 * s = 0
  OBVIOUS
<1>2. QED
  BY <1>1, DoorLockAssumption DEF Lost
-----------------------------------------------------------------------------
LEMMA InitIInv == Init => IInv
<1> SUFFICES ASSUME Init PROVE IInv
  OBVIOUS
<1>1. inbox \in Seq(FrontByte) /\ Len(inbox) = 0
  BY DEF Init
<1>2. TypeOK
  <2>1. 0 \in 0..RelockSecs /\ 0 \in 0..MaxMsgs /\ 0 <= InboxCap
    BY DoorLockAssumption
  <2>2. QED
    BY <1>1, <2>1 DEF Init, TypeOK, Events
<1>3. Waiting
  BY DoorLockAssumption DEF Init, Waiting
<1>4. QED
  BY <1>2, <1>3 DEF Init, IInv

(* Every step of the task, of time and of the other tasks keeps IInv. *)
LEMMA NextIInv == IInv /\ [Next]_vars => IInv'
<1> SUFFICES ASSUME IInv, [Next]_vars PROVE IInv'
  OBVIOUS
<1> USE DoorLockAssumption
<1>0. TypeOK /\ SecTicks \in Nat /\ SendTicks \in Nat /\ (SecTicks + SendTicks) \in Nat
  BY DEF IInv
<1>t. /\ cnt \in Int /\ 0 <= cnt /\ cnt <= RelockSecs
      /\ waited \in Nat /\ since \in Nat /\ ignored \in Nat
  BY <1>0 DEF TypeOK
<1>s. /\ Spent(cnt, SecTicks) \in Int
      /\ Spent(cnt, SecTicks + SendTicks) \in Int
      /\ Lost(ignored) \in Nat
  <2>1. \A k \in Int : Spent(cnt, k) \in Int
    BY <1>t, SpentStep
  <2>2. QED
    BY <1>0, <1>t, <2>1, LostStep
<1>1. CASE ReceiveValid
  <2>1. inbox' \in Seq(FrontByte) /\ Len(inbox') <= InboxCap
    BY <1>0, <1>1 DEF TypeOK, ReceiveValid
  <2>2. TypeOK'
    BY <1>0, <1>1, <2>1 DEF TypeOK, ReceiveValid, Events
  <2>3. Sending'
    BY <1>1 DEF ReceiveValid, Sending
  <2>4. QED
    BY <1>1, <2>2, <2>3 DEF IInv, ReceiveValid
<1>2. CASE ReceiveOther
  <2>1. inbox' \in Seq(FrontByte) /\ Len(inbox') <= InboxCap
    BY <1>0, <1>2 DEF TypeOK, ReceiveOther
  <2>2. TypeOK'
    BY <1>0, <1>2, <2>1 DEF TypeOK, ReceiveOther
  <2>3. Waiting
    BY <1>2 DEF IInv, ReceiveOther
  <2>4. CASE beat
    <3>1. /\ ignored' = ignored + 1 /\ waited' = 0
          /\ since' = since /\ cnt' = cnt /\ event' = event
          /\ green' = green /\ beat' = beat
      BY <1>2, <2>3, <2>4 DEF Waiting, ReceiveOther
    <3>2. Lost(ignored') = Lost(ignored) + SecTicks /\ Lost(ignored) \in Nat
      BY <1>t, <3>1, LostStep
    <3>3. Waiting'
      BY <1>0, <1>t, <1>s, <2>3, <2>4, <3>1, <3>2 DEF Waiting
    <3>4. QED
      BY <1>2, <2>2, <3>3 DEF IInv, ReceiveOther
  <2>5. CASE ~beat
    BY <1>2, <2>2, <2>3, <2>5 DEF IInv, Waiting, ReceiveOther
  <2>6. QED
    BY <2>4, <2>5
<1>3. CASE HeartBeat
  <2>1. Waiting /\ beat /\ waited = SecTicks /\ cnt' = cnt - 1
    BY <1>3 DEF IInv, HeartBeat, BeatExpired
  <2>2. cnt \in Int /\ cnt > 0 /\ cnt - 1 # 0 /\ cnt <= RelockSecs
    BY <1>3, <1>t, <2>1 DEF Waiting, HeartBeat
  <2>3. TypeOK'
    BY <1>0, <1>3, <2>2 DEF TypeOK, HeartBeat, Events
  <2>4. /\ Spent(cnt', SecTicks) = Spent(cnt, SecTicks) + SecTicks
        /\ Spent(cnt', SecTicks + SendTicks)
             = Spent(cnt, SecTicks + SendTicks) + SecTicks + SendTicks
    <3>1. \A k \in Int : Spent(cnt - 1, k) = Spent(cnt, k) + k
      BY <1>t, SpentStep
    <3>2. Spent(cnt - 1, SecTicks + SendTicks)
            = Spent(cnt, SecTicks + SendTicks) + (SecTicks + SendTicks)
      BY <1>0, <3>1
    <3>3. QED
      BY <1>0, <1>s, <2>1, <3>1, <3>2
  <2>5. /\ since' = since /\ ignored' = ignored /\ waited' = 0
        /\ green' = green /\ beat' = beat /\ event' = "UNLOCKED"
    BY <1>3 DEF HeartBeat
  <2>6. Sending'
    BY <1>0, <1>t, <1>s, <2>1, <2>2, <2>4, <2>5 DEF Sending, Waiting
  <2>7. QED
    BY <1>3, <2>3, <2>6 DEF IInv, HeartBeat
<1>4. CASE LastBeat
  <2>1. TypeOK'
    <3>1. 0 \in 0..RelockSecs
      OBVIOUS
    <3>2. QED
      BY <1>0, <1>4, <3>1 DEF TypeOK, LastBeat, Events
  <2>2. Sending'
    BY <1>4 DEF Sending, LastBeat
  <2>3. QED
    BY <1>4, <2>1, <2>2 DEF IInv, LastBeat
<1>5. CASE AfterSend
  <2>1. Sending /\ since \in Nat /\ waited \in Nat /\ cnt \in Int
    BY <1>5, <1>t DEF IInv, AfterSend
  <2>2. TypeOK'
    <3>1. cnt' \in 0..RelockSecs
      BY <1>5, <1>t DEF AfterSend
    <3>2. beat' \in BOOLEAN
      BY <1>0, <1>5 DEF AfterSend, TypeOK
    <3>3. QED
      BY <1>0, <1>5, <3>1, <3>2 DEF TypeOK, AfterSend, Events
  <2>3. Waiting'
    <3>1. CASE event = "UNLOCK"
      <4>1. cnt' = RelockSecs /\ beat' = TRUE /\ green' /\ since' = since
            /\ since <= SendTicks /\ waited' = 0 /\ ignored' = 0
        BY <1>5, <2>1, <3>1 DEF Sending, AfterSend
      <4>2. /\ Spent(cnt', SecTicks) = 0
            /\ Spent(cnt', SecTicks + SendTicks) = 0
            /\ Lost(ignored') = 0
        BY <1>0, <4>1, SpentEnds, LostStep
      <4>3. QED
        BY <1>5, <2>1, <4>1, <4>2 DEF Waiting, AfterSend
    <3>2. CASE event = "UNLOCKED"
      <4>2. cnt' = cnt /\ beat' = beat /\ since' = since /\ ignored' = ignored
            /\ green' = green /\ waited' = 0 /\ event' = "NONE"
        BY <1>5, <3>2 DEF AfterSend
      <4>3. QED
        BY <1>0, <1>t, <1>s, <2>1, <3>2, <4>2 DEF Waiting, Sending
    <3>3. CASE event = "RELOCK"
      <4>1. ~green' /\ ~beat' /\ cnt' = 0 /\ waited' = 0 /\ event' = "NONE"
        BY <1>5, <2>1, <3>3 DEF Sending, AfterSend
      <4>2. green' \in BOOLEAN /\ beat' \in BOOLEAN
        BY <2>2 DEF TypeOK
      <4>3. QED
        BY <4>1, <4>2 DEF Waiting
    <3>4. QED
      BY <1>0, <2>1, <3>1, <3>2, <3>3 DEF TypeOK, Events, Sending
  <2>4. QED
    BY <1>5, <2>2, <2>3 DEF IInv, AfterSend
<1>6. CASE Tick
  <2>1. TypeOK'
    BY <1>0, <1>6 DEF TypeOK, Tick
  <2>3. CASE pc = "recv"
    <3>1. Waiting /\ beat /\ green /\ waited < SecTicks
      BY <1>6, <2>3 DEF IInv, Tick, Waiting
    <3>2. waited' = waited + 1 /\ since' = since + 1
      BY <1>6, <3>1 DEF Tick
    <3>3. cnt' = cnt /\ beat' = beat /\ green' = green /\ event' = event
          /\ ignored' = ignored /\ pc' = pc /\ red' = red
      BY <1>6 DEF Tick
    <3>4. Waiting'
      BY <1>0, <1>t, <1>s, <3>1, <3>2, <3>3 DEF Waiting
    <3>5. QED
      BY <2>1, <2>3, <3>3, <3>4 DEF IInv
  <2>4. CASE pc = "send"
    <3>1. Sending /\ waited < SendTicks /\ waited' = waited + 1
      BY <1>6, <2>4 DEF IInv, Tick
    <3>2. since' = IF green THEN since + 1 ELSE since
      BY <1>6 DEF Tick
    <3>3. cnt' = cnt /\ beat' = beat /\ green' = green /\ event' = event
          /\ ignored' = ignored /\ pc' = pc /\ red' = red
      BY <1>6 DEF Tick
    <3>4. Sending'
      BY <1>0, <1>t, <1>s, <3>1, <3>2, <3>3 DEF Sending
    <3>5. QED
      BY <2>1, <2>4, <3>3, <3>4 DEF IInv
  <2>5. QED
    BY <1>6, <2>3, <2>4 DEF Tick
<1>7. ASSUME NEW byte \in FrontByte, Deliver(byte) PROVE IInv'
  <2>1. inbox' \in Seq(FrontByte) /\ Len(inbox') <= InboxCap
    BY <1>0, <1>7 DEF TypeOK, Deliver
  <2>2. TypeOK'
    BY <1>0, <1>7, <2>1 DEF TypeOK, Deliver
  <2>3. QED
    BY <1>7, <2>2 DEF IInv, Deliver, Waiting, Sending
<1>8. CASE UNCHANGED vars
  BY <1>8 DEF IInv, TypeOK, Waiting, Sending, vars
<1>9. QED
  BY <1>1, <1>2, <1>3, <1>4, <1>5, <1>6, <1>7, <1>8 DEF Next, Task
-----------------------------------------------------------------------------
LEMMA AlwaysIInv == Spec => []IInv
  BY InitIInv, NextIInv, PTL DEF Spec

(* Type correctness: the queue never exceeds its capacity and the          *)
(* countdown (main.c:53,60) stays between zero and RelockSecs.             *)
THEOREM TypeCorrect == Spec => []TypeOK
<1>1. IInv => TypeOK
  BY DEF IInv
<1>2. QED
  BY <1>1, AlwaysIInv, PTL

(* The open lock is always being counted down (main.c:46-56, 77-83). *)
THEOREM Counted == Spec => []OpenIsCounted
<1>1. IInv => OpenIsCounted
  <2> SUFFICES ASSUME IInv PROVE OpenIsCounted
    OBVIOUS
  <2>1. event \in Events /\ pc \in {"recv", "send"}
    BY DEF IInv, TypeOK
  <2>2. QED
    BY <2>1 DEF IInv, Waiting, Sending, OpenIsCounted, Events
<1>2. QED
  BY <1>1, AlwaysIInv, PTL

(* The door never relocks before RelockSecs full seconds, whatever arrives *)
(* in the meantime (main.c:53-54, 60, 77-80).                              *)
THEOREM RelockNotEarly == Spec => NeverEarly
<1>1. IInv /\ [Next]_vars => [green /\ ~green' => since >= RelockSecs * SecTicks]_vars
  <2> SUFFICES ASSUME IInv, Next, green, ~green'
               PROVE  since >= RelockSecs * SecTicks
    BY DEF vars
  <2>1. LastBeat
    BY DEF Next, Task, ReceiveValid, ReceiveOther, HeartBeat, AfterSend, Tick, Deliver
  <2>2. Waiting /\ beat /\ waited = SecTicks /\ cnt - 1 = 0
    BY <2>1 DEF IInv, LastBeat, BeatExpired
  <2>3. cnt \in Int /\ since \in Nat
    BY DEF IInv, TypeOK
  <2>4. cnt = 1 /\ since >= Spent(1, SecTicks) + SecTicks
    BY <2>2, <2>3 DEF Waiting
  <2>5. Spent(0, SecTicks) = Spent(1, SecTicks) + SecTicks
    <3>1. Spent(1 - 1, SecTicks) = Spent(1, SecTicks) + SecTicks
      BY SpentStep, DoorLockAssumption
    <3>2. QED
      BY <3>1
  <2>6. Spent(0, SecTicks) = RelockSecs * SecTicks
    BY SpentEnds, DoorLockAssumption
  <2>7. QED
    BY <2>4, <2>5, <2>6
<1>2. QED
  BY <1>1, AlwaysIInv, PTL DEF Spec, NeverEarly

(* And it is late by no more than the publishes and the restarted beats    *)
(* cost (main.c:44, 64: the two places where the task may block).          *)
THEOREM RelockNotTooLate == Spec => []NeverLaterThanIgnored
<1>1. IInv => NeverLaterThanIgnored
  <2> SUFFICES ASSUME IInv, green PROVE since <= LatestRelock
    BY DEF NeverLaterThanIgnored
  <2> DEFINE K == SecTicks + SendTicks
             All == RelockSecs * K
  <2>1. /\ cnt \in Int /\ since \in Nat /\ ignored \in Nat /\ waited \in Nat
        /\ event \in Events /\ pc \in {"recv", "send"}
        /\ K \in Nat /\ All \in Nat /\ SecTicks \in Nat /\ SendTicks \in Nat
    BY DoorLockAssumption DEF IInv, TypeOK
  <2>2. Lost(ignored) \in Nat /\ LatestRelock = All + SendTicks + Lost(ignored)
    BY <2>1, LostStep DEF LatestRelock, Lost
  <2>3. cnt >= 1 => Spent(cnt, K) \in Int /\ Spent(cnt, K) + K <= All
    <3>1. \A k \in Nat : cnt >= 1 => Spent(cnt, k) + k <= RelockSecs * k
      BY <2>1, SpentBefore
    <3>2. \A k \in Int : Spent(cnt, k) \in Int
      BY <2>1, SpentStep
    <3>3. K \in Nat /\ K \in Int
      BY <2>1
    <3> HIDE DEF K
    <3>4. QED
      BY <3>1, <3>2, <3>3
  <2>4. K = SecTicks + SendTicks
    OBVIOUS
  <2> HIDE DEF K, All
  <2>5. CASE pc = "recv"
    <3>1. cnt >= 1 /\ waited <= SecTicks
          /\ since <= Spent(cnt, K) + Lost(ignored) + waited + SendTicks
      BY <2>1, <2>4, <2>5 DEF IInv, Waiting
    <3>2. QED
      BY <2>1, <2>2, <2>3, <2>4, <3>1
  <2>6. CASE pc = "send" /\ event = "UNLOCKED"
    <3>1. cnt >= 1 /\ waited <= SendTicks
          /\ since <= Spent(cnt, K) + Lost(ignored) + waited
      BY <2>1, <2>4, <2>6 DEF IInv, Sending
    <3>2. QED
      BY <2>1, <2>2, <2>3, <2>4, <3>1
  <2>7. CASE pc = "send" /\ event = "UNLOCK"
    <3>1. since <= SendTicks
      BY <2>1, <2>7 DEF IInv, Sending
    <3>2. QED
      BY <2>1, <2>2, <3>1
  <2>8. QED
    BY <2>1, <2>5, <2>6, <2>7 DEF IInv, Sending, Events
<1>2. QED
  BY <1>1, AlwaysIInv, PTL

(* door_lock_task implements the abstract lock: every step is a grant, a   *)
(* count, a relock, or leaves the lock as it is.                           *)
THEOREM ImplementsPromise == Spec => KeepsPromise
<1>1. Init => Promise!LockInit
  BY DEF Init, Promise!LockInit
<1>2. IInv /\ [Next]_vars => [Promise!LockNext]_(Promise!lockVars)
  <2> SUFFICES ASSUME IInv, [Next]_vars
               PROVE  Promise!LockNext \/ UNCHANGED Promise!lockVars
    BY DEF Promise!lockVars
  <2> USE DEF Promise!LockNext, Promise!lockVars
  <2>0. cnt \in Int /\ 0 <= cnt /\ green \in BOOLEAN /\ beat \in BOOLEAN
    BY DoorLockAssumption DEF IInv, TypeOK
  <2>1. CASE ReceiveValid
    BY <2>1 DEF ReceiveValid, Promise!Grant
  <2>2. CASE ReceiveOther
    BY <2>2 DEF ReceiveOther
  <2>3. CASE HeartBeat
    <3>1. event = "NONE" /\ green /\ cnt > 1 /\ cnt' = cnt - 1
          /\ event' = "UNLOCKED" /\ green' = green
      BY <2>0, <2>3 DEF IInv, Waiting, HeartBeat, BeatExpired
    <3>2. QED
      BY <3>1 DEF Promise!CountDown
  <2>4. CASE LastBeat
    <3>1. event = "NONE" /\ green /\ cnt = 1 /\ cnt' = 0
          /\ event' = "RELOCK" /\ green' = FALSE
      BY <2>0, <2>4 DEF IInv, Waiting, LastBeat, BeatExpired
    <3>2. QED
      BY <2>0, <3>1 DEF Promise!Relock
  <2>5. CASE AfterSend
    BY <2>5 DEF AfterSend
  <2>6. CASE Tick
    BY <2>6 DEF Tick
  <2>7. ASSUME NEW byte \in FrontByte, Deliver(byte)
        PROVE  UNCHANGED Promise!lockVars
    BY <2>7 DEF Deliver
  <2>8. CASE UNCHANGED vars
    BY <2>8 DEF vars
  <2>9. QED
    BY <2>1, <2>2, <2>3, <2>4, <2>5, <2>6, <2>7, <2>8 DEF Next, Task
<1>3. QED
  BY <1>1, <1>2, AlwaysIInv, PTL DEF Spec, KeepsPromise, Promise!LockSpec
=============================================================================
