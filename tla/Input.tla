------------------------------- MODULE Input -------------------------------
(***************************************************************************)
(* Where keys come from: the task that scans the keypad (keypad.c) and the *)
(* interrupt of the four buttons (button.c), both told of edges, both with *)
(* a notion of time that filters bounces.  Every step publishes the keys   *)
(* in out; what the queue does with them is in module Bus.                 *)
(*                                                                         *)
(* Time is in ticks of 10 ms.  The task waits 5 ms for a column to settle, *)
(* which is no tick at all (pdMS_TO_TICKS), so that a scan takes no time.  *)
(***************************************************************************)
EXTENDS Integers, Sequences, Functions

CONSTANTS
    Pad,                     \* the keys, column by column as they are scanned
    Row,                     \* the row of each key
    Btns,                    \* the buttons
    Pause,                   \* the task's rest after a scan (20 ms)
    Gap,                     \* two inputs further apart are two presses (50 ms)
    RepeatDelay,             \* REPEAT_INPT_DELAYMS
    FirstDelay,              \* FIRST_REPEAT_INPT_DELAYMS
    Quiet                    \* edges of buttons closer than this are ignored (100 ms)

ASSUME InputAssumption ==
    /\ Pad \in Seq(Range(Pad)) /\ IsInjective(Pad)
    /\ "none" \notin Btns \cup Range(Pad) /\ Btns \cap Range(Pad) = {}
    /\ {Pause, Gap, RepeatDelay, FirstDelay, Quiet} \subseteq Nat
    /\ 0 < Pause /\ Pause < Gap /\ Gap < RepeatDelay /\ RepeatDelay < FirstDelay

VARIABLES
    held,                    \* the keys that are down
    s_keypad_in_sem,         \* a binary semaphore
    resting,                 \* the task is in its 20 ms delay
    last_inpt_char,
    longpress_start_flag,
    sinceAccp, sinceInpt,    \* ticks since last_inpt_accp_time and last_inpt_time
    down,                    \* the buttons that are down
    last_btn_press,
    sincePress,              \* ticks since last_press_time
    out,                     \* keys published by the last step
    away, times,             \* history: how long no key was down before the present
                             \*   press; 1 when the last key was typed once since it is
                             \*   down, after a pause or another key, 0 when not yet
    unseen,                  \* history: ticks each key was down without being typed
    calm                     \* history: one button at a time, no edge within Quiet

padVars == <<held, s_keypad_in_sem, resting, last_inpt_char, longpress_start_flag,
             sinceAccp, sinceInpt, away, times, unseen>>
btnVars == <<down, last_btn_press, sincePress, calm>>
vars == <<padVars, btnVars, out>>

Chars == Range(Pad)
(* Times are counted as far as they are told apart. *)
Older(age, limit) == IF age < limit THEN age + 1 ELSE limit
TypedBy == FirstDelay + Pause
(* The last scan that a key causes may start 20 ms after the key is up. *)
Quiesced == Gap + Pause

Init ==
    /\ held = {} /\ s_keypad_in_sem = 0 /\ resting = FALSE
    /\ last_inpt_char = "none" /\ longpress_start_flag = FALSE
    /\ sinceAccp = FirstDelay + 1 /\ sinceInpt = Gap
    /\ down = {} /\ last_btn_press = "none" /\ sincePress = Quiet + 1
    /\ out = <<>>
    /\ away = Quiesced /\ times = 0
    /\ unseen = [k \in Chars |-> 0] /\ calm = TRUE
-----------------------------------------------------------------------------
(* Mutant: a counting semaphore. *)
TriggeredOften(sem, edge) == IF edge THEN sem + 1 ELSE sem
(* Mutant: edges that the scan itself makes do not count. *)
TriggeredNot(sem, edge) == sem
(* keypad_input_trigger, the interrupt of a rising row. *)
Triggered(sem, edge) == IF edge THEN 1 ELSE sem

(* All columns are powered between scans: a row rises with its first key. *)
PressKey(k) ==
    /\ k \notin held
    /\ held' = held \cup {k}
    /\ s_keypad_in_sem' = Triggered(s_keypad_in_sem, ~\E j \in held : Row[j] = Row[k])
    /\ unseen' = [unseen EXCEPT ![k] = 0]
    /\ out' = <<>>
    /\ UNCHANGED <<resting, last_inpt_char, longpress_start_flag, sinceAccp, sinceInpt,
                   away, times, btnVars>>

ReleaseKey(k) ==
    /\ k \in held
    /\ held' = held \ {k}
    /\ away' = 0
    /\ times' = IF k = last_inpt_char THEN 0 ELSE times
    /\ unseen' = [unseen EXCEPT ![k] = 0]
    /\ out' = <<>>
    /\ UNCHANGED <<s_keypad_in_sem, resting, last_inpt_char, longpress_start_flag, sinceAccp,
                   sinceInpt, btnVars>>

(* Mutant: the first repetition comes as fast as the others. *)
AcceptedSoon(s, k) ==
    k # s.char \/ s.accp > RepeatDelay \/ sinceInpt >= Gap
(* Another key, a key held long enough, or one pressed again. *)
Accepted(s, k) ==
    \/ k # s.char
    \/ (~s.flag \/ s.accp > FirstDelay) /\ s.accp > RepeatDelay
    \/ sinceInpt >= Gap

(* One key found down by the scan, s being what the task remembers. *)
Found(s, k) ==
    IF k \in held /\ Accepted(s, k)
    THEN [char |-> k, accp |-> 0, flag |-> k # s.char \/ sinceInpt >= Gap, typed |-> Append(s.typed, k)]
    ELSE s

(* What the task remembers once n keys are scanned, and the keys it typed. *)
Scanned[n \in 0..Len(Pad)] ==
    IF n = 0 THEN [char |-> last_inpt_char, accp |-> sinceAccp, flag |-> longpress_start_flag, typed |-> <<>>]
             ELSE Found(Scanned[n - 1], Pad[n])

(* A ticket is spent and the columns are powered one by one; with the next *)
(* one, or with all of them at the end, the row of a key held rises again. *)
Scan ==
    LET s == Scanned[Len(Pad)]
    IN  /\ s_keypad_in_sem = 1 /\ ~resting
        /\ last_inpt_char' = s.char
        /\ longpress_start_flag' = s.flag
        /\ sinceAccp' = s.accp
        /\ out' = s.typed
        /\ s_keypad_in_sem' = Triggered(0, held # {})
        /\ sinceInpt' = 0
        /\ resting' = TRUE
        /\ unseen' = [k \in Chars |-> IF k \in Range(s.typed) THEN 0 ELSE unseen[k]]
        /\ times' = IF s.typed = <<>> THEN times
                    ELSE IF s.typed # <<last_inpt_char>> \/ (times = 0 /\ away = Quiesced) THEN 1
                    ELSE 2
        /\ UNCHANGED <<held, away, btnVars>>

Rested ==
    /\ resting /\ sinceInpt >= Pause
    /\ resting' = FALSE
    /\ out' = <<>>
    /\ UNCHANGED <<held, s_keypad_in_sem, last_inpt_char, longpress_start_flag, sinceAccp,
                   sinceInpt, away, times, unseen, btnVars>>
-----------------------------------------------------------------------------
(* Mutant: the level is taken the wrong way round. *)
PublishedNot(b, level) == IF level THEN <<b>> ELSE <<>>
(* A button is down when its level is low. *)
Published(b, level) == IF level THEN <<>> ELSE <<b>>

(* Mutant: a release is not told from a press. *)
AfterReleaseKept(b) == b
AfterRelease(b) == "none"

(* btn_gpio_isr_handler, at any edge of any button.  An edge after a quiet  *)
(* time is a release if it is of the button last noted, else a press; and  *)
(* a press is published if the level is low.                               *)
BtnEdge(b) ==
    /\ down' = IF b \in down THEN down \ {b} ELSE down \cup {b}
    /\ IF sincePress > Quiet
       THEN /\ last_btn_press' = IF last_btn_press = b THEN AfterRelease(b) ELSE b
            /\ out' = IF last_btn_press = b THEN <<>> ELSE Published(b, b \notin down')
       ELSE /\ out' = <<>>
            /\ UNCHANGED last_btn_press
    /\ sincePress' = 0
    /\ calm' = (calm /\ sincePress > Quiet /\ down \subseteq {b})
    /\ UNCHANGED padVars

(* A tick, the task having done what it could. *)
Tick ==
    /\ ~(s_keypad_in_sem = 1 /\ ~resting) /\ ~(resting /\ sinceInpt >= Pause)
    /\ sinceAccp' = Older(sinceAccp, FirstDelay + 1)
    /\ sinceInpt' = Older(sinceInpt, Gap)
    /\ sincePress' = Older(sincePress, Quiet + 1)
    /\ away' = IF held = {} THEN Older(away, Quiesced) ELSE away
    /\ unseen' = [k \in Chars |-> IF k \in held THEN Older(unseen[k], TypedBy + 1) ELSE 0]
    /\ out' = <<>>
    /\ UNCHANGED <<held, s_keypad_in_sem, resting, last_inpt_char, longpress_start_flag, times,
                   down, last_btn_press, calm>>

Next ==
    \/ \E k \in Chars : PressKey(k) \/ ReleaseKey(k)
    \/ \E b \in Btns : BtnEdge(b)
    \/ Scan \/ Rested \/ Tick

Spec == Init /\ [][Next]_vars
-----------------------------------------------------------------------------
TypeOK ==
    /\ held \subseteq Chars /\ down \subseteq Btns
    /\ s_keypad_in_sem \in 0..1
    /\ last_inpt_char \in Chars \cup {"none"} /\ last_btn_press \in Btns \cup {"none"}
    /\ sinceAccp \in 0..FirstDelay + 1 /\ sinceInpt \in 0..Gap /\ sincePress \in 0..Quiet + 1
    /\ resting \in BOOLEAN /\ (resting => sinceInpt <= Pause)
    /\ longpress_start_flag \in BOOLEAN /\ calm \in BOOLEAN
    /\ out \in Seq(Chars \cup Btns)
    /\ away \in 0..Quiesced /\ times \in 0..2 /\ unseen \in [Chars -> 0..TypedBy + 1]

(* keypad.c:31: a key that stays down is typed a second time after 600 ms *)
(* at the earliest, and from then on after 150 ms.  (A press that bounces  *)
(* in front of a scan passes for the press before it: such a key is typed  *)
(* late, and repeated after 150 ms.)                                       *)
KeysPaced ==
    [][out' = <<last_inpt_char>> /\ times > 0
         => sinceAccp > IF times = 1 THEN FirstDelay ELSE RepeatDelay]_vars

(* A key that stays down is typed, whatever other keys do: no edge that    *)
(* would wake the task is lost.                                            *)
HeldIsTyped == \A k \in Chars : unseen[k] <= TypedBy

(* button.c:18: as long as buttons are pressed one at a time and no edge   *)
(* follows another within 100 ms, every press is published and no release, *)
(* and the interrupt knows which of the two comes next.                    *)
CalmButtons ==
    calm => down = IF last_btn_press = "none" THEN {} ELSE {last_btn_press}
CalmPressSent ==
    [][calm' /\ down' # down =>
         IF down = {} THEN \E b \in Btns : down' = {b} /\ out' = <<b>> ELSE out' = <<>>]_vars
=============================================================================
