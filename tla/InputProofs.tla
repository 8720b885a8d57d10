---------------------------- MODULE InputProofs ----------------------------
(***************************************************************************)
(* Theorems about Input, for any pad, any buttons and any time limits in   *)
(* the order of the code's: what the interrupt of the buttons makes of     *)
(* calm hands, how fast keys repeat, and that a held key is typed.         *)
(*                                                                         *)
(* The scan is a recursive function, and what is known of its result is    *)
(* proved by induction over the keys (UpTo, ScanRounds, ScanResult).       *)
(***************************************************************************)
EXTENDS Input, WellFoundedInduction, TLAPS

(* CalmButtons needs only the types of the two variables it relates. *)
BtnInv ==
    /\ down \subseteq Btns
    /\ last_btn_press \in Btns \cup {"none"}
    /\ CalmButtons

LEMMA BtnInitial == Init => BtnInv
  BY InputAssumption DEF Init, BtnInv, CalmButtons

(* Nothing but an edge of a button touches what the interrupt keeps. *)
LEMMA OnlyEdges ==
    ASSUME Next \/ UNCHANGED vars
    PROVE  \/ \E b \in Btns : BtnEdge(b)
           \/ UNCHANGED <<down, last_btn_press, calm>>
<1>1. ASSUME NEW k \in Chars, PressKey(k) \/ ReleaseKey(k)
      PROVE  UNCHANGED <<down, last_btn_press, calm>>
  BY <1>1 DEF PressKey, ReleaseKey, btnVars
<1>2. Scan => UNCHANGED <<down, last_btn_press, calm>>
  BY DEF Scan, btnVars
<1>3. Rested => UNCHANGED <<down, last_btn_press, calm>>
  BY DEF Rested, btnVars
<1>4. Tick => UNCHANGED <<down, last_btn_press, calm>>
  BY DEF Tick
<1>5. UNCHANGED vars => UNCHANGED <<down, last_btn_press, calm>>
  BY DEF vars, btnVars
<1> QED BY <1>1, <1>2, <1>3, <1>4, <1>5 DEF Next

(* An edge in calm hands is a press when no button is down, and else the   *)
(* release of the one that is.                                             *)
LEMMA CalmEdge ==
    ASSUME BtnInv, NEW b \in Btns, BtnEdge(b), calm'
    PROVE  \/ /\ down = {} /\ down' = {b}
              /\ last_btn_press' = b /\ out' = <<b>>
           \/ /\ down = {b} /\ down' = {}
              /\ last_btn_press' = "none" /\ out' = <<>>
<1>1. calm /\ sincePress > Quiet /\ down \subseteq {b}
  BY DEF BtnEdge
<1>2. b # "none"
  BY InputAssumption
<1>3. CASE down = {}
  <2>1. last_btn_press = "none"
    BY <1>1, <1>3 DEF BtnInv, CalmButtons
  <2>2. down' = {b}
    BY <1>3 DEF BtnEdge
  <2>3. last_btn_press' = b /\ out' = Published(b, b \notin down')
    BY <1>1, <1>2, <2>1 DEF BtnEdge
  <2> QED BY <1>3, <2>2, <2>3 DEF Published
<1>4. CASE down = {b}
  <2>1. last_btn_press = b
    BY <1>1, <1>2, <1>4 DEF BtnInv, CalmButtons
  <2>2. down' = {}
    BY <1>4 DEF BtnEdge
  <2>3. last_btn_press' = AfterRelease(b) /\ out' = <<>>
    BY <1>1, <2>1 DEF BtnEdge
  <2> QED BY <1>4, <2>2, <2>3 DEF AfterRelease
<1> QED BY <1>1, <1>3, <1>4

LEMMA BtnStep == BtnInv /\ [Next]_vars => BtnInv'
<1> SUFFICES ASSUME BtnInv, Next \/ UNCHANGED vars PROVE BtnInv'
  OBVIOUS
<1>1. CASE UNCHANGED <<down, last_btn_press, calm>>
  BY <1>1 DEF BtnInv, CalmButtons
<1>2. ASSUME NEW b \in Btns, BtnEdge(b) PROVE BtnInv'
  <2>1. down' \subseteq Btns
    BY <1>2 DEF BtnEdge, BtnInv
  <2>2. last_btn_press' \in Btns \cup {"none"}
    BY <1>2 DEF BtnEdge, BtnInv, AfterRelease
  <2>3. CalmButtons'
    BY <1>2, CalmEdge, InputAssumption DEF CalmButtons
  <2> QED BY <2>1, <2>2, <2>3 DEF BtnInv
<1> QED BY <1>1, <1>2, OnlyEdges

(* The toggle of button.c:14 is in phase with the buttons as long as they  *)
(* are pressed one at a time and no edge follows another within 100 ms.    *)
THEOREM CalmButtonsHold == Spec => []CalmButtons
<1>1. BtnInv => CalmButtons
  BY DEF BtnInv
<1> QED BY <1>1, BtnInitial, BtnStep, PTL DEF Spec

(* In such hands every press is published, and no release (button.c:18).   *)
THEOREM CalmPressesSent == Spec => CalmPressSent
<1> DEFINE A == calm' /\ down' # down =>
                  IF down = {} THEN \E b \in Btns : down' = {b} /\ out' = <<b>> ELSE out' = <<>>
<1>1. BtnInv /\ [Next]_vars => [A]_vars
  <2> SUFFICES ASSUME BtnInv, Next \/ UNCHANGED vars, calm', down' # down
               PROVE  IF down = {} THEN \E b \in Btns : down' = {b} /\ out' = <<b>> ELSE out' = <<>>
    OBVIOUS
  <2>1. PICK b \in Btns : BtnEdge(b)
    BY OnlyEdges
  <2> QED BY <2>1, CalmEdge
<1> QED BY <1>1, BtnInitial, BtnStep, PTL DEF Spec, CalmPressSent
-----------------------------------------------------------------------------
(* Induction up to a limit. *)
LEMMA UpTo ==
    ASSUME NEW N \in Nat, NEW S, 0 \in S,
           \A n \in 0..(N - 1) : n \in S => n + 1 \in S
    PROVE  \A n \in 0..N : n \in S
<1> SUFFICES ASSUME ~ \A n \in 0..N : n \in S PROVE FALSE
  OBVIOUS
<1> DEFINE Out == {n \in 0..N : n \notin S}
<1>1. Out \subseteq Nat /\ Out # {}
  OBVIOUS
<1>2. PICK low \in Out : \A m \in Out : ~ (<<m, low>> \in OpToRel(<, Nat))
  <2> HIDE DEF Out
  <2> QED BY <1>1, WFMin, NatLessThanWellFounded
<1>3. low \in 0..N /\ low # 0 /\ low - 1 \in 0..(N - 1)
  OBVIOUS
<1>4. low - 1 \notin Out
  <2>1. low - 1 \in Nat /\ low \in Nat /\ low - 1 < low
    BY <1>3
  <2>2. <<low - 1, low>> \in OpToRel(<, Nat)
    BY <2>1 DEF OpToRel
  <2> QED BY <1>2, <2>2
<1>5. low - 1 \in S
  BY <1>3, <1>4
<1> QED BY <1>3, <1>5

Before == [char |-> last_inpt_char, accp |-> sinceAccp, flag |-> longpress_start_flag, typed |-> <<>>]

Rounds(f, n) == f = [i \in 0..n |-> IF i = 0 THEN Before ELSE Found(f[i - 1], Pad[i])]

(* The scan of a pad of any size has its result, key by key. *)
LEMMA ScanRounds ==
    /\ Scanned[0] = Before
    /\ \A n \in 1..Len(Pad) : Scanned[n] = Found(Scanned[n - 1], Pad[n])
<1> DEFINE S == {n \in 0..Len(Pad) : \E f : Rounds(f, n)}
<1>0. Len(Pad) \in Nat
  BY InputAssumption
<1>1. 0 \in S
  <2>1. Rounds([i \in 0..0 |-> Before], 0)
    BY DEF Rounds
  <2> QED BY <1>0, <2>1
<1>2. ASSUME NEW n \in 0..(Len(Pad) - 1), n \in S PROVE n + 1 \in S
  <2>1. PICK f : Rounds(f, n)
    BY <1>2
  <2> DEFINE g == [i \in 0..(n + 1) |-> IF i <= n THEN f[i] ELSE Found(f[n], Pad[i])]
  <2>2. \A i \in 0..n : f[i] = IF i = 0 THEN Before ELSE Found(f[i - 1], Pad[i])
    BY <2>1 DEF Rounds
  <2>3. \A i \in 0..(n + 1) : g[i] = IF i = 0 THEN Before ELSE Found(g[i - 1], Pad[i])
    <3>1. ASSUME NEW i \in 0..(n + 1), i <= n PROVE g[i] = IF i = 0 THEN Before ELSE Found(g[i - 1], Pad[i])
      <4>1. g[i] = f[i] /\ (i # 0 => g[i - 1] = f[i - 1])
        BY <3>1
      <4> QED BY <2>2, <3>1, <4>1
    <3>2. g[n + 1] = Found(g[n], Pad[n + 1])
      OBVIOUS
    <3> QED BY <3>1, <3>2
  <2>4. Rounds(g, n + 1) /\ n + 1 \in 0..Len(Pad)
    BY <1>0, <2>3 DEF Rounds
  <2> QED BY <1>0, <2>4
<1>3. Len(Pad) \in S
  <2>1. \A n \in 0..(Len(Pad) - 1) : n \in S => n + 1 \in S
    BY <1>2
  <2> HIDE DEF S
  <2>2. \A n \in 0..Len(Pad) : n \in S
    BY <1>0, <1>1, <2>1, UpTo
  <2> QED BY <1>0, <2>2
<1>4. PICK f : Rounds(f, Len(Pad))
  BY <1>3
<1>5. Rounds(Scanned, Len(Pad))
  BY <1>4 DEF Scanned, Before, Rounds
<1> QED BY <1>0, <1>5 DEF Rounds

(* The last key typed is typed again: held long, or pressed once more. *)
AcceptedAgain ==
    \/ (~longpress_start_flag \/ sinceAccp > FirstDelay) /\ sinceAccp > RepeatDelay
    \/ sinceInpt >= Gap

(* What is known of s after n keys. *)
ScanTyped(s) ==
    /\ s.char \in Chars \cup {"none"} /\ s.accp \in 0..(FirstDelay + 1)
    /\ s.flag \in BOOLEAN /\ s.typed \in Seq(Chars)

ScanKeeps(s, n) ==
    IF s.typed = <<>> THEN s = Before
    ELSE s.accp = 0 /\ s.char \in held /\ s.char \in Range(s.typed) /\ \E j \in 1..n : s.char = Pad[j]

ScanFlags(s) ==
    /\ s.typed = <<last_inpt_char>> => AcceptedAgain /\ (sinceInpt >= Gap => s.flag = TRUE)
    /\ s.typed \notin {<<>>, <<last_inpt_char>>} => s.flag = TRUE

ScanFinds(s, n) ==
    \A j \in 1..n :
        Pad[j] \in held => \/ Pad[j] \in Range(s.typed)
                           \/ Pad[j] = last_inpt_char /\ sinceAccp <= FirstDelay /\ sinceInpt < Gap

Scans(s, n) == ScanTyped(s) /\ ScanKeeps(s, n) /\ ScanFlags(s) /\ ScanFinds(s, n)

LEMMA PadFacts ==
    /\ Len(Pad) \in Nat /\ Pad \in [1..Len(Pad) -> Chars]
    /\ \A k \in Chars : \E j \in 1..Len(Pad) : k = Pad[j]
    /\ \A i, j \in 1..Len(Pad) : Pad[i] = Pad[j] => i = j
    /\ "none" \notin Chars /\ "none" \notin Btns /\ Btns \cap Chars = {}
    /\ Pause \in Nat /\ Gap \in Nat /\ RepeatDelay \in Nat /\ FirstDelay \in Nat /\ Quiet \in Nat
    /\ 0 < Pause /\ Pause < Gap /\ Gap < RepeatDelay /\ RepeatDelay < FirstDelay
  BY InputAssumption DEF IsInjective, Range, Chars

(* What is in a sequence when one more is appended.                        *)
LEMMA RangeAppend ==
    ASSUME NEW S, NEW q \in Seq(S), NEW k \in S
    PROVE  Append(q, k) \in Seq(S) /\ Append(q, k) # <<>> /\ Range(Append(q, k)) = Range(q) \cup {k}
<1>1. Append(q, k) \in Seq(S) /\ Append(q, k) # <<>>
  <2>1. Append(q, k) \in Seq(S) /\ Len(Append(q, k)) = Len(q) + 1 /\ Len(q) \in Nat
    OBVIOUS
  <2>2. Len(<<>>) = 0
    OBVIOUS
  <2>3. Len(Append(q, k)) # 0
    BY <2>1
  <2> QED BY <2>1, <2>2, <2>3
<1>2. Len(Append(q, k)) = Len(q) + 1 /\ Append(q, k)[Len(q) + 1] = k /\ Len(q) \in Nat
      /\ \A i \in 1..Len(q) : Append(q, k)[i] = q[i]
  OBVIOUS
<1>3. DOMAIN q = 1..Len(q) /\ DOMAIN Append(q, k) = 1..(Len(q) + 1)
  BY <1>2
<1> HIDE DEF Range
<1>4. ASSUME NEW e \in Range(Append(q, k)) PROVE e \in Range(q) \cup {k}
  BY <1>2, <1>3 DEF Range
<1>5. ASSUME NEW e \in Range(q) \cup {k} PROVE e \in Range(Append(q, k))
  <2>1. CASE e = k
    BY <1>2, <1>3, <2>1 DEF Range
  <2>2. CASE e \in Range(q)
    <3>1. PICK i \in 1..Len(q) : e = q[i]
      BY <1>3, <2>2 DEF Range
    <3>2. i \in 1..(Len(q) + 1) /\ Append(q, k)[i] = e
      BY <1>2, <3>1
    <3> QED BY <1>3, <3>2 DEF Range
  <2> QED BY <1>5, <2>1, <2>2
<1> QED BY <1>1, <1>4, <1>5

(* One key of the scan. *)
LEMMA ScanKey ==
    ASSUME TypeOK, NEW n \in 0..(Len(Pad) - 1), NEW s, Scans(s, n)
    PROVE  Scans(Found(s, Pad[n + 1]), n + 1)
<1> DEFINE k == Pad[n + 1]
           r == [char |-> k, accp |-> 0, flag |-> k # s.char \/ sinceInpt >= Gap, typed |-> Append(s.typed, k)]
<1>1. n + 1 \in 1..Len(Pad) /\ k \in Chars /\ 1..n \subseteq 1..Len(Pad) /\ n \in Nat
      /\ \A j \in 1..(n + 1) : j \in 1..n \/ j = n + 1
  BY PadFacts
<1>2. s.typed # <<>> => k # s.char
  <2>1. SUFFICES ASSUME s.typed # <<>> PROVE k # s.char
    OBVIOUS
  <2>2. PICK j \in 1..n : s.char = Pad[j]
    BY <2>1 DEF Scans, ScanKeeps
  <2> QED BY <1>1, <2>2, PadFacts
<1>3. CASE ~(k \in held /\ Accepted(s, k))
  <2>1. Found(s, k) = s
    BY <1>3 DEF Found
  <2>2. ScanKeeps(s, n + 1)
    BY <1>1 DEF Scans, ScanKeeps
  <2>3. ScanFinds(s, n + 1)
    <3>1. SUFFICES ASSUME k \in held
                   PROVE  k = last_inpt_char /\ sinceAccp <= FirstDelay /\ sinceInpt < Gap
      BY <1>1 DEF Scans, ScanFinds
    <3>2. k = s.char /\ ~(sinceInpt >= Gap) /\ ~(s.accp > FirstDelay /\ s.accp > RepeatDelay)
      BY <1>3, <3>1 DEF Accepted
    <3>3. s = Before
      BY <1>2, <3>2 DEF Scans, ScanKeeps
    <3>4. s.char = last_inpt_char /\ s.accp = sinceAccp
      BY <3>3 DEF Before
    <3> QED BY <3>2, <3>4, PadFacts DEF TypeOK
  <2> QED BY <2>1, <2>2, <2>3 DEF Scans
<1>4. CASE k \in held /\ Accepted(s, k)
  <2>1. Found(s, k) = r
    BY <1>4 DEF Found
  <2>2. r.char = k /\ r.accp = 0 /\ r.typed = Append(s.typed, k)
    OBVIOUS
  <2>3. /\ k # s.char \/ sinceInpt >= Gap => r.flag = TRUE
        /\ r.flag \in BOOLEAN
    OBVIOUS
  <2>4. s.typed \in Seq(Chars)
    BY DEF Scans, ScanTyped
  <2>5. r.typed \in Seq(Chars) /\ r.typed # <<>> /\ Range(r.typed) = Range(s.typed) \cup {k}
    BY <1>1, <2>2, <2>4, RangeAppend
  <2> HIDE DEF r
  <2>6. ScanTyped(r)
    BY <1>1, <2>2, <2>3, <2>5, PadFacts DEF ScanTyped
  <2>7. ScanKeeps(r, n + 1)
    BY <1>1, <1>4, <2>2, <2>5 DEF ScanKeeps
  <2>8. ScanFlags(r)
    <3>1. CASE s.typed # <<>>
      <4>1. r.flag = TRUE
        BY <1>2, <2>3, <3>1
      <4>2. r.typed # <<last_inpt_char>>
        <5>1. Len(s.typed) \in Nat /\ Len(s.typed) # 0 /\ Len(Append(s.typed, k)) = Len(s.typed) + 1
          BY <2>4, <3>1
        <5>2. Len(<<last_inpt_char>>) = 1
          OBVIOUS
        <5> QED BY <2>2, <5>1, <5>2
      <4> QED BY <4>1, <4>2 DEF ScanFlags
    <3>2. CASE s.typed = <<>>
      <4>1. s = Before
        BY <3>2 DEF Scans, ScanKeeps
      <4>2. r.typed = <<k>> /\ s.char = last_inpt_char /\ s.accp = sinceAccp /\ s.flag = longpress_start_flag
        BY <2>2, <3>2, <4>1 DEF Before
      <4>3. CASE k = last_inpt_char
        <5>1. AcceptedAgain
          BY <1>4, <4>2, <4>3 DEF Accepted, AcceptedAgain
        <5>2. r.typed = <<last_inpt_char>>
          BY <4>2, <4>3
        <5> QED BY <2>3, <5>1, <5>2 DEF ScanFlags
      <4>4. CASE k # last_inpt_char
        <5>1. r.flag = TRUE /\ r.typed # <<last_inpt_char>>
          BY <2>3, <4>2, <4>4
        <5> QED BY <5>1 DEF ScanFlags
      <4> QED BY <4>3, <4>4
    <3> QED BY <3>1, <3>2
  <2>9. ScanFinds(r, n + 1)
    BY <1>1, <2>5 DEF Scans, ScanFinds
  <2> QED BY <2>1, <2>6, <2>7, <2>8, <2>9 DEF Scans
<1> QED BY <1>3, <1>4

(* What one scan leaves, for each key that is down and each that is not.   *)
LEMMA ScanResult ==
    ASSUME TypeOK
    PROVE  Scans(Scanned[Len(Pad)], Len(Pad))
<1> DEFINE S == {n \in 0..Len(Pad) : Scans(Scanned[n], n)}
<1>1. 0 \in S
  <2>1. ScanTyped(Before) /\ Before.typed = <<>>
    BY DEF Before, ScanTyped, TypeOK
  <2>2. <<>> # <<last_inpt_char>>
    OBVIOUS
  <2>3. Scans(Before, 0)
    BY <2>1, <2>2 DEF Scans, ScanKeeps, ScanFlags, ScanFinds
  <2> QED BY <2>3, ScanRounds, PadFacts
<1>2. ASSUME NEW n \in 0..(Len(Pad) - 1), n \in S PROVE n + 1 \in S
  <2>1. n + 1 \in 1..Len(Pad) /\ (n + 1) - 1 = n /\ n + 1 \in 0..Len(Pad)
    BY PadFacts
  <2>2. Scanned[n + 1] = Found(Scanned[n], Pad[n + 1])
    BY <2>1, ScanRounds
  <2>3. Scans(Scanned[n + 1], n + 1)
    BY <1>2, <2>2, ScanKey
  <2> QED BY <2>1, <2>3
<1>3. \A n \in 0..(Len(Pad) - 1) : n \in S => n + 1 \in S
  BY <1>2
<1>4. \A n \in S : Scans(Scanned[n], n)
  OBVIOUS
<1> HIDE DEF S
<1>5. \A n \in 0..Len(Pad) : n \in S
  BY <1>1, <1>3, UpTo, PadFacts
<1>6. Len(Pad) \in S
  BY <1>5, PadFacts
<1> QED BY <1>4, <1>6
-----------------------------------------------------------------------------
(* A key that is down keeps a ticket for the next scan. *)
Awake == held # {} => s_keypad_in_sem = 1

(* When no key is down, the last scan was at most 20 ms after the release. *)
Idle ==
    held = {} =>
        IF s_keypad_in_sem = 1 THEN away <= Pause /\ (resting => away <= sinceInpt)
                               ELSE sinceInpt = Gap \/ away <= sinceInpt + Pause

(* A press after a pause is not taken for the one before it. *)
Anew == held # {} /\ away = Quiesced => times > 0 \/ sinceInpt = Gap

(* A key that was typed and is still down has been scanned ever since. *)
Again ==
    /\ times > 0 => last_inpt_char \in held /\ sinceInpt <= Pause
    /\ times = 1 => longpress_start_flag = TRUE

(* Only the last key typed is passed over, until its delay is over. *)
Waiting ==
    \A k \in held :
        /\ unseen[k] <= FirstDelay + Pause
        /\ resting => unseen[k] <= FirstDelay + sinceInpt
        /\ k = last_inpt_char /\ sinceAccp <= FirstDelay => unseen[k] <= sinceAccp

PadInv == TypeOK /\ Awake /\ Idle /\ Anew /\ Again /\ Waiting /\ HeldIsTyped

LEMMA PadInitial == Init => PadInv
<1> SUFFICES ASSUME Init PROVE PadInv
  OBVIOUS
<1>1. unseen \in [Chars -> 0..(TypedBy + 1)] /\ \A k \in Chars : unseen[k] = 0
  BY PadFacts DEF Init, TypedBy
<1>2. /\ sinceAccp \in 0..FirstDelay + 1 /\ sinceInpt \in 0..Gap /\ sincePress \in 0..Quiet + 1
      /\ away \in 0..Quiesced /\ times \in 0..2 /\ out \in Seq(Chars \cup Btns)
  BY PadFacts DEF Init, Quiesced
<1>3. TypeOK
  <2>1. resting \in BOOLEAN /\ (resting => sinceInpt <= Pause)
    BY DEF Init
  <2>2. longpress_start_flag \in BOOLEAN /\ calm \in BOOLEAN
    BY DEF Init
  <2>3. held \subseteq Chars /\ down \subseteq Btns /\ s_keypad_in_sem \in 0..1
        /\ last_inpt_char \in Chars \cup {"none"} /\ last_btn_press \in Btns \cup {"none"}
    BY DEF Init
  <2> QED BY <1>1, <1>2, <2>1, <2>2, <2>3 DEF TypeOK
<1>4. HeldIsTyped
  BY <1>1, PadFacts DEF HeldIsTyped, TypedBy
<1> QED BY <1>3, <1>4 DEF Init, PadInv, Awake, Idle, Anew, Again, Waiting

(* Counting a tick: no age grows beyond its limit, none gets smaller.      *)
LEMMA Ages ==
    ASSUME NEW limit \in Nat, NEW age \in 0..limit
    PROVE  /\ Older(age, limit) \in 0..limit
           /\ age < limit => Older(age, limit) = age + 1
           /\ age = limit => Older(age, limit) = age
           /\ Older(age, limit) <= age + 1
  BY DEF Older

(* The actions one by one: a key goes down, a key comes up, the pad rests, *)
(* a button's edge, and the scan.                                          *)
LEMMA PressPad ==
    ASSUME PadInv, NEW k \in Chars, PressKey(k)
    PROVE  PadInv'
<1>1. /\ k \notin held /\ held' = held \cup {k} /\ unseen' = [unseen EXCEPT ![k] = 0] /\ out' = <<>>
      /\ UNCHANGED <<resting, last_inpt_char, longpress_start_flag, sinceAccp, sinceInpt, away, times,
                     down, last_btn_press, sincePress, calm>>
  BY DEF PressKey, btnVars
<1>2. s_keypad_in_sem' = 1
  <2>1. CASE \E j \in held : Row[j] = Row[k]
    BY <2>1 DEF PadInv, Awake, PressKey, Triggered
  <2>2. CASE ~ \E j \in held : Row[j] = Row[k]
    BY <2>2 DEF PressKey, Triggered
  <2> QED BY <2>1, <2>2
<1>3. /\ unseen' \in [Chars -> 0..(TypedBy + 1)] /\ unseen'[k] = 0
      /\ \A j \in Chars \ {k} : unseen'[j] = unseen[j]
  BY <1>1, PadFacts DEF PadInv, TypeOK, TypedBy
<1>4. TypeOK'
  BY <1>1, <1>2, <1>3 DEF PadInv, TypeOK
<1>5. Awake' /\ Idle'
  BY <1>1, <1>2 DEF Awake, Idle
<1>6. Anew'
  <2>1. SUFFICES ASSUME away = Quiesced PROVE times > 0 \/ sinceInpt = Gap
    BY <1>1 DEF Anew
  <2>2. CASE held # {}
    BY <2>1, <2>2 DEF PadInv, Anew
  <2>3. CASE held = {}
    <3>1. Quiesced = Gap + Pause /\ sinceInpt \in 0..Gap
      BY DEF Quiesced, PadInv, TypeOK
    <3>2. s_keypad_in_sem # 1
      BY <2>1, <2>3, <3>1, PadFacts DEF PadInv, Idle
    <3> QED BY <2>1, <2>3, <3>1, <3>2, PadFacts DEF PadInv, Idle
  <2> QED BY <2>2, <2>3
<1>7. Again'
  BY <1>1 DEF PadInv, Again
<1>8. Waiting' /\ HeldIsTyped'
  <2>1. 0 <= FirstDelay + Pause /\ 0 <= FirstDelay + sinceInpt /\ 0 <= sinceAccp
    BY PadFacts DEF PadInv, TypeOK
  <2>2. \A j \in held' : j = k \/ (j \in held /\ j \in Chars \ {k})
    BY <1>1 DEF PadInv, TypeOK
  <2>3. Waiting'
    BY <1>1, <1>3, <2>1, <2>2 DEF PadInv, Waiting
  <2>4. HeldIsTyped'
    BY <1>3, <2>1 DEF PadInv, HeldIsTyped, TypedBy
  <2> QED BY <2>3, <2>4
<1> QED BY <1>4, <1>5, <1>6, <1>7, <1>8 DEF PadInv

LEMMA ReleasePad ==
    ASSUME PadInv, NEW k \in Chars, ReleaseKey(k)
    PROVE  PadInv'
<1>1. /\ k \in held /\ held' = held \ {k} /\ unseen' = [unseen EXCEPT ![k] = 0] /\ out' = <<>>
      /\ away' = 0 /\ times' = IF k = last_inpt_char THEN 0 ELSE times
      /\ UNCHANGED <<s_keypad_in_sem, resting, last_inpt_char, longpress_start_flag, sinceAccp, sinceInpt,
                     down, last_btn_press, sincePress, calm>>
  BY DEF ReleaseKey, btnVars
<1>2. s_keypad_in_sem = 1 /\ sinceInpt \in Nat
  BY <1>1 DEF PadInv, Awake, TypeOK
<1>3. /\ unseen' \in [Chars -> 0..(TypedBy + 1)] /\ unseen'[k] = 0
      /\ \A j \in Chars \ {k} : unseen'[j] = unseen[j]
  BY <1>1, PadFacts DEF PadInv, TypeOK, TypedBy
<1>4. TypeOK'
  <2>1. away' \in 0..Quiesced /\ times' \in 0..2 /\ out' \in Seq(Chars \cup Btns)
    BY <1>1, PadFacts DEF Quiesced, PadInv, TypeOK
  <2> QED BY <1>1, <1>3, <2>1 DEF PadInv, TypeOK
<1>5. Awake' /\ Idle'
  BY <1>1, <1>2, PadFacts DEF Awake, Idle
<1>6. Anew'
  BY <1>1, PadFacts DEF Anew, Quiesced
<1>7. Again'
  BY <1>1 DEF PadInv, Again
<1>8. Waiting' /\ HeldIsTyped'
  <2>1. \A j \in held' : j \in held /\ j \in Chars \ {k}
    BY <1>1 DEF PadInv, TypeOK
  <2>2. 0 <= FirstDelay + Pause
    BY PadFacts
  <2>3. Waiting'
    BY <1>1, <1>3, <2>1 DEF PadInv, Waiting
  <2>4. HeldIsTyped'
    BY <1>3, <2>2 DEF PadInv, HeldIsTyped, TypedBy
  <2> QED BY <2>3, <2>4
<1> QED BY <1>4, <1>5, <1>6, <1>7, <1>8 DEF PadInv

LEMMA RestedPad ==
    ASSUME PadInv, Rested
    PROVE  PadInv'
<1>1. /\ resting = TRUE /\ resting' = FALSE /\ out' = <<>>
      /\ UNCHANGED <<held, s_keypad_in_sem, last_inpt_char, longpress_start_flag, sinceAccp, sinceInpt,
                     away, times, unseen, down, last_btn_press, sincePress, calm>>
  BY DEF Rested, btnVars, PadInv, TypeOK
<1>2. TypeOK'
  <2>1. resting' \in BOOLEAN /\ (resting' => sinceInpt' <= Pause)
    BY <1>1
  <2> QED BY <1>1, <2>1 DEF PadInv, TypeOK
<1>3. Awake' /\ Idle' /\ Anew' /\ Again' /\ Waiting' /\ HeldIsTyped'
  BY <1>1 DEF PadInv, Awake, Idle, Anew, Again, Waiting, HeldIsTyped
<1> QED BY <1>2, <1>3 DEF PadInv

LEMMA EdgePad ==
    ASSUME PadInv, NEW b \in Btns, BtnEdge(b)
    PROVE  PadInv'
<1>1. UNCHANGED <<held, s_keypad_in_sem, resting, last_inpt_char, longpress_start_flag,
                  sinceAccp, sinceInpt, away, times, unseen>>
  BY DEF BtnEdge, padVars
<1>2. /\ down' \subseteq Btns /\ last_btn_press' \in Btns \cup {"none"} /\ calm' \in BOOLEAN
      /\ sincePress' = 0
  BY DEF BtnEdge, AfterRelease, PadInv, TypeOK
<1>3. out' \in Seq(Chars \cup Btns)
  <2>1. out' = <<>> \/ out' = <<b>>
    BY DEF BtnEdge, Published
  <2>2. <<>> \in Seq(Chars \cup Btns) /\ <<b>> \in Seq(Chars \cup Btns)
    OBVIOUS
  <2> QED BY <2>1, <2>2
<1>4. TypeOK'
  BY <1>1, <1>2, <1>3, PadFacts DEF PadInv, TypeOK
<1>5. Awake' /\ Idle' /\ Anew' /\ Again' /\ Waiting' /\ HeldIsTyped'
  BY <1>1 DEF PadInv, Awake, Idle, Anew, Again, Waiting, HeldIsTyped
<1> QED BY <1>4, <1>5 DEF PadInv

(* While a key is down time passes only in the rest after a scan. *)
LEMMA TickPad ==
    ASSUME PadInv, Tick
    PROVE  PadInv'
<1>0. /\ sinceAccp \in 0..(FirstDelay + 1) /\ sinceInpt \in 0..Gap /\ sincePress \in 0..(Quiet + 1) /\ away \in 0..Quiesced
      /\ TypedBy + 1 \in Nat /\ FirstDelay + 1 \in Nat /\ Quiet + 1 \in Nat /\ Quiesced \in Nat
      /\ TypedBy = FirstDelay + Pause /\ Quiesced = Gap + Pause
  BY PadFacts DEF PadInv, TypeOK, TypedBy, Quiesced
<1>1. /\ UNCHANGED <<held, s_keypad_in_sem, resting, last_inpt_char, longpress_start_flag, times,
                     down, last_btn_press, calm>>
      /\ sinceAccp' = Older(sinceAccp, FirstDelay + 1) /\ sinceInpt' = Older(sinceInpt, Gap)
      /\ sincePress' = Older(sincePress, Quiet + 1)
      /\ away' = IF held = {} THEN Older(away, Quiesced) ELSE away
      /\ unseen' = [k \in Chars |-> IF k \in held THEN Older(unseen[k], TypedBy + 1) ELSE 0]
      /\ out' = <<>>
  BY DEF Tick
<1>2. s_keypad_in_sem = 1 => resting
  BY DEF Tick
<1>3. resting => sinceInpt < Pause
  BY <1>0, PadFacts DEF Tick
<1>4. held # {} => s_keypad_in_sem = 1
  BY DEF PadInv, Awake
<1>5. /\ sinceAccp' \in 0..(FirstDelay + 1) /\ sinceInpt' \in 0..Gap /\ sincePress' \in 0..(Quiet + 1)
      /\ away' \in 0..Quiesced
  BY <1>0, <1>1, Ages, PadFacts
<1>6. /\ sinceInpt < Gap => sinceInpt' = sinceInpt + 1
      /\ sinceInpt = Gap => sinceInpt' = Gap
      /\ sinceAccp <= FirstDelay => sinceAccp' = sinceAccp + 1
      /\ sinceAccp' <= FirstDelay => sinceAccp <= FirstDelay
      /\ held = {} => away' <= away + 1
  <2>1. /\ sinceInpt < Gap => sinceInpt' = sinceInpt + 1
        /\ sinceInpt = Gap => sinceInpt' = Gap
    BY <1>0, <1>1, Ages, PadFacts
  <2>2. /\ sinceAccp < FirstDelay + 1 => sinceAccp' = sinceAccp + 1
        /\ sinceAccp = FirstDelay + 1 => sinceAccp' = sinceAccp
    BY <1>0, <1>1, Ages
  <2>3. held = {} => away' <= away + 1
    BY <1>0, <1>1, Ages
  <2> QED BY <1>0, <2>1, <2>2, <2>3, PadFacts
<1>7. resting => sinceInpt' = sinceInpt + 1 /\ sinceInpt' <= Pause
  BY <1>0, <1>3, <1>6, PadFacts
<1>8. \A k \in Chars : /\ unseen'[k] \in 0..(TypedBy + 1)
                       /\ k \in held => unseen'[k] <= unseen[k] + 1
                       /\ k \notin held => unseen'[k] = 0
  <2>1. SUFFICES ASSUME NEW k \in Chars
                 PROVE  /\ unseen'[k] \in 0..(TypedBy + 1)
                        /\ k \in held => unseen'[k] <= unseen[k] + 1
                        /\ k \notin held => unseen'[k] = 0
    OBVIOUS
  <2>2. unseen[k] \in 0..(TypedBy + 1)
    BY DEF PadInv, TypeOK
  <2>3. Older(unseen[k], TypedBy + 1) \in 0..(TypedBy + 1) /\ Older(unseen[k], TypedBy + 1) <= unseen[k] + 1
    BY <1>0, <2>2, Ages
  <2>4. unseen'[k] = IF k \in held THEN Older(unseen[k], TypedBy + 1) ELSE 0
    BY <1>1
  <2> QED BY <1>0, <2>3, <2>4
<1>9. TypeOK'
  <2>1. resting' \in BOOLEAN /\ (resting' => sinceInpt' <= Pause)
    BY <1>1, <1>7 DEF PadInv, TypeOK
  <2>2. unseen' \in [Chars -> 0..(TypedBy + 1)]
    BY <1>1, <1>8
  <2> QED BY <1>1, <1>5, <2>1, <2>2 DEF PadInv, TypeOK
<1>10. Awake'
  BY <1>1 DEF PadInv, Awake
<1>11. Idle'
  <2>1. SUFFICES ASSUME held = {}
                 PROVE  IF s_keypad_in_sem = 1 THEN away' <= Pause /\ (resting => away' <= sinceInpt')
                                               ELSE sinceInpt' = Gap \/ away' <= sinceInpt' + Pause
    BY <1>1 DEF Idle
  <2>2. CASE s_keypad_in_sem = 1
    <3>1. resting /\ away <= sinceInpt
      BY <1>2, <2>1, <2>2 DEF PadInv, Idle
    <3> QED BY <1>0, <1>5, <1>6, <1>7, <2>1, <2>2, <3>1, PadFacts
  <2>3. CASE s_keypad_in_sem # 1
    <3>1. sinceInpt = Gap \/ away <= sinceInpt + Pause
      BY <2>1, <2>3 DEF PadInv, Idle
    <3> QED BY <1>0, <1>5, <1>6, <2>1, <2>3, <3>1, PadFacts
  <2> QED BY <2>2, <2>3
<1>12. Anew'
  <2>1. SUFFICES ASSUME held # {}, away = Quiesced PROVE times > 0 \/ sinceInpt' = Gap
    BY <1>1 DEF Anew
  <2>2. times > 0 \/ sinceInpt = Gap
    BY <2>1 DEF PadInv, Anew
  <2> QED BY <1>6, <2>2
<1>13. Again'
  <2>1. times > 0 => last_inpt_char \in held /\ sinceInpt' <= Pause
    BY <1>2, <1>4, <1>7 DEF PadInv, Again
  <2> QED BY <1>1, <2>1 DEF PadInv, Again
<1>14. Waiting'
  <2>1. SUFFICES ASSUME NEW k \in held
                 PROVE  /\ unseen'[k] <= FirstDelay + Pause
                        /\ unseen'[k] <= FirstDelay + sinceInpt'
                        /\ k = last_inpt_char /\ sinceAccp' <= FirstDelay => unseen'[k] <= sinceAccp'
    BY <1>1 DEF Waiting
  <2>2. k \in Chars /\ unseen[k] \in Nat /\ unseen'[k] \in Nat
    BY <1>8 DEF PadInv, TypeOK
  <2>3. resting /\ unseen[k] <= FirstDelay + sinceInpt
    BY <1>2, <1>4 DEF PadInv, Waiting
  <2>4. k = last_inpt_char /\ sinceAccp <= FirstDelay => unseen[k] <= sinceAccp
    BY DEF PadInv, Waiting
  <2>5. unseen'[k] <= unseen[k] + 1
    BY <1>8, <2>2
  <2>6. unseen'[k] <= FirstDelay + sinceInpt' /\ unseen'[k] <= FirstDelay + Pause
    BY <1>0, <1>5, <1>7, <2>2, <2>3, <2>5, PadFacts
  <2>7. k = last_inpt_char /\ sinceAccp' <= FirstDelay => unseen'[k] <= sinceAccp'
    BY <1>0, <1>5, <1>6, <2>2, <2>4, <2>5, PadFacts
  <2> QED BY <2>6, <2>7
<1>15. HeldIsTyped'
  <2>1. ASSUME NEW k \in Chars PROVE unseen'[k] <= FirstDelay + Pause
    <3>1. CASE k \in held
      BY <1>1, <1>14, <3>1 DEF Waiting
    <3>2. CASE k \notin held
      BY <1>8, <3>2, PadFacts
    <3> QED BY <3>1, <3>2
  <2> QED BY <2>1 DEF HeldIsTyped, TypedBy
<1> QED BY <1>9, <1>10, <1>11, <1>12, <1>13, <1>14, <1>15 DEF PadInv

(* The effect of a scan, from what is known of its last round. *)
LEMMA ScanEffect ==
    ASSUME PadInv, Scan
    PROVE  /\ last_inpt_char' \in Chars \cup {"none"} /\ sinceAccp' \in 0..(FirstDelay + 1)
           /\ longpress_start_flag' \in BOOLEAN /\ out' \in Seq(Chars)
           /\ IF out' = <<>>
              THEN UNCHANGED <<last_inpt_char, sinceAccp, longpress_start_flag, times>>
              ELSE /\ sinceAccp' = 0 /\ last_inpt_char' \in held /\ last_inpt_char' \in Range(out')
                   /\ IF out' # <<last_inpt_char>>
                      THEN times' = 1 /\ longpress_start_flag' = TRUE
                      ELSE /\ AcceptedAgain
                           /\ sinceInpt >= Gap => longpress_start_flag' = TRUE
                           /\ times' = IF times = 0 /\ away = Quiesced THEN 1 ELSE 2
           /\ unseen' = [k \in Chars |-> IF k \in Range(out') THEN 0 ELSE unseen[k]]
           /\ \A k \in held : \/ k \in Range(out')
                              \/ k = last_inpt_char /\ sinceAccp <= FirstDelay /\ sinceInpt < Gap
<1> DEFINE s == Scanned[Len(Pad)]
<1>1. Scans(s, Len(Pad))
  BY ScanResult DEF PadInv
<1>2. /\ last_inpt_char' = s.char /\ longpress_start_flag' = s.flag /\ sinceAccp' = s.accp /\ out' = s.typed
      /\ unseen' = [k \in Chars |-> IF k \in Range(s.typed) THEN 0 ELSE unseen[k]]
      /\ times' = IF s.typed = <<>> THEN times
                  ELSE IF s.typed # <<last_inpt_char>> \/ (times = 0 /\ away = Quiesced) THEN 1
                  ELSE 2
  BY DEF Scan
<1> HIDE DEF s
<1>3. /\ last_inpt_char' \in Chars \cup {"none"} /\ sinceAccp' \in 0..(FirstDelay + 1)
      /\ longpress_start_flag' \in BOOLEAN /\ out' \in Seq(Chars)
  BY <1>1, <1>2 DEF Scans, ScanTyped
<1>4. unseen' = [k \in Chars |-> IF k \in Range(out') THEN 0 ELSE unseen[k]]
  BY <1>2
<1>5. ASSUME NEW k \in held
      PROVE  k \in Range(out') \/ (k = last_inpt_char /\ sinceAccp <= FirstDelay /\ sinceInpt < Gap)
  <2>1. PICK j \in 1..Len(Pad) : k = Pad[j]
    BY PadFacts DEF PadInv, TypeOK
  <2> QED BY <1>1, <1>2, <2>1 DEF Scans, ScanFinds
<1>6. CASE out' = <<>>
  <2>1. s = Before
    BY <1>1, <1>2, <1>6 DEF Scans, ScanKeeps
  <2>3. times' = times
    BY <1>2, <1>6
  <2>2. UNCHANGED <<last_inpt_char, sinceAccp, longpress_start_flag>>
    BY <1>2, <2>1 DEF Before
  <2> QED BY <1>3, <1>4, <1>5, <1>6, <2>2, <2>3
<1>7. CASE out' # <<>> /\ out' # <<last_inpt_char>>
  <2>1. sinceAccp' = 0 /\ last_inpt_char' \in held /\ last_inpt_char' \in Range(out')
    BY <1>1, <1>2, <1>7 DEF Scans, ScanKeeps
  <2>2. longpress_start_flag' = TRUE
    BY <1>1, <1>2, <1>7 DEF Scans, ScanFlags
  <2>3. times' = 1
    BY <1>2, <1>7
  <2> QED BY <1>3, <1>4, <1>5, <1>7, <2>1, <2>2, <2>3
<1>8. CASE out' # <<>> /\ out' = <<last_inpt_char>>
  <2>1. sinceAccp' = 0 /\ last_inpt_char' \in held /\ last_inpt_char' \in Range(out')
    BY <1>1, <1>2, <1>8 DEF Scans, ScanKeeps
  <2>2. AcceptedAgain /\ (sinceInpt >= Gap => longpress_start_flag' = TRUE)
    BY <1>1, <1>2, <1>8 DEF Scans, ScanFlags
  <2>3. times' = IF times = 0 /\ away = Quiesced THEN 1 ELSE 2
    BY <1>2, <1>8
  <2> QED BY <1>3, <1>4, <1>5, <1>8, <2>1, <2>2, <2>3
<1> QED BY <1>6, <1>7, <1>8

LEMMA ScanPad ==
    ASSUME PadInv, Scan
    PROVE  PadInv'
<1>1. /\ s_keypad_in_sem = 1 /\ resting = FALSE /\ resting' = TRUE /\ sinceInpt' = 0
      /\ s_keypad_in_sem' = IF held # {} THEN 1 ELSE 0
      /\ UNCHANGED <<held, away, down, last_btn_press, sincePress, calm>>
  BY DEF Scan, Triggered, btnVars, PadInv, TypeOK
<1>2. /\ sinceAccp \in 0..(FirstDelay + 1) /\ sinceInpt \in 0..Gap /\ away \in 0..Quiesced /\ times \in 0..2
      /\ Quiesced = Gap + Pause /\ TypedBy = FirstDelay + Pause /\ held \subseteq Chars
      /\ unseen \in [Chars -> 0..(TypedBy + 1)]
  BY DEF PadInv, TypeOK, Quiesced, TypedBy
<1>3. times' \in {0, 1, 2} /\ (times' = 0 => out' = <<>> /\ times = 0)
  <2>1. CASE out' = <<>>
    BY <1>2, <2>1, ScanEffect
  <2>2. CASE out' # <<>> /\ out' # <<last_inpt_char>>
    BY <2>2, ScanEffect
  <2>3. CASE out' # <<>> /\ out' = <<last_inpt_char>>
    <3>1. times' \in {1, 2}
      BY <2>3, ScanEffect
    <3> QED BY <2>3, <3>1
  <2> QED BY <2>1, <2>2, <2>3
<1>4. \A k \in Chars : unseen'[k] = IF k \in Range(out') THEN 0 ELSE unseen[k]
  BY ScanEffect
<1>5. TypeOK'
  <2>1. resting' \in BOOLEAN /\ (resting' => sinceInpt' <= Pause)
    BY <1>1, PadFacts
  <2>2. unseen' \in [Chars -> 0..(TypedBy + 1)]
    <3>1. 0 \in 0..(TypedBy + 1)
      BY <1>2, PadFacts
    <3> QED BY <1>2, <3>1, ScanEffect
  <2>3. longpress_start_flag' \in BOOLEAN /\ last_inpt_char' \in Chars \cup {"none"} /\ sinceAccp' \in 0..(FirstDelay + 1)
    BY ScanEffect
  <2>4. out' \in Seq(Chars \cup Btns)
    <3>1. out' \in Seq(Chars)
      BY ScanEffect
    <3> QED BY <3>1
  <2>5. sinceInpt' \in 0..Gap /\ s_keypad_in_sem' \in 0..1 /\ times' \in 0..2
    BY <1>1, <1>3, PadFacts
  <2> QED BY <1>1, <2>1, <2>2, <2>3, <2>4, <2>5 DEF PadInv, TypeOK
<1>6. Awake'
  BY <1>1 DEF Awake
<1>7. Idle'
  <2>1. held = {} => away <= Pause
    BY <1>1 DEF PadInv, Idle
  <2> QED BY <1>1, <1>2, <2>1, PadFacts DEF Idle
<1>8. Anew'
  <2>1. SUFFICES ASSUME held # {}, away = Quiesced, times' = 0 PROVE FALSE
    BY <1>1, <1>3 DEF Anew
  <2>2. out' = <<>> /\ times = 0 /\ sinceInpt = Gap
    BY <1>3, <2>1 DEF PadInv, Anew
  <2>3. PICK k \in held : k \in Range(out')
    BY <1>2, <2>1, <2>2, ScanEffect, PadFacts
  <2> QED BY <2>2, <2>3 DEF Range
<1>9. Again'
  <2>1. times' > 0 => last_inpt_char' \in held
    BY <1>2, ScanEffect DEF PadInv, Again
  <2>2. times' = 1 => longpress_start_flag' = TRUE
    <3>1. SUFFICES ASSUME times' = 1 PROVE longpress_start_flag' = TRUE
      OBVIOUS
    <3>2. CASE out' = <<>>
      BY <3>1, <3>2, ScanEffect DEF PadInv, Again
    <3>3. CASE out' # <<>> /\ out' # <<last_inpt_char>>
      BY <3>3, ScanEffect
    <3>4. CASE out' # <<>> /\ out' = <<last_inpt_char>>
      <4>1. times = 0 /\ away = Quiesced
        BY <3>1, <3>4, ScanEffect
      <4>2. held # {}
        BY <1>1, <3>4, ScanEffect
      <4>3. sinceInpt = Gap
        BY <4>1, <4>2 DEF PadInv, Anew
      <4> QED BY <3>4, <4>3, ScanEffect, PadFacts
    <3> QED BY <3>2, <3>3, <3>4
  <2> QED BY <1>1, <2>1, <2>2, PadFacts DEF Again
<1>10. Waiting'
  <2>1. SUFFICES ASSUME NEW k \in held
                 PROVE  /\ unseen'[k] <= FirstDelay
                        /\ k = last_inpt_char' /\ sinceAccp' <= FirstDelay => unseen'[k] <= sinceAccp'
    <3>1. ASSUME NEW k \in held, unseen'[k] <= FirstDelay
          PROVE  unseen'[k] <= FirstDelay + Pause /\ unseen'[k] <= FirstDelay + sinceInpt'
      <4>1. unseen'[k] \in Nat
        BY <1>2, <1>5, <3>1 DEF TypeOK
      <4> QED BY <1>1, <3>1, <4>1, PadFacts
    <3> QED BY <1>1, <2>1, <3>1 DEF Waiting
  <2>2. k \in Chars
    BY <1>2
  <2>3. CASE k \in Range(out')
    <3>1. unseen'[k] = 0
      BY <1>4, <2>2, <2>3
    <3>2. sinceAccp' >= 0
      BY ScanEffect, PadFacts
    <3> QED BY <3>1, <3>2, PadFacts
  <2>4. CASE k \notin Range(out')
    <3>1. unseen'[k] = unseen[k] /\ k = last_inpt_char /\ sinceAccp <= FirstDelay
      BY <1>4, <2>2, <2>4, ScanEffect
    <3>2. unseen[k] <= sinceAccp /\ unseen[k] \in Nat
      BY <1>2, <2>2, <3>1 DEF PadInv, Waiting
    <3>3. CASE out' = <<>>
      <4>1. sinceAccp' = sinceAccp
        BY <3>3, ScanEffect
      <4> QED BY <1>2, <3>1, <3>2, <4>1, PadFacts
    <3>4. CASE out' # <<>>
      <4>1. k # last_inpt_char'
        BY <2>4, <3>4, ScanEffect
      <4> QED BY <1>2, <3>1, <3>2, <4>1, PadFacts
    <3> QED BY <3>3, <3>4
  <2> QED BY <2>3, <2>4
<1>11. HeldIsTyped'
  <2>1. ASSUME NEW k \in Chars PROVE unseen'[k] <= FirstDelay + Pause
    BY <1>4, PadFacts DEF PadInv, HeldIsTyped, TypedBy
  <2> QED BY <2>1 DEF HeldIsTyped, TypedBy
<1> QED BY <1>5, <1>6, <1>7, <1>8, <1>9, <1>10, <1>11 DEF PadInv

LEMMA PadStep == PadInv /\ [Next]_vars => PadInv'
<1> SUFFICES ASSUME PadInv, [Next]_vars PROVE PadInv'
  OBVIOUS
<1>1. ASSUME NEW k \in Chars, PressKey(k) \/ ReleaseKey(k) PROVE PadInv'
  BY <1>1, PressPad, ReleasePad
<1>2. ASSUME NEW b \in Btns, BtnEdge(b) PROVE PadInv'
  BY <1>2, EdgePad
<1>3. CASE Scan \/ Rested \/ Tick
  BY <1>3, ScanPad, RestedPad, TickPad
<1>4. CASE UNCHANGED vars
  BY <1>4 DEF vars, padVars, btnVars, PadInv, TypeOK, Awake, Idle, Anew, Again, Waiting, HeldIsTyped
<1> QED BY <1>1, <1>2, <1>3, <1>4 DEF Next

(* The semaphore is binary (keypad.c:95), the rest after a scan is not     *)
(* overslept, and a step publishes keys and buttons only.                  *)
THEOREM InputTyped == Spec => []TypeOK
<1>1. PadInv => TypeOK
  BY DEF PadInv
<1> QED BY <1>1, PadInitial, PadStep, PTL DEF Spec

(* Whatever other keys do, a key that stays down is typed within 600 ms    *)
(* and a rest of the task: a held row keeps a ticket in the semaphore, and *)
(* a scan passes over the last key typed alone (keypad.c:19-53).           *)
THEOREM HeldKeysTyped == Spec => []HeldIsTyped
<1>1. PadInv => HeldIsTyped
  BY DEF PadInv
<1> QED BY <1>1, PadInitial, PadStep, PTL DEF Spec

(* A key that stays down is typed a second time after 600 ms and from then *)
(* on after 150 ms at the earliest (keypad.c:31), on a pad of any size     *)
(* under any use of the other keys.                                        *)
THEOREM KeysArePaced == Spec => KeysPaced
<1> DEFINE A == out' = <<last_inpt_char>> /\ times > 0
                  => sinceAccp > IF times = 1 THEN FirstDelay ELSE RepeatDelay
<1>1. PadInv /\ [Next]_vars => [A]_vars
  <2> SUFFICES ASSUME PadInv, Next, out' = <<last_inpt_char>>, times > 0
               PROVE  sinceAccp > IF times = 1 THEN FirstDelay ELSE RepeatDelay
    BY DEF vars
  <2>1. last_inpt_char \in held /\ sinceInpt <= Pause /\ (times = 1 => longpress_start_flag = TRUE)
    BY DEF PadInv, Again
  <2>2. last_inpt_char \in Chars /\ sinceInpt \in Nat /\ sinceAccp \in Nat /\ times \in 0..2
    BY <2>1 DEF PadInv, TypeOK
  <2>3. out' # <<>>
    OBVIOUS
  <2>4. ~ \E k \in Chars : PressKey(k) \/ ReleaseKey(k)
    BY <2>3 DEF PressKey, ReleaseKey
  <2>5. ~ \E b \in Btns : BtnEdge(b)
    <3>1. ASSUME NEW b \in Btns, BtnEdge(b) PROVE FALSE
      <4>1. out' = <<>> \/ out' = <<b>>
        BY <3>1 DEF BtnEdge, Published
      <4>2. out' = <<b>> => b = last_inpt_char
        OBVIOUS
      <4> QED BY <2>2, <2>3, <4>1, <4>2, PadFacts
    <3> QED BY <3>1
  <2>6. ~ Rested /\ ~ Tick
    BY <2>3 DEF Rested, Tick
  <2>7. Scan
    BY <2>4, <2>5, <2>6 DEF Next
  <2>8. AcceptedAgain
    BY <2>3, <2>7, ScanEffect
  <2>9. ~(sinceInpt >= Gap)
    BY <2>1, <2>2, PadFacts
  <2>10. sinceAccp > RepeatDelay /\ (longpress_start_flag = TRUE => sinceAccp > FirstDelay)
    BY <2>8, <2>9 DEF AcceptedAgain
  <2> QED BY <2>1, <2>10
<1> QED BY <1>1, PadInitial, PadStep, PTL DEF Spec, KeysPaced
=============================================================================
