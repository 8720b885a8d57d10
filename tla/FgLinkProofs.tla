---------------------------- MODULE FgLinkProofs ----------------------------
(* For any number of touches, faults and steps: jobs are paid for by       *)
(* touches, the task keeps the promise of Fingerprint, and a job in which  *)
(* nothing goes wrong opens the door only for a finger it recognised.      *)
EXTENDS FgLink, ListProofs

(* A ticket that was found, or is there to be found, is owed a job until   *)
(* the job is started.                                                     *)
Owed ==
    \/ pc = "peek" /\ ticket = 1
    \/ pc = "boot"
    \/ pc \in {"send", "recv", "renew"} /\ cmd \in {"AUTH_DEF", "LED_ON"}

JobInv ==
    /\ pc \in {"peek", "boot", "send", "recv", "renew", "sleep", "take"}
    /\ pc \notin {"peek", "take"} => job \in Job!Jobs
    /\ ticket \in 0..1
    /\ jobs \in Nat /\ wanted \in Nat
    /\ Owed => jobs < wanted
    /\ JobsPaid

(* JobInv holds at first ...                                               *)
LEMMA JobInitial == Init => JobInv
  BY SMT DEF Init, JobInv, Owed, JobsPaid

(* The three ways a command can end. *)
LEMMA AfterReturn ==
    ASSUME JobInv, pc \in {"recv", "renew"}, NEW ok, NEW b, Returns(ok, b), UNCHANGED touchVars
    PROVE  JobInv'
<1> USE DEF touchVars
<1>1. ASSUME NEW next, cmd = "AUTH_DEF" \/ next \notin {"AUTH_DEF", "LED_ON"}, GoOn(next)
      PROVE  JobInv'
  BY <1>1 DEF GoOn, JobInv, Owed, JobsPaid, jobVars
<1>2. ASSUME NEW events, EndJob(events)
      PROVE  JobInv'
  BY <1>2 DEF EndJob, JobInv, Owed, JobsPaid
<1>3. ASSUME cmd = "LED_ON", StartJob
      PROVE  JobInv'
  <2>1. job \in {"SEARCH_N_SIGNIN", "ENROLL", "DEL_ALL"}
    BY DEF JobInv, Job!Jobs
  <2>2. cmd' \notin {"AUTH_DEF", "LED_ON"}
    BY <1>3, <2>1 DEF StartJob
  <2>3. jobs < wanted /\ jobs' = jobs + 1
    BY <1>3 DEF JobInv, Owed, StartJob
  <2> QED BY <1>3, <2>2, <2>3 DEF StartJob, JobInv, Owed, JobsPaid
<1>4. ASSUME cmd = "ENROLL", Enrolling(ok, b)
      PROVE  JobInv'
  <2>1. ASSUME pc' = "recv", UNCHANGED <<jobVars, cmd>>
        PROVE  JobInv'
    BY <1>4, <2>1 DEF JobInv, Owed, JobsPaid, jobVars
  <2> QED BY <1>2, <1>4, <2>1 DEF Enrolling, GivesUp, jobVars
<1>5. cmd = "AUTH_DEF" /\ GoOn("LED_ON") => JobInv'
  BY <1>1
<1>6. GoOn("GEN_PATTERN") \/ GoOn("SEARCH_PATTERN") => JobInv'
  BY <1>1
<1> QED BY <1>2, <1>3, <1>4, <1>5, <1>6 DEF Returns

(* ... and is kept by every step: a ticket is given by a touch, taken once.*)
LEMMA JobStep == JobInv /\ [Next]_vars => JobInv'
<1> SUFFICES ASSUME JobInv, Next \/ UNCHANGED vars PROVE JobInv'
  OBVIOUS
<1> USE DEF touchVars, jobVars
<1>1. ASSUME NEW next \in Job!Jobs, Wake(next) PROVE JobInv'
  BY <1>1 DEF Wake, JobInv, Owed, JobsPaid
<1>2. BootDone => JobInv'
  BY DEF BootDone, JobInv, Owed, JobsPaid
<1>3. Send => JobInv'
  BY DEF Send, JobInv, Owed, JobsPaid
<1>4. TimesOut => JobInv'
  BY AfterReturn DEF TimesOut, Failed, Receiving
<1>5. ReadsJunk => JobInv'
  BY AfterReturn DEF ReadsJunk, Failed, Receiving
<1>6. ASSUME NEW complete, Renew(complete), pc \in {"recv", "renew"}, UNCHANGED touchVars PROVE JobInv'
  BY <1>6 DEF Renew, JobInv, Owed, JobsPaid
<1>7. ReadsReply => JobInv'
  BY <1>6, AfterReturn DEF ReadsReply, Receiving
<1>8. ReadsHead => JobInv'
  BY <1>6, AfterReturn DEF ReadsHead, Failed, Receiving
<1>9. Sleep => JobInv'
  BY DEF Sleep, JobInv, Owed, JobsPaid
<1>10. TakeTicket => JobInv'
  BY DEF TakeTicket, Spend, JobInv, Owed, JobsPaid
<1>11. Publish => JobInv'
  BY DEF Publish, JobInv, Owed, JobsPaid
<1>12. Arrives => JobInv'
  BY DEF Arrives, JobInv, Owed, JobsPaid
<1>13. Reports => JobInv'
  BY DEF Reports, JobInv, Owed, JobsPaid
<1>14. Touch => JobInv'
  BY DEF Touch, JobInv, Owed, JobsPaid
<1>15. UNCHANGED vars => JobInv'
  BY DEF vars, JobInv, Owed, JobsPaid
<1> QED
  BY <1>1, <1>2, <1>3, <1>4, <1>5, <1>7, <1>8, <1>9, <1>10, <1>11, <1>12, <1>13, <1>14, <1>15
  DEF Next, Service, Outside

(* A touch during a job shares the semaphore with the touch the job was    *)
(* started by, and both are spent at its end (fg_reader.c:476): no job is  *)
(* started without a touch of the idle reader of its own.                  *)
THEOREM TouchesPayForJobs == Spec => []JobsPaid
<1>1. JobInv => JobsPaid
  BY DEF JobInv
<1> QED BY <1>1, JobInitial, JobStep, PTL DEF Spec
-----------------------------------------------------------------------------
Opening == {"AUTH_DEF", "LED_ON"}
CommandsOf(j) ==
    CASE j = "SEARCH_N_SIGNIN" -> {"READ_SENSOR", "GEN_PATTERN", "SEARCH_PATTERN"}
      [] j = "ENROLL" -> {"ENROLL"}
      [] j = "DEL_ALL" -> {"CLEAR_ALL_FG"}
Busy == pc \in {"send", "recv", "renew"}

(* Where the task is in its job, and what the reader may still report. *)
PhaseInv ==
    /\ started <=> Busy /\ cmd \notin Opening
    /\ Busy => cmd \in Opening \cup CommandsOf(job)
    /\ ~started => retaps = 0
    /\ pc = "boot" \/ Busy => Count(wire, Retap) + Count(rx, Retap) <= retaps
    /\ buf.code = "denied" => buf.step = "none"
    /\ pc = "renew" => buf.code = "denied"
    /\ wanted <= touches

(* In a job in which nothing went wrong, the reply awaited is the only one *)
(* there is, and a match is one of this job.                               *)
Sole(r) == (wire = <<r>> /\ rx = <<>>) \/ (wire = <<>> /\ rx = <<r>>)
Expected == {r \in Message : r.to = cmd /\ r.code \in Codes(cmd) /\ r.good /\ (r.code = "match" => matched)}
CalmInv ==
    ~disturbed =>
        /\ pc = "boot" => Sole(Booted)
        /\ pc = "send" => wire = <<>> /\ rx = <<>>
        /\ pc = "recv" /\ cmd # "ENROLL" => \E r \in Expected : Sole(r)
        /\ pc = "renew" => cmd = "ENROLL"

(* The three invariants hold at first.                                     *)
LEMMA FgInitial == Init => TypeOK /\ PhaseInv /\ CalmInv
<1> SUFFICES ASSUME Init PROVE TypeOK /\ PhaseInv /\ CalmInv
  OBVIOUS
<1>1. TypeOK
  <2>1. DOMAIN todo = Tasks /\ todo["fg"] = <<>>
    BY DEF Init, BusInit, NothingToDo, Tasks
  <2>2. buf \in Buffers
    BY DEF Init, NoBuf, Buffers
  <2>3. /\ ticket \in 0..1 /\ faults \in 0..MaxFaults /\ retaps \in 0..Retaps /\ steps \in 0..MaxSteps
        /\ waited \in 0..EnrolWaits /\ touches \in 0..MaxTouches /\ jobs \in Nat /\ wanted \in Nat
    BY FgLinkAssumption DEF Init
  <2>4. {started, whole, disturbed, matched} \subseteq BOOLEAN
    BY DEF Init
  <2>5. wire \in Seq(Message) /\ rx \in Seq(Message)
    BY DEF Init
  <2>6. /\ pc \in {"peek", "boot", "send", "recv", "renew", "sleep", "take"}
        /\ job \in Job!Jobs \cup {"NONE"} /\ cmd \in Commands \cup {"none"}
    BY DEF Init
  <2> QED BY <2>1, <2>2, <2>3, <2>4, <2>5, <2>6 DEF TypeOK
<1>2. PhaseInv
  BY DEF Init, PhaseInv, Busy, NoBuf
<1>3. CalmInv
  BY DEF Init, CalmInv
<1> QED BY <1>1, <1>2, <1>3

(* How a command can end. *)
Continues ==
    /\ pc' = "send" /\ UNCHANGED <<jobVars, waited, todo, retaps>>
    /\ \/ cmd = "AUTH_DEF" /\ cmd' = "LED_ON"
       \/ cmd = "READ_SENSOR" /\ cmd' = "GEN_PATTERN"
       \/ cmd = "GEN_PATTERN" /\ cmd' = "SEARCH_PATTERN"
EnrolsOn ==
    /\ cmd = "ENROLL" /\ pc' = "recv" /\ waited' \in 0..EnrolWaits
    /\ UNCHANGED <<jobVars, cmd, todo, retaps>>
RetapsOne(ok, b) ==
    /\ cmd = "ENROLL" /\ ok /\ b.step = "retap"
    /\ pc' = "recv" /\ waited' = 0 /\ UNCHANGED <<jobVars, cmd>>
    /\ Start("fg", Job!Report("PROGRESS_SUCC")) /\ retaps' = retaps - 1
Ends(ok, b, events) ==
    /\ cmd \notin Opening /\ EndJob(events)
    /\ events = Job!TrustedAuth => cmd = "SEARCH_PATTERN" /\ ok /\ Recognised(b)

(* How a job ends, by the outcome of a reply: each end is typed.           *)
LEMMA Outcomes ==
    ASSUME TypeOK, PhaseInv, JobInv, pc \in {"recv", "renew"}, NEW ok \in BOOLEAN, NEW b, Returns(ok, b)
    PROVE  \/ Continues
           \/ cmd = "LED_ON" /\ StartJob
           \/ EnrolsOn
           \/ RetapsOne(ok, b)
           \/ \E events \in Job!Endings(job) : Ends(ok, b, events)
<1>1. job \in Job!Jobs /\ cmd \in Opening \cup CommandsOf(job)
  BY DEF JobInv, PhaseInv, Busy
<1>2. /\ cmd \in {"READ_SENSOR", "GEN_PATTERN", "SEARCH_PATTERN"} => job = "SEARCH_N_SIGNIN"
      /\ cmd = "ENROLL" => job = "ENROLL"
      /\ cmd = "CLEAR_ALL_FG" => job = "DEL_ALL"
  BY <1>1 DEF Opening, CommandsOf, Job!Jobs
<1>3. /\ job = "SEARCH_N_SIGNIN" => Job!Endings(job) = {Job!TrustedAuth, Job!Report("JOB_FAIL"), <<>>}
      /\ job = "ENROLL" => Job!Endings(job) = {Job!Report("JOB_SUCC"), Job!Report("PROGRESS_FAIL"), <<>>}
      /\ job = "DEL_ALL" => Job!Endings(job) = {Job!Report("JOB_SUCC"), Job!Report("JOB_FAIL")}
  BY DEF Job!Endings
<1>4. Job!TrustedAuth # <<>> /\ \A p : Job!TrustedAuth # Job!Report(p)
  <2>1. Job!TrustedAuth # <<>> /\ Job!TrustedAuth[1].msg.type = "auth"
    BY DEF Job!TrustedAuth, Job!To
  <2>2. \A p : Job!Report(p)[1].msg.type = "fg"
    BY DEF Job!Report, Job!To
  <2> QED BY <2>1, <2>2
<1>5. CASE cmd \in Opening
  BY <1>5 DEF Returns, Opening, GoOn, Continues
<1>6. CASE cmd = "READ_SENSOR" \/ cmd = "GEN_PATTERN"
  BY <1>2, <1>3, <1>4, <1>6 DEF Returns, GoOn, Continues, Ends, Opening
<1>7. CASE cmd = "SEARCH_PATTERN"
  BY <1>2, <1>3, <1>4, <1>7 DEF Returns, Ends, Opening
<1>8. CASE cmd = "CLEAR_ALL_FG"
  BY <1>2, <1>3, <1>4, <1>8 DEF Returns, Ends, Opening
<1>9. CASE cmd = "ENROLL"
  <2>1. Enrolling(ok, b) /\ cmd \notin Opening
    BY <1>9 DEF Returns, Opening
  <2> DEFINE waiting == IF ok \/ Len(rx) > 1 THEN waited ELSE waited + 1
  <2>2. StillEnrolling(waiting) => waiting \in 0..EnrolWaits
    BY FgLinkAssumption DEF StillEnrolling, TypeOK
  <2>3. 0 \in 0..EnrolWaits
    BY FgLinkAssumption
  <2>4. ASSUME NEW events \in {<<>>, Job!Report("JOB_SUCC"), Job!Report("PROGRESS_FAIL")}, EndJob(events)
        PROVE  \E e \in Job!Endings(job) : Ends(ok, b, e)
    BY <1>2, <1>3, <1>4, <1>9, <2>1, <2>4 DEF Ends
  <2>5. CASE ~ok \/ b.step = "launch"
    BY <1>9, <2>1, <2>2, <2>4, <2>5 DEF Enrolling, EnrolsOn
  <2>6. CASE ok /\ b.step # "launch" /\ Zero(b)
    BY <1>9, <2>1, <2>3, <2>4, <2>6 DEF Enrolling, EnrolsOn, RetapsOne
  <2>7. CASE ok /\ b.step # "launch" /\ ~Zero(b)
    BY <2>1, <2>4, <2>7 DEF Enrolling, GivesUp
  <2> QED BY <2>5, <2>6, <2>7
<1> QED BY <1>5, <1>6, <1>7, <1>8, <1>9 DEF TypeOK, Commands, Opening, PhaseInv, Busy, Returns

(* A step of the abstract task, or none of its. *)
Maps ==
    \/ Publishes \/ Job!FgRetap \/ Job!FgEnd \/ \E next \in Job!Jobs : Job!FgStart(next)
    \/ UNCHANGED <<started, retaps, jobs, todo>>

(* The replies that a count of reports looks at. *)
Coming == Count(wire, Retap) + Count(rx, Retap)
LineOK(n) ==
    /\ wire' \in Seq(Message) /\ rx' \in Seq(Message)
    /\ Count(wire', Retap) + Count(rx', Retap) + n <= Coming

LEMMA MessagesCounted ==
    ASSUME NEW s \in Seq(Message)
    PROVE  Count(s, Retap) \in Nat
  BY CountFinite

LEMMA Returned ==
    ASSUME TypeOK, PhaseInv, JobInv, JobInv', pc \in {"recv", "renew"}, Idle("fg"),
           NEW ok \in BOOLEAN, NEW b, Returns(ok, b), UNCHANGED queue, UNCHANGED touchVars,
           LineOK(IF ok /\ b.step = "retap" THEN 1 ELSE 0),
           buf' \in Buffers, whole' = TRUE, UNCHANGED <<steps, matched>>,
           faults' \in 0..MaxFaults, disturbed' \in BOOLEAN,
           buf'.code = "denied" => buf'.step = "none"
    PROVE  TypeOK' /\ PhaseInv' /\ Maps
<1> DEFINE C == Count(wire, Retap) + Count(rx, Retap)
           Cn == Count(wire', Retap) + Count(rx', Retap)
<1>1. C \in Nat /\ Cn \in Nat
  <2>1. /\ wire \in Seq(Message) /\ rx \in Seq(Message)
        /\ wire' \in Seq(Message) /\ rx' \in Seq(Message)
    BY DEF TypeOK, LineOK
  <2> QED BY <2>1, MessagesCounted
<1>2. C <= retaps /\ retaps \in 0..Retaps /\ Cn <= C
  BY <1>1 DEF PhaseInv, Busy, TypeOK, LineOK, Coming
<1>3. ok /\ b.step = "retap" => Cn <= C - 1
  BY <1>1 DEF LineOK, Coming
<1>4. started <=> cmd \notin Opening
  BY DEF PhaseInv, Busy
<1>5. job \in Job!Jobs /\ cmd \in Opening \cup CommandsOf(job) /\ todo["fg"] = <<>>
  BY DEF JobInv, PhaseInv, Busy, Idle
<1>6. ASSUME started' \in BOOLEAN, job' = job, cmd' \in Commands, waited' \in 0..EnrolWaits, retaps' \in 0..Retaps,
             pc' \in {"send", "recv", "sleep"},
             \/ UNCHANGED todo
             \/ \E events \in {<<>>, Job!TrustedAuth} \cup Reported : Start("fg", events)
      PROVE  TypeOK'
  <2>1. DOMAIN todo' = Tasks /\ todo'["fg"] \in {<<>>, Job!TrustedAuth} \cup Reported
    BY <1>6 DEF TypeOK, Start, Tasks
  <2>2. jobs' \in Nat /\ wanted' \in Nat /\ ticket' \in 0..1
    BY DEF JobInv
  <2>3. touches' \in 0..MaxTouches /\ steps' \in 0..MaxSteps /\ {whole', matched'} \subseteq BOOLEAN
    BY DEF TypeOK, touchVars
  <2> QED BY <1>5, <1>6, <2>1, <2>2, <2>3 DEF TypeOK, LineOK
<1>7. wanted' <= touches'
  BY DEF PhaseInv, touchVars
<1>8. CASE Continues
  <2>1. UNCHANGED <<started, job, jobs, todo, retaps>>
    BY <1>8 DEF Continues, jobVars
  <2>2. TypeOK'
    BY <1>6, <1>8, <2>1 DEF Continues, TypeOK, Commands
  <2>3. (cmd' \notin Opening <=> cmd \notin Opening) /\ cmd' \in Opening \cup CommandsOf(job)
    BY <1>5, <1>8 DEF Continues, Opening, CommandsOf, Job!Jobs
  <2> HIDE DEF C, Cn
  <2>4. Cn <= retaps'
    BY <1>1, <1>2, <2>1
  <2>5. PhaseInv'
    BY <1>4, <1>7, <1>8, <2>1, <2>3, <2>4 DEF Continues, PhaseInv, Busy, C, Cn
  <2> QED BY <2>1, <2>2, <2>5 DEF Maps
<1>9. CASE cmd = "LED_ON" /\ StartJob
  <2>1. ~started /\ retaps = 0
    BY <1>4, <1>9 DEF PhaseInv, Opening
  <2>2. cmd' \in CommandsOf(job) /\ cmd' \in Commands /\ cmd' \notin Opening
    BY <1>5, <1>9 DEF StartJob, Job!Jobs, CommandsOf, Commands, Opening
  <2>3. retaps' \in 0..Retaps
    BY <1>9, FgLinkAssumption DEF StartJob
  <2>4. TypeOK'
    <3>1. Job!Report("JOB_START") \in Reported
      BY DEF Reported
    <3> QED BY <1>6, <1>9, <2>2, <2>3, <3>1 DEF StartJob, TypeOK
  <2>5. started' = TRUE /\ job' = job /\ pc' = "send"
    BY <1>9 DEF StartJob
  <2> HIDE DEF C, Cn
  <2>6. Cn <= retaps'
    BY <1>1, <1>2, <2>1, <2>3, FgLinkAssumption
  <2>7. PhaseInv'
    BY <1>7, <2>2, <2>5, <2>6 DEF PhaseInv, Busy, C, Cn
  <2>8. jobs < MaxTouches
    <3>1. jobs < wanted /\ jobs \in Nat /\ wanted \in Nat
      BY <1>9 DEF JobInv, Owed
    <3>2. wanted <= touches /\ touches \in 0..MaxTouches
      BY DEF PhaseInv, TypeOK
    <3> QED BY <3>1, <3>2, FgLinkAssumption
  <2>9. Job!FgStart(job)
    BY <1>9, <2>1, <2>5, <2>8 DEF Job!FgStart, StartJob, Start, Idle, Job!Start, Job!Idle
  <2> QED BY <1>5, <2>4, <2>7, <2>9 DEF Maps
<1>10. CASE EnrolsOn
  <2>1. UNCHANGED <<started, job, jobs, todo, retaps, cmd>> /\ pc' = "recv"
    BY <1>10 DEF EnrolsOn, jobVars
  <2>2. TypeOK'
    BY <1>6, <1>10, <2>1 DEF EnrolsOn, TypeOK, Commands
  <2> HIDE DEF C, Cn
  <2>3. Cn <= retaps'
    BY <1>1, <1>2, <2>1
  <2>4. PhaseInv'
    BY <1>4, <1>5, <1>7, <2>1, <2>3 DEF PhaseInv, Busy, C, Cn
  <2> QED BY <2>1, <2>2, <2>4 DEF Maps
<1>11. CASE RetapsOne(ok, b)
  <2>1. UNCHANGED <<started, job, jobs, cmd>> /\ pc' = "recv" /\ retaps' = retaps - 1
    BY <1>11 DEF RetapsOne, jobVars
  <2> HIDE DEF C, Cn
  <2>2. Cn <= retaps' /\ retaps > 0 /\ retaps' \in 0..Retaps
    BY <1>1, <1>2, <1>3, <1>11, <2>1, FgLinkAssumption DEF RetapsOne
  <2>3. TypeOK'
    <3>1. Job!Report("PROGRESS_SUCC") \in Reported /\ cmd' \in Commands /\ 0 \in 0..EnrolWaits
      BY <1>11, <2>1, FgLinkAssumption DEF Reported, RetapsOne, Commands
    <3> QED BY <1>6, <1>11, <2>1, <2>2, <3>1 DEF RetapsOne, TypeOK
  <2>4. started /\ job = "ENROLL"
    BY <1>4, <1>5, <1>11 DEF RetapsOne, Opening, CommandsOf, Job!Jobs
  <2>5. PhaseInv'
    BY <1>4, <1>5, <1>7, <2>1, <2>2, <2>4 DEF PhaseInv, Busy, C, Cn
  <2>6. Job!FgRetap
    BY <1>11, <2>1, <2>2, <2>4 DEF Job!FgRetap, RetapsOne, Start, Idle, Job!Start, Job!Idle
  <2> QED BY <2>3, <2>5, <2>6 DEF Maps
<1>12. ASSUME NEW events \in Job!Endings(job), Ends(ok, b, events) PROVE TypeOK' /\ PhaseInv' /\ Maps
  <2>1. UNCHANGED <<job, jobs, cmd, waited>> /\ pc' = "sleep" /\ retaps' = 0 /\ started' = FALSE /\ Start("fg", events)
    BY <1>12 DEF Ends, EndJob
  <2>2. events \in {<<>>, Job!TrustedAuth} \cup Reported
    BY <1>5 DEF Job!Endings, Job!Jobs, Reported
  <2>3. TypeOK'
    <3>1. 0 \in 0..Retaps /\ cmd \in Commands
      BY <1>5, FgLinkAssumption DEF Opening, CommandsOf, Commands, Job!Jobs
    <3> QED BY <1>6, <2>1, <2>2, <3>1 DEF TypeOK
  <2>4. PhaseInv'
    BY <1>7, <2>1 DEF PhaseInv, Busy
  <2>5. started
    BY <1>4, <1>12 DEF Ends
  <2>6. job # "NONE"
    BY <1>5 DEF Job!Jobs
  <2>7. Job!FgEnd
    BY <2>1, <2>5, <2>6 DEF Job!FgEnd, Start, Idle, Job!Start, Job!Idle
  <2> QED BY <2>3, <2>4, <2>7 DEF Maps
<1> QED BY <1>8, <1>9, <1>10, <1>11, <1>12, Outcomes

(* What the reader answers is no report of an enrolment. *)
LEMMA AnswersCounted ==
    ASSUME TypeOK, NEW to \in Commands, Answers(to)
    PROVE  /\ wire' \in Seq(Message) /\ Count(wire', Retap) = Count(wire, Retap)
           /\ faults' \in 0..MaxFaults /\ disturbed' \in BOOLEAN /\ matched' \in BOOLEAN
<1>1. wire \in Seq(Message) /\ faults \in 0..MaxFaults /\ disturbed \in BOOLEAN /\ matched \in BOOLEAN
  BY DEF TypeOK
<1>2. ASSUME NEW r \in Message \ Retap
      PROVE  Append(wire, r) \in Seq(Message) /\ Count(Append(wire, r), Retap) = Count(wire, Retap)
  <2>1. Count(Append(wire, r), Retap) = Count(wire, Retap) + 0
    BY <1>1, <1>2, CountAppend
  <2>2. Count(wire, Retap) \in Nat
    BY <1>1, MessagesCounted
  <2>3. Count(Append(wire, r), Retap) = Count(wire, Retap)
    <3> DEFINE n == Count(wire, Retap)
    <3> HIDE DEF n
    <3> QED BY <2>1, <2>2 DEF n
  <2> QED BY <1>1, <2>3
<1>3. \A code \in Codes(to) : Reply(to, code, "none") \in Message \ Retap
  BY DEF Codes, Reply, Message, Retap, Commands
<1>4. /\ [Reply(to, "ok", "none") EXCEPT !.good = FALSE] \in Message \ Retap
      /\ Reply(to, "denied", "none") \in Message \ Retap
  BY DEF Reply, Message, Retap, Commands
<1>5. CASE NoFault /\ \E code \in Codes(to) :
                /\ wire' = Append(wire, Reply(to, code, "none"))
                /\ matched' = (matched \/ code = "match")
  BY <1>1, <1>2, <1>3, <1>5 DEF NoFault
<1>6. CASE /\ Fault /\ UNCHANGED matched
           /\ wire' \in {wire, Append(wire, [Reply(to, "ok", "none") EXCEPT !.good = FALSE]),
                         Append(wire, Reply(to, "denied", "none"))}
  <2>1. faults' \in 0..MaxFaults /\ disturbed' = TRUE /\ matched' = matched
    BY <1>1, <1>6, FgLinkAssumption DEF Fault
  <2> DEFINE garbled == [Reply(to, "ok", "none") EXCEPT !.good = FALSE]
             denied == Reply(to, "denied", "none")
  <2>2. wire' \in Seq(Message) /\ Count(wire', Retap) = Count(wire, Retap)
    <3>1. garbled \in Message \ Retap /\ denied \in Message \ Retap
      BY <1>4
    <3>2. wire' = wire \/ wire' = Append(wire, garbled) \/ wire' = Append(wire, denied)
      BY <1>6
    <3> HIDE DEF garbled, denied
    <3>3. CASE wire' = wire
      BY <1>1, <3>3
    <3>4. CASE wire' = Append(wire, garbled)
      BY <1>2, <3>1, <3>4
    <3>5. CASE wire' = Append(wire, denied)
      BY <1>2, <3>1, <3>5
    <3> QED BY <3>2, <3>3, <3>4, <3>5
  <2> QED BY <1>1, <2>1, <2>2
<1> QED BY <1>5, <1>6 DEF Answers

(* Taking from what came in makes no report. *)
LEMMA InputTaken ==
    ASSUME TypeOK, rx # <<>>
    PROVE  /\ Head(rx) \in Message /\ Tail(rx) \in Seq(Message) /\ <<Junk>> \o Tail(rx) \in Seq(Message)
           /\ Count(Tail(rx), Retap) \in Nat
           /\ Count(rx, Retap) = Count(Tail(rx), Retap) + IF Head(rx).step = "retap" THEN 1 ELSE 0
           /\ Count(<<Junk>> \o Tail(rx), Retap) = Count(Tail(rx), Retap)
           /\ Len(rx) # 1 =>
                 /\ <<Junk>> \o SubSeq(rx, 3, Len(rx)) \in Seq(Message)
                 /\ Count(<<Junk>> \o SubSeq(rx, 3, Len(rx)), Retap) <= Count(Tail(rx), Retap)
<1>1. rx \in Seq(Message)
  BY DEF TypeOK
<1>2. Head(rx) \in Message /\ Tail(rx) \in Seq(Message)
  BY <1>1, HeadTailProperties
<1>3. Junk \in Message \ Retap
  BY DEF Junk, Message, Retap
<1>4. ASSUME NEW s \in Seq(Message)
      PROVE  <<Junk>> \o s \in Seq(Message) /\ Count(<<Junk>> \o s, Retap) = Count(s, Retap)
  <2>1. <<Junk>> \o s \in Seq(Message) /\ Count(<<Junk>> \o s, Retap) = Count(s, Retap) + 0
    BY <1>3, CountBefore
  <2> DEFINE n == Count(s, Retap)
  <2>2. n \in Nat
    BY MessagesCounted
  <2> HIDE DEF n
  <2>3. n + 0 = n
    BY <2>2
  <2> QED BY <2>1, <2>3 DEF n
<1>5. Count(rx, Retap) = Count(Tail(rx), Retap) + IF Head(rx) \in Retap THEN 1 ELSE 0
  BY <1>1, CountTail
<1>6. Head(rx) \in Retap <=> Head(rx).step = "retap"
  BY <1>2 DEF Retap
<1>7. ASSUME Len(rx) # 1
      PROVE  /\ SubSeq(rx, 3, Len(rx)) \in Seq(Message)
             /\ Count(SubSeq(rx, 3, Len(rx)), Retap) <= Count(Tail(rx), Retap)
  <2>1. Len(rx) \in Nat \ {0}
    BY <1>1, EmptySeq
  <2>2. Tail(rx) # <<>> /\ SubSeq(rx, 3, Len(rx)) = Tail(Tail(rx))
    <3> DEFINE n == Len(rx)
    <3>1. n > 1
      <4>1. n \in Nat /\ n # 0 /\ n # 1
        BY <1>7, <2>1
      <4> HIDE DEF n
      <4> QED BY <4>1
    <3> QED BY <1>1, <3>1, TailTwice
  <2>3. Tail(Tail(rx)) \in Seq(Message)
    BY <1>2, <2>2, HeadTailProperties
  <2> DEFINE n == Count(Tail(rx), Retap)
             m == Count(Tail(Tail(rx)), Retap)
  <2>4. n = m + IF Head(Tail(rx)) \in Retap THEN 1 ELSE 0
    BY <1>2, <2>2, CountTail
  <2>5. n \in Nat /\ m \in Nat
    BY <1>2, <2>3, MessagesCounted
  <2> HIDE DEF n, m
  <2>6. m <= n
    BY <2>4, <2>5
  <2> QED BY <2>2, <2>3, <2>6 DEF n, m
<1> QED BY <1>2, <1>4, <1>5, <1>6, <1>7, MessagesCounted

(* A step keeps the invariant and is one of the abstract task. *)
StepOK == TypeOK' /\ PhaseInv' /\ Maps

(* No good reply: what is left of the last one is no report, be it that    *)
(* the receive failed or that it was for a re-authentication.              *)
LEMMA FailedReturned ==
    ASSUME TypeOK, PhaseInv, JobInv, JobInv', Receiving, UNCHANGED queue, UNCHANGED touchVars,
           Failed(buf'), LineOK(0),
           buf' \in Buffers, buf'.code = buf.code, buf'.step = buf.step, whole' = TRUE, UNCHANGED <<steps, matched>>,
           faults' \in 0..MaxFaults, disturbed' \in BOOLEAN
    PROVE  StepOK
<1>1. pc \in {"recv", "renew"} /\ Idle("fg") /\ whole \in BOOLEAN /\ buf'.good \in BOOLEAN
  BY DEF Receiving, TypeOK, Buffers
<1>2. buf'.code = "denied" => buf'.step = "none"
  BY DEF PhaseInv
<1> DEFINE ok == pc = "renew" /\ whole /\ buf'.good
<1>3. Returns(ok, buf') /\ ok \in BOOLEAN
  BY <1>1 DEF Failed
<1>4. ~(ok /\ buf'.step = "retap")
  BY <1>2 DEF PhaseInv
<1>5. LineOK(IF ok /\ buf'.step = "retap" THEN 1 ELSE 0)
  BY <1>4
<1> HIDE DEF ok
<1> QED BY <1>1, <1>2, <1>3, <1>5, Returned DEF StepOK

(* From here on one lemma for each action: it keeps the types and phases,  *)
(* and its step is one of Fingerprint or none.                             *)
LEMMA TimesOutStep ==
    ASSUME TypeOK, PhaseInv, JobInv, JobInv', UNCHANGED queue, TimesOut
    PROVE  StepOK
<1>1. LineOK(0)
  <2>1. wire \in Seq(Message) /\ rx \in Seq(Message) /\ wire' = wire /\ rx' = rx
    BY DEF TimesOut, lineVars, TypeOK
  <2>2. Coming \in Nat
    BY <2>1, MessagesCounted DEF Coming
  <2>3. Count(wire', Retap) + Count(rx', Retap) = Coming
    BY <2>1 DEF Coming
  <2> DEFINE n == Coming
  <2>4. n + 0 <= n
    <3> HIDE DEF n
    <3> QED BY <2>2 DEF n
  <2> QED BY <2>1, <2>3, <2>4 DEF LineOK
<1>2. faults' \in 0..MaxFaults /\ disturbed' \in BOOLEAN
  <2>1. faults \in 0..MaxFaults /\ disturbed \in BOOLEAN
    BY DEF TypeOK
  <2>2. CASE NoFault
    BY <2>1, <2>2 DEF NoFault
  <2>3. CASE Fault
    BY <2>1, <2>3, FgLinkAssumption DEF Fault
  <2> QED BY <2>2, <2>3 DEF TimesOut
<1>3. buf' = buf /\ buf \in Buffers /\ Failed(buf')
  BY DEF TimesOut, lineVars, TypeOK
<1> QED BY <1>1, <1>2, <1>3, FailedReturned DEF TimesOut, touchVars

LEMMA ReadsJunkStep ==
    ASSUME TypeOK, PhaseInv, JobInv, JobInv', UNCHANGED queue, ReadsJunk
    PROVE  StepOK
<1>1. LineOK(0)
  <2>1. wire' = wire /\ wire \in Seq(Message) /\ rx # <<>>
    BY DEF ReadsJunk, TypeOK
  <2> DEFINE n == Count(wire, Retap)
             m == Count(rx, Retap)
             k == Count(Tail(rx), Retap)
             l == Count(rx', Retap)
  <2>2. n \in Nat /\ m \in Nat /\ k \in Nat
    BY <2>1, InputTaken, MessagesCounted DEF TypeOK
  <2>3. k <= m
    <3>1. m = k + IF Head(rx).step = "retap" THEN 1 ELSE 0
      BY <2>1, InputTaken
    <3> HIDE DEF k, m
    <3> QED BY <2>2, <3>1
  <2>4. rx' \in Seq(Message) /\ l <= k
    <3>1. CASE Len(rx) = 1
      <4>1. rx' = <<>>
        BY <3>1 DEF ReadsJunk
      <4>2. l = 0
        BY <4>1, CountEmpty
      <4> HIDE DEF l, k
      <4> QED BY <2>2, <4>1, <4>2
    <3>2. CASE Len(rx) # 1 /\ rx' = Tail(rx)
      <4>1. rx' \in Seq(Message) /\ l = k
        BY <2>1, <3>2, InputTaken
      <4> HIDE DEF l, k
      <4> QED BY <2>2, <4>1
    <3>3. CASE Len(rx) # 1 /\ rx' = <<Junk>> \o SubSeq(rx, 3, Len(rx))
      BY <2>1, <3>3, InputTaken
    <3> QED BY <3>1, <3>2, <3>3 DEF ReadsJunk
  <2>5. l \in Nat
    BY <2>4, MessagesCounted
  <2> HIDE DEF n, m, k, l
  <2>6. n + l + 0 <= n + m
    BY <2>2, <2>3, <2>4, <2>5
  <2> QED BY <2>1, <2>4, <2>6 DEF LineOK, Coming, n, m, l
<1>2. faults' \in 0..MaxFaults /\ disturbed' \in BOOLEAN
  BY DEF ReadsJunk, TypeOK
<1>3. buf' \in Buffers /\ buf'.code = buf.code /\ buf'.step = buf.step
  BY DEF ReadsJunk, TypeOK, Buffers
<1>4. Receiving /\ Failed(buf') /\ whole' = TRUE /\ UNCHANGED <<steps, matched>> /\ UNCHANGED touchVars
  BY DEF ReadsJunk
<1> QED BY <1>1, <1>2, <1>3, <1>4, FailedReturned

(* A reply of the reader, be it one the task waited for or not. *)
LEMMA ReadsReplyStep ==
    ASSUME TypeOK, PhaseInv, JobInv, JobInv', UNCHANGED queue, ReadsReply
    PROVE  StepOK
<1> DEFINE n == Count(wire, Retap)
           m == Count(rx, Retap)
           k == Count(Tail(rx), Retap)
           d == IF Head(rx).step = "retap" THEN 1 ELSE 0
<1>1. /\ pc \in {"recv", "renew"} /\ Idle("fg") /\ rx # <<>> /\ rx' = Tail(rx)
      /\ Head(rx).code # "junk" /\ buf' \in Stored(Head(rx)) /\ UNCHANGED <<steps, touchVars>>
  BY DEF ReadsReply, Receiving
<1>2. Head(rx) \in Message /\ rx' \in Seq(Message) /\ wire \in Seq(Message) /\ rx \in Seq(Message)
  BY <1>1, InputTaken DEF TypeOK
<1>3. m = k + d /\ n \in Nat /\ m \in Nat /\ k \in Nat
  <2>1. m = k + d /\ k \in Nat
    BY <1>1, InputTaken
  <2> QED BY <1>2, <2>1, MessagesCounted
<1>4. buf' \in Buffers /\ buf'.step = Head(rx).step /\ buf'.code = Head(rx).code
  <2>1. PICK s \in BOOLEAN :
          buf' = [to |-> Head(rx).to, code |-> Head(rx).code, step |-> Head(rx).step,
                  good |-> Head(rx).good, score |-> s]
    BY <1>1 DEF Stored
  <2>3. /\ Head(rx).to \in Commands \cup {"boot", "junk", "none"}
        /\ Head(rx).code \in {"ok", "fail", "match", "weak", "unknown", "full", "denied", "none"}
        /\ Head(rx).step \in {"none", "launch", "step", "retap", "saved"} /\ Head(rx).good \in BOOLEAN
    BY <1>1, <1>2 DEF Message
  <2> QED BY <2>1, <2>3 DEF Buffers
<1>5. buf'.code = "denied" => buf'.step = "none"
  BY <1>2, <1>4 DEF Message
<1>6. CASE buf'.code = "denied"
  <2>1. Renew(whole) /\ Answers("AUTH_DEF") /\ "AUTH_DEF" \in Commands
    BY <1>6 DEF ReadsReply, Commands
  <2>2. /\ wire' \in Seq(Message) /\ Count(wire', Retap) = n
        /\ faults' \in 0..MaxFaults /\ disturbed' \in BOOLEAN /\ matched' \in BOOLEAN
    BY <2>1, AnswersCounted
  <2>3. pc' = "renew" /\ whole' = whole /\ UNCHANGED <<started, job, jobs, cmd, waited, todo, retaps>>
    BY <2>1 DEF Renew, jobVars
  <2>4. TypeOK'
    <3>1. {started', whole', disturbed', matched'} \subseteq BOOLEAN
      BY <2>2, <2>3 DEF TypeOK
    <3>2. ticket' \in 0..1 /\ touches' \in 0..MaxTouches /\ jobs' \in Nat /\ wanted' \in Nat /\ steps' \in 0..MaxSteps
      BY <1>1, <2>3 DEF TypeOK, touchVars
    <3> QED BY <1>2, <1>4, <2>2, <2>3, <3>1, <3>2 DEF TypeOK
  <2>5. n + k <= retaps'
    <3>1. n + m <= retaps /\ retaps \in 0..Retaps /\ retaps' = retaps
      BY <1>1, <2>3 DEF PhaseInv, Busy, TypeOK
    <3> HIDE DEF n, m, k
    <3> QED BY <1>3, <3>1, FgLinkAssumption
  <2>6. Count(wire', Retap) + Count(rx', Retap) = n + k
    BY <1>1, <2>2
  <2>7. PhaseInv'
    <3>1. started' <=> cmd' \notin Opening
      BY <1>1, <2>3 DEF PhaseInv, Busy
    <3>2. Count(wire', Retap) + Count(rx', Retap) <= retaps'
      BY <2>5, <2>6
    <3>3. cmd' \in Opening \cup CommandsOf(job') /\ wanted' <= touches' /\ (~started' => retaps' = 0)
      BY <1>1, <2>3 DEF PhaseInv, Busy, touchVars
    <3> QED BY <1>5, <1>6, <2>3, <3>1, <3>2, <3>3 DEF PhaseInv, Busy
  <2> QED BY <2>3, <2>4, <2>7 DEF StepOK, Maps
<1>7. CASE buf'.code # "denied"
  <2> DEFINE ok == whole /\ buf'.good
  <2>1. UNCHANGED <<wire, faults, disturbed, matched>> /\ whole' = TRUE /\ Returns(ok, buf')
    BY <1>7 DEF ReadsReply
  <2>2. ok \in BOOLEAN
    OBVIOUS
  <2>3. LineOK(IF ok /\ buf'.step = "retap" THEN 1 ELSE 0)
    <3> DEFINE e == IF ok /\ buf'.step = "retap" THEN 1 ELSE 0
    <3>1. e <= d /\ e \in Nat /\ d \in Nat
      BY <1>4
    <3>2. Count(wire', Retap) + Count(rx', Retap) = n + k /\ Coming = n + m
      BY <1>1, <2>1 DEF Coming
    <3> HIDE DEF n, m, k, d, e
    <3>3. n + k + e <= n + m
      BY <1>3, <3>1
    <3> QED BY <1>2, <2>1, <3>2, <3>3 DEF LineOK, e
  <2>4. faults' \in 0..MaxFaults /\ disturbed' \in BOOLEAN /\ UNCHANGED <<steps, matched>>
    BY <1>1, <2>1 DEF TypeOK
  <2> HIDE DEF ok
  <2> QED BY <1>1, <1>4, <1>5, <2>1, <2>2, <2>3, <2>4, Returned DEF StepOK
<1> QED BY <1>6, <1>7

LEMMA ReadsHeadStep ==
    ASSUME TypeOK, PhaseInv, JobInv, JobInv', UNCHANGED queue, ReadsHead
    PROVE  StepOK
<1> DEFINE n == Count(wire, Retap)
           m == Count(rx, Retap)
           k == Count(Tail(rx), Retap)
           d == IF Head(rx).step = "retap" THEN 1 ELSE 0
<1>1. /\ pc \in {"recv", "renew"} /\ Receiving /\ rx # <<>> /\ rx' = <<Junk>> \o Tail(rx)
      /\ Head(rx).code # "junk" /\ UNCHANGED <<steps, matched, touchVars>>
      /\ buf' = [buf EXCEPT !.to = Head(rx).to, !.good = FALSE]
  BY DEF ReadsHead, Receiving
<1>2. Head(rx) \in Message /\ rx' \in Seq(Message) /\ wire \in Seq(Message) /\ rx \in Seq(Message)
  BY <1>1, InputTaken DEF TypeOK
<1>3. n + k <= n + m /\ n \in Nat /\ m \in Nat /\ k \in Nat /\ Count(rx', Retap) = k
  <2>1. m = k + d /\ k \in Nat /\ Count(rx', Retap) = k
    BY <1>1, InputTaken
  <2>2. n \in Nat /\ m \in Nat
    BY <1>2, MessagesCounted
  <2>3. d \in Nat
    OBVIOUS
  <2> HIDE DEF n, m, k, d
  <2> QED BY <2>1, <2>2, <2>3
<1>4. buf' \in Buffers /\ buf'.step = buf.step /\ buf'.code = buf.code
  BY <1>1, <1>2 DEF TypeOK, Buffers, Message
<1>5. faults' \in 0..MaxFaults /\ disturbed' = TRUE
  <2>1. faults \in 0..MaxFaults /\ faults < MaxFaults /\ faults' = faults + 1 /\ disturbed' = TRUE
    BY DEF ReadsHead, Fault, TypeOK
  <2> QED BY <2>1, FgLinkAssumption
<1>6. CASE buf.code = "denied"
  <2> DEFINE ack == Reply("AUTH_DEF", "ok", "none")
  <2>1. Renew(pc = "renew" /\ whole) /\ wire' \in {wire, Append(wire, ack)}
    BY <1>6 DEF ReadsHead
  <2>2. wire' \in Seq(Message) /\ Count(wire', Retap) = n
    <3>1. ack \in Message /\ ack \notin Retap
      BY DEF Reply, Message, Commands, Retap
    <3> HIDE DEF ack
    <3>2. Append(wire, ack) \in Seq(Message) /\ Count(Append(wire, ack), Retap) = n + 0
      BY <1>2, <3>1, CountAppend
    <3>3. n + 0 = n
      <4> HIDE DEF n
      <4> QED BY <1>3
    <3> QED BY <1>2, <2>1, <3>2, <3>3
  <2>3. pc' = "renew" /\ whole' \in BOOLEAN /\ UNCHANGED <<started, job, jobs, cmd, waited, todo, retaps>>
    BY <2>1 DEF Renew, jobVars
  <2>4. TypeOK'
    <3>1. {started', whole', disturbed', matched'} \subseteq BOOLEAN
      BY <1>1, <1>5, <2>3 DEF TypeOK
    <3>2. ticket' \in 0..1 /\ touches' \in 0..MaxTouches /\ jobs' \in Nat /\ wanted' \in Nat /\ steps' \in 0..MaxSteps
      BY <1>1, <2>3 DEF TypeOK, touchVars
    <3> QED BY <1>2, <1>4, <1>5, <2>2, <2>3, <3>1, <3>2 DEF TypeOK
  <2>5. Count(wire', Retap) + Count(rx', Retap) <= retaps'
    <3>1. n + m <= retaps /\ retaps \in 0..Retaps /\ retaps' = retaps
      BY <1>1, <2>3 DEF PhaseInv, Busy, TypeOK
    <3>2. n + k <= retaps'
      <4> HIDE DEF n, m, k
      <4> QED BY <1>3, <3>1, FgLinkAssumption
    <3> QED BY <1>3, <2>2, <3>2
  <2>6. PhaseInv'
    <3>1. started' <=> cmd' \notin Opening
      BY <1>1, <2>3 DEF PhaseInv, Busy
    <3>2. cmd' \in Opening \cup CommandsOf(job') /\ wanted' <= touches' /\ (~started' => retaps' = 0)
      BY <1>1, <2>3 DEF PhaseInv, Busy, touchVars
    <3>3. buf'.code = "denied" /\ buf'.step = "none"
      BY <1>4, <1>6 DEF PhaseInv
    <3> QED BY <2>3, <2>5, <3>1, <3>2, <3>3 DEF PhaseInv, Busy
  <2> QED BY <2>3, <2>4, <2>6 DEF StepOK, Maps
<1>7. CASE buf.code # "denied"
  <2>1. Failed(buf') /\ whole' = TRUE /\ wire' = wire
    BY <1>7 DEF ReadsHead
  <2>2. LineOK(0)
    <3>1. Count(wire', Retap) + Count(rx', Retap) = n + k /\ Coming = n + m
      BY <1>3, <2>1 DEF Coming
    <3> HIDE DEF n, m, k
    <3>2. n + k + 0 <= n + m
      BY <1>3
    <3> QED BY <1>2, <2>1, <3>1, <3>2 DEF LineOK
  <2> QED BY <1>1, <1>4, <1>5, <2>1, <2>2, FailedReturned
<1> QED BY <1>6, <1>7

(* The other steps of the task. *)
LEMMA WakeStep ==
    ASSUME TypeOK, PhaseInv, JobInv, JobInv', UNCHANGED queue, NEW next \in Job!Jobs, Wake(next)
    PROVE  StepOK
<1>1. /\ pc' = "boot" /\ job' = next /\ rx' = <<>> /\ wire' \in {<<>>, <<Booted>>} /\ matched' = FALSE
      /\ UNCHANGED <<started, jobs, cmd, whole, waited, todo, buf, retaps, steps, touchVars>>
  BY DEF Wake, Flushed
<1>2. started = FALSE /\ retaps = 0
  BY DEF Wake, PhaseInv, Busy, TypeOK
<1>3. wire' \in Seq(Message) /\ Count(wire', Retap) = 0
  <2>1. Booted \in Message /\ Booted \notin Retap
    BY DEF Booted, Junk, Message, Retap
  <2>2. Count(<<Booted>>, Retap) = 0
    BY <2>1, CountFew
  <2>3. <<>> \in Seq(Message) /\ <<Booted>> \in Seq(Message)
    BY <2>1
  <2>4. CASE wire' = <<>>
    BY <2>3, <2>4, CountEmpty
  <2>5. CASE wire' = <<Booted>>
    BY <2>2, <2>3, <2>5
  <2> QED BY <1>1, <2>4, <2>5
<1>4. Count(rx', Retap) = 0
  BY <1>1, CountEmpty
<1>5. faults' \in 0..MaxFaults /\ disturbed' \in BOOLEAN
  <2>1. faults \in 0..MaxFaults
    BY DEF TypeOK
  <2>2. CASE Fault
    BY <2>1, <2>2, FgLinkAssumption DEF Fault
  <2>3. CASE UNCHANGED faults /\ disturbed' = FALSE
    BY <2>1, <2>3
  <2> QED BY <2>2, <2>3 DEF Wake
<1>6. TypeOK'
  <2>1. {started', whole', disturbed', matched'} \subseteq BOOLEAN
    BY <1>1, <1>5 DEF TypeOK
  <2>2. ticket' \in 0..1 /\ touches' \in 0..MaxTouches /\ jobs' \in Nat /\ wanted' \in Nat /\ steps' \in 0..MaxSteps
    BY <1>1 DEF TypeOK, touchVars
  <2> QED BY <1>1, <1>3, <1>5, <2>1, <2>2 DEF TypeOK
<1>7. PhaseInv'
  <2>1. Count(wire', Retap) + Count(rx', Retap) <= retaps'
    BY <1>1, <1>2, <1>3, <1>4
  <2>2. wanted' <= touches' /\ (buf'.code = "denied" => buf'.step = "none")
    BY <1>1 DEF PhaseInv, touchVars
  <2> QED BY <1>1, <1>2, <2>1, <2>2 DEF PhaseInv, Busy
<1> QED BY <1>1, <1>6, <1>7 DEF StepOK, Maps

LEMMA BootDoneStep ==
    ASSUME TypeOK, PhaseInv, JobInv, JobInv', UNCHANGED queue, BootDone
    PROVE  StepOK
<1> DEFINE n == Count(wire, Retap)
           m == Count(rx, Retap)
           l == Count(rx', Retap)
<1>1. /\ pc = "boot" /\ pc' = "send" /\ cmd' = "AUTH_DEF"
      /\ UNCHANGED <<started, job, jobs, whole, waited, todo, wire, retaps, steps, matched, touchVars>>
  BY DEF BootDone, jobVars
<1>2. started = FALSE /\ retaps = 0 /\ job \in Job!Jobs
  BY <1>1 DEF PhaseInv, Busy, TypeOK, JobInv
<1>3. n + l <= retaps /\ rx' \in Seq(Message)
  <2>1. n \in Nat /\ m \in Nat /\ n + m <= retaps /\ rx \in Seq(Message)
    BY <1>1, MessagesCounted DEF TypeOK, PhaseInv
  <2>2. CASE rx # <<>> /\ rx' = Tail(rx)
    <3> DEFINE d == IF Head(rx).step = "retap" THEN 1 ELSE 0
    <3>1. m = l + d /\ l \in Nat /\ d \in Nat /\ rx' \in Seq(Message)
      BY <2>2, InputTaken
    <3> HIDE DEF n, m, l, d
    <3> QED BY <1>2, <2>1, <3>1
  <2>3. CASE rx' = rx
    BY <2>1, <2>3
  <2> QED BY <2>2, <2>3 DEF BootDone
<1>4. faults' \in 0..MaxFaults /\ disturbed' \in BOOLEAN
  <2>1. faults \in 0..MaxFaults /\ disturbed \in BOOLEAN
    BY DEF TypeOK
  <2>2. CASE Fault
    BY <2>1, <2>2, FgLinkAssumption DEF Fault
  <2>3. CASE NoFault
    BY <2>1, <2>3 DEF NoFault
  <2>4. CASE UNCHANGED faults /\ disturbed' = TRUE
    BY <2>1, <2>4
  <2> QED BY <2>2, <2>3, <2>4 DEF BootDone
<1>5. buf' \in Buffers /\ buf'.code = buf.code /\ buf'.step = buf.step
  BY DEF BootDone, TypeOK, Buffers
<1>6. TypeOK'
  <2>1. {started', whole', disturbed', matched'} \subseteq BOOLEAN
    BY <1>1, <1>4 DEF TypeOK
  <2>2. ticket' \in 0..1 /\ touches' \in 0..MaxTouches /\ jobs' \in Nat /\ wanted' \in Nat /\ steps' \in 0..MaxSteps
    BY <1>1 DEF TypeOK, touchVars
  <2>3. cmd' \in Commands
    BY <1>1 DEF Commands
  <2> QED BY <1>1, <1>3, <1>4, <1>5, <2>1, <2>2, <2>3 DEF TypeOK
<1>7. PhaseInv'
  <2>1. Count(wire', Retap) + Count(rx', Retap) <= retaps'
    BY <1>1, <1>3
  <2>2. wanted' <= touches' /\ (buf'.code = "denied" => buf'.step = "none")
    BY <1>1, <1>5 DEF PhaseInv, touchVars
  <2> QED BY <1>1, <1>2, <2>1, <2>2 DEF PhaseInv, Busy, Opening
<1> QED BY <1>1, <1>6, <1>7 DEF StepOK, Maps

LEMMA SendStep ==
    ASSUME TypeOK, PhaseInv, JobInv, JobInv', UNCHANGED queue, Send
    PROVE  StepOK
<1> DEFINE n == Count(wire, Retap)
           m == Count(rx, Retap)
<1>1. /\ pc = "send" /\ pc' = "recv" /\ waited' = 0
      /\ UNCHANGED <<started, job, jobs, cmd, whole, todo, buf, retaps, touchVars>>
  BY DEF Send, jobVars
<1>2. job \in Job!Jobs /\ cmd \in Opening \cup CommandsOf(job) /\ cmd \in Commands
  <2>1. job \in Job!Jobs /\ cmd \in Opening \cup CommandsOf(job)
    BY <1>1 DEF PhaseInv, Busy, JobInv
  <2> QED BY <2>1 DEF Opening, CommandsOf, Commands, Job!Jobs
<1>3. /\ wire' \in Seq(Message) /\ Count(wire', Retap) = n
      /\ faults' \in 0..MaxFaults /\ disturbed' \in BOOLEAN /\ matched' \in BOOLEAN
  <2>1. CASE cmd = "ENROLL"
    BY <2>1 DEF Send, TypeOK
  <2>2. CASE cmd # "ENROLL"
    <3>1. Answers(cmd)
      BY <2>2 DEF Send
    <3> QED BY <1>2, <3>1, AnswersCounted
  <2> QED BY <2>1, <2>2
<1>4. rx' \in {<<>>, rx} /\ rx' \in Seq(Message) /\ steps' \in 0..MaxSteps
  <2>1. rx' \in {<<>>, rx} /\ (steps' = MaxSteps \/ steps' = steps)
    BY DEF Send, Flushed
  <2>2. rx \in Seq(Message) /\ <<>> \in Seq(Message) /\ steps \in 0..MaxSteps /\ MaxSteps \in 0..MaxSteps
    BY FgLinkAssumption DEF TypeOK
  <2> QED BY <2>1, <2>2
<1>5. Count(wire', Retap) + Count(rx', Retap) <= retaps'
  <2> DEFINE l == Count(rx', Retap)
  <2>1. n \in Nat /\ m \in Nat /\ n + m <= retaps /\ retaps \in Nat
    BY <1>1, MessagesCounted, FgLinkAssumption DEF TypeOK, PhaseInv, Busy
  <2>2. l = 0 \/ l = m
    BY <1>4, CountEmpty
  <2>3. n + l <= retaps
    <3> HIDE DEF n, m, l
    <3> QED BY <2>1, <2>2
  <2> QED BY <1>1, <1>3, <2>3
<1>6. TypeOK'
  <2>1. {started', whole', disturbed', matched'} \subseteq BOOLEAN
    BY <1>1, <1>3 DEF TypeOK
  <2>2. /\ ticket' \in 0..1 /\ touches' \in 0..MaxTouches /\ jobs' \in Nat /\ wanted' \in Nat
        /\ waited' \in 0..EnrolWaits
    BY <1>1, FgLinkAssumption DEF TypeOK, touchVars
  <2> QED BY <1>1, <1>2, <1>3, <1>4, <2>1, <2>2 DEF TypeOK
<1>7. PhaseInv'
  BY <1>1, <1>5 DEF PhaseInv, Busy, touchVars
<1> QED BY <1>1, <1>6, <1>7 DEF StepOK, Maps

LEMMA PublishStep ==
    ASSUME TypeOK, PhaseInv, JobInv, JobInv', UNCHANGED queue, Publish
    PROVE  StepOK /\ todo'["fg"] = <<>>
<1>1. /\ todo' = [todo EXCEPT !["fg"] = Tail(@)] /\ Publishing("fg")
      /\ UNCHANGED <<pc, started, job, jobs, cmd, whole, waited, wire, rx, buf, retaps, steps, faults,
                     disturbed, matched, touchVars>>
  BY DEF Publish, jobVars, lineVars, readerVars
<1>2. todo'["fg"] = <<>> /\ DOMAIN todo' = Tasks
  <2>1. todo["fg"] \in {<<>>, Job!TrustedAuth} \cup Reported /\ todo["fg"] # <<>>
    BY <1>1 DEF TypeOK, Publishing, Idle
  <2>2. \E e : todo["fg"] = <<e>>
    BY <2>1 DEF Job!TrustedAuth, Reported, Job!Report
  <2>3. Tail(todo["fg"]) = <<>>
    BY <2>2
  <2>4. DOMAIN todo = Tasks /\ "fg" \in Tasks
    BY DEF TypeOK, Tasks
  <2> QED BY <1>1, <2>3, <2>4
<1>3. TypeOK'
  BY <1>1, <1>2 DEF TypeOK, touchVars
<1>4. PhaseInv'
  BY <1>1 DEF PhaseInv, Busy, touchVars
<1> QED BY <1>1, <1>2, <1>3, <1>4 DEF StepOK, Maps, Publishes

LEMMA SleepStep ==
    ASSUME TypeOK, PhaseInv, JobInv, JobInv', Sleep
    PROVE  StepOK
<1>1. /\ pc = "sleep" /\ pc' = "take" /\ job' = "NONE" /\ wire' = <<>> /\ steps' = 0
      /\ UNCHANGED <<started, jobs, cmd, whole, waited, todo, rx, buf, retaps, faults, disturbed,
                     matched, touchVars>>
  BY DEF Sleep
<1>2. TypeOK'
  <2>1. wire' \in Seq(Message) /\ steps' \in 0..MaxSteps
    BY <1>1, FgLinkAssumption
  <2> QED BY <1>1, <2>1 DEF TypeOK, touchVars
<1>3. PhaseInv'
  BY <1>1 DEF PhaseInv, Busy, touchVars
<1> QED BY <1>1, <1>2, <1>3 DEF StepOK, Maps

LEMMA TakeTicketStep ==
    ASSUME TypeOK, PhaseInv, JobInv, JobInv', TakeTicket
    PROVE  StepOK
<1>1. /\ pc = "take" /\ pc' = "peek"
      /\ UNCHANGED <<started, job, jobs, cmd, whole, waited, todo, wire, rx, buf, retaps, steps, faults,
                     disturbed, matched, touches, wanted>>
  BY DEF TakeTicket, jobVars, lineVars, readerVars
<1>2. TypeOK'
  BY <1>1 DEF TypeOK, JobInv
<1>3. PhaseInv'
  BY <1>1 DEF PhaseInv, Busy
<1> QED BY <1>1, <1>2, <1>3 DEF StepOK, Maps

(* What arrives was counted while it was on its way. *)
LEMMA ArrivesStep ==
    ASSUME TypeOK, PhaseInv, JobInv, JobInv', Arrives
    PROVE  StepOK
<1> DEFINE n == Count(wire, Retap)
           m == Count(rx, Retap)
           n1 == Count(wire', Retap)
           m1 == Count(rx', Retap)
           d == IF Head(wire) \in Retap THEN 1 ELSE 0
<1>1. /\ wire # <<>> /\ rx' = Append(rx, Head(wire)) /\ wire' = Tail(wire)
      /\ UNCHANGED <<pc, started, job, jobs, cmd, whole, waited, todo, buf, retaps, steps, faults,
                     disturbed, matched, touchVars>>
  BY DEF Arrives, jobVars, readerVars
<1>2. wire \in Seq(Message) /\ rx \in Seq(Message)
  BY DEF TypeOK
<1>3. wire' \in Seq(Message) /\ rx' \in Seq(Message) /\ Head(wire) \in Message
  <2>1. Head(wire) \in Message /\ Tail(wire) \in Seq(Message)
    BY <1>1, <1>2, HeadTailProperties
  <2> QED BY <1>1, <1>2, <2>1
<1>4. n1 + m1 = n + m
  <2>1. n = n1 + d
    BY <1>1, <1>2, CountTail
  <2>2. m1 = m + d
    BY <1>1, <1>2, <1>3, CountAppend
  <2>3. n1 \in Nat /\ m \in Nat /\ d \in Nat
    BY <1>2, <1>3, MessagesCounted
  <2> HIDE DEF n, m, n1, m1, d
  <2> QED BY <2>1, <2>2, <2>3
<1>5. TypeOK'
  BY <1>1, <1>3 DEF TypeOK, touchVars
<1>6. PhaseInv'
  <2>1. pc' = "boot" \/ Busy' => n1 + m1 <= retaps'
    BY <1>1, <1>4 DEF PhaseInv, Busy
  <2> QED BY <1>1, <2>1 DEF PhaseInv, Busy, touchVars
<1> QED BY <1>1, <1>5, <1>6 DEF StepOK, Maps

(* The reader asks for no more touches than an enrolment has left. *)
LEMMA ReportsStep ==
    ASSUME TypeOK, PhaseInv, JobInv, JobInv', Reports
    PROVE  StepOK
<1>1. /\ pc = "recv" /\ steps > 0
      /\ UNCHANGED <<pc, started, job, jobs, cmd, whole, waited, todo, rx, buf, retaps, faults,
                     disturbed, matched, touchVars>>
  BY DEF Reports, jobVars
<1>2. PICK step \in {"launch", "step", "retap", "saved"}, code \in {"ok", "full", "fail"} :
        /\ step = "retap" => retaps > Count(wire, Retap) + Count(rx, Retap)
        /\ wire' = Append(wire, Reply("ENROLL", code, step))
        /\ steps' = IF step = "saved" \/ code # "ok" THEN 0 ELSE steps - 1
  BY DEF Reports
<1> DEFINE r == Reply("ENROLL", code, step)
           n == Count(wire, Retap)
           m == Count(rx, Retap)
           n1 == Count(wire', Retap)
           d == IF r \in Retap THEN 1 ELSE 0
<1>3. r \in Message /\ (r \in Retap <=> step = "retap")
  BY DEF Reply, Message, Commands, Retap
<1>4. wire \in Seq(Message) /\ rx \in Seq(Message)
  BY DEF TypeOK
<1>5. wire' \in Seq(Message) /\ n1 = n + d
  <2> HIDE DEF r
  <2>1. wire' = Append(wire, r)
    BY <1>2 DEF r
  <2> QED BY <1>3, <1>4, <2>1, CountAppend
<1>6. n1 + m <= retaps
  <2>1. n \in Nat /\ m \in Nat /\ retaps \in Nat
    BY <1>4, MessagesCounted, FgLinkAssumption DEF TypeOK
  <2>2. n + m <= retaps
    BY <1>1 DEF PhaseInv, Busy
  <2>3. d = 0 \/ (d = 1 /\ retaps > n + m)
    BY <1>2, <1>3
  <2> HIDE DEF n, m, n1, d
  <2> QED BY <1>5, <2>1, <2>2, <2>3
<1>7. steps' \in 0..MaxSteps
  BY <1>1, <1>2, FgLinkAssumption DEF TypeOK
<1>8. TypeOK'
  BY <1>1, <1>5, <1>7 DEF TypeOK, touchVars
<1>9. PhaseInv'
  <2>1. Count(wire', Retap) + Count(rx', Retap) <= retaps'
    BY <1>1, <1>6
  <2> QED BY <1>1, <2>1 DEF PhaseInv, Busy, touchVars
<1> QED BY <1>1, <1>8, <1>9 DEF StepOK, Maps

LEMMA TouchStep ==
    ASSUME TypeOK, PhaseInv, JobInv, JobInv', Touch
    PROVE  StepOK
<1>1. /\ touches < MaxTouches /\ touches' = touches + 1 /\ wanted' \in {wanted, wanted + 1}
      /\ UNCHANGED <<pc, started, job, jobs, cmd, whole, waited, todo, wire, rx, buf, retaps, steps, faults,
                     disturbed, matched>>
  BY DEF Touch, jobVars, lineVars, readerVars
<1>2. touches' \in 0..MaxTouches /\ wanted' <= touches'
  BY <1>1, FgLinkAssumption DEF TypeOK, PhaseInv
<1>3. TypeOK'
  BY <1>1, <1>2 DEF TypeOK, JobInv
<1>4. PhaseInv'
  BY <1>1, <1>2 DEF PhaseInv, Busy
<1> QED BY <1>1, <1>3, <1>4 DEF StepOK, Maps

(* All actions together.                                                   *)
LEMMA FgStep ==
    ASSUME TypeOK, PhaseInv, JobInv, JobInv', [Next]_vars
    PROVE  StepOK
<1>1. CASE UNCHANGED vars
  <2>1. TypeOK'
    BY <1>1 DEF TypeOK, vars, jobVars, busVars, lineVars, readerVars, touchVars
  <2>2. PhaseInv'
    BY <1>1 DEF PhaseInv, Busy, vars, jobVars, busVars, lineVars, readerVars, touchVars
  <2>3. Maps
    BY <1>1 DEF Maps, vars, jobVars, busVars, lineVars, readerVars, touchVars
  <2> QED BY <2>1, <2>2, <2>3 DEF StepOK
<1>2. CASE Service
  BY <1>2, WakeStep, BootDoneStep, SendStep, TimesOutStep, ReadsJunkStep, ReadsReplyStep, ReadsHeadStep,
     SleepStep, TakeTicketStep, PublishStep DEF Service
<1>3. CASE Outside
  BY <1>3, ArrivesStep, ReportsStep, TouchStep DEF Outside
<1> QED BY <1>1, <1>2, <1>3 DEF Next

(* Of the task, its line and its reader, however many touches, faults and  *)
(* reports: what waits to be published is at most one report or the one    *)
(* authentication, no wait exceeds its limit, and no reply is taken for an *)
(* enrolment's report that was none (fg_reader.c:210-478).                 *)
THEOREM LinkTypesHold == Spec => []TypeOK
<1> DEFINE IInv == TypeOK /\ PhaseInv /\ JobInv
<1>1. Init => IInv
  BY FgInitial, JobInitial
<1>2. IInv /\ [Next]_vars => IInv'
  BY JobStep, FgStep DEF StepOK
<1>3. IInv => TypeOK
  OBVIOUS
<1> HIDE DEF IInv
<1> QED BY <1>1, <1>2, <1>3, PTL DEF Spec

(* fg_service down to its serial line does what the whole system is        *)
(* checked with: whatever is lost, late, cut or garbled, a job is started  *)
(* once and reports so before anything else, asks for the touches an       *)
(* enrolment takes and no more, and ends once, with the one event that its *)
(* kind of job can end with, or silently (fg_reader.c:441-478).            *)
THEOREM ImplementsJobs == Spec => KeepsJobs
<1> DEFINE IInv == TypeOK /\ PhaseInv /\ JobInv
<1>1. Init => IInv
  BY FgInitial, JobInitial
<1>2. IInv /\ [Next]_vars =>
        IInv' /\ [Publishes \/ Job!FgRetap \/ Job!FgEnd \/ \E next \in Job!Jobs : Job!FgStart(next)]_<<
            started, retaps, jobs, todo>>
  BY JobStep, FgStep DEF StepOK, Maps
<1> HIDE DEF IInv
<1> QED BY <1>1, <1>2, PTL DEF Spec, KeepsJobs

(* A trusted authentication is asked for only after a match in the job, or *)
(* in one in which something went wrong on the line.                       *)
SignsIn == todo'["fg"] = Job!TrustedAuth => todo = todo' \/ matched \/ disturbed

(* In a calm job the task never finds more, or other, than it waits for.   *)
LEMMA CalmAwaits ==
    ASSUME TypeOK, CalmInv, ~disturbed, pc \in {"recv", "renew"}, cmd # "ENROLL"
    PROVE  /\ pc = "recv"
           /\ wire # <<>> \/ rx # <<>>
           /\ rx # <<>> => wire = <<>> /\ Tail(rx) = <<>> /\ Head(rx) \in Expected
           /\ rx # <<>> => Head(rx).code \notin {"junk", "denied"}
<1>1. pc = "recv"
  BY DEF CalmInv
<1>2. PICK r \in Expected : Sole(r)
  BY <1>1 DEF CalmInv
<1>3. r.code \notin {"junk", "denied"}
  BY DEF Expected, Codes
<1>4. ASSUME rx # <<>> PROVE wire = <<>> /\ Tail(rx) = <<>> /\ Head(rx) = r
  <2>1. wire = <<>> /\ rx = <<r>>
    BY <1>2, <1>4 DEF Sole
  <2>2. Tail(<<r>>) = <<>> /\ Head(<<r>>) = r
    OBVIOUS
  <2> QED BY <2>1, <2>2
<1>5. wire # <<>> \/ rx # <<>>
  BY <1>2 DEF Sole
<1> QED BY <1>1, <1>2, <1>3, <1>4, <1>5

(* CalmInv when a command returns, fails, or its reply is received.        *)
LEMMA CalmReturned ==
    ASSUME TypeOK, PhaseInv, JobInv, CalmInv, pc \in {"recv", "renew"},
           NEW ok \in BOOLEAN, NEW b, Returns(ok, b),
           disturbed' \/ cmd = "ENROLL" \/ (wire' = <<>> /\ rx' = <<>>),
           cmd = "SEARCH_PATTERN" /\ ok /\ Recognised(b) => matched \/ disturbed
    PROVE  CalmInv' /\ SignsIn
<1>1. ASSUME NEW p, Start("fg", Job!Report(p)) PROVE todo'["fg"] # Job!TrustedAuth
  <2>1. Job!TrustedAuth[1].msg.type = "auth" /\ Job!Report(p)[1].msg.type = "fg"
    BY DEF Job!TrustedAuth, Job!Report, Job!To
  <2>2. todo'["fg"] = Job!Report(p)
    BY <1>1 DEF Start, TypeOK, Tasks
  <2> QED BY <2>1, <2>2
<1>2. CASE Continues
  <2>1. cmd # "ENROLL" /\ pc' = "send" /\ todo' = todo
    BY <1>2 DEF Continues
  <2> QED BY <2>1 DEF CalmInv, SignsIn
<1>3. CASE cmd = "LED_ON" /\ StartJob
  <2>1. pc' = "send" /\ todo'["fg"] # Job!TrustedAuth
    BY <1>1, <1>3 DEF StartJob
  <2> QED BY <1>3, <2>1 DEF CalmInv, SignsIn
<1>4. CASE EnrolsOn
  <2>1. cmd' = "ENROLL" /\ pc' = "recv" /\ todo' = todo
    BY <1>4 DEF EnrolsOn
  <2> QED BY <2>1 DEF CalmInv, SignsIn
<1>5. CASE RetapsOne(ok, b)
  <2>1. cmd' = "ENROLL" /\ pc' = "recv" /\ todo'["fg"] # Job!TrustedAuth
    BY <1>1, <1>5 DEF RetapsOne
  <2> QED BY <2>1 DEF CalmInv, SignsIn
<1>6. ASSUME NEW events \in Job!Endings(job), Ends(ok, b, events) PROVE CalmInv' /\ SignsIn
  <2>1. pc' = "sleep" /\ todo'["fg"] = events
    BY <1>6 DEF Ends, EndJob, Start, TypeOK, Tasks
  <2>2. events = Job!TrustedAuth => cmd = "SEARCH_PATTERN" /\ ok /\ Recognised(b)
    BY <1>6 DEF Ends
  <2> QED BY <2>1, <2>2 DEF CalmInv, SignsIn
<1> QED BY <1>2, <1>3, <1>4, <1>5, <1>6, Outcomes

LEMMA CalmFailed ==
    ASSUME TypeOK, PhaseInv, JobInv, CalmInv, Receiving, buf' \in Buffers, Failed(buf'),
           disturbed' \/ cmd = "ENROLL"
    PROVE  CalmInv' /\ SignsIn
<1> DEFINE ok == pc = "renew" /\ whole /\ buf'.good
<1>1. pc \in {"recv", "renew"} /\ whole \in BOOLEAN /\ buf'.good \in BOOLEAN
  BY DEF Receiving, TypeOK, Buffers
<1>2. Returns(ok, buf') /\ ok \in BOOLEAN
  BY <1>1 DEF Failed
<1>3. cmd = "SEARCH_PATTERN" /\ ok => disturbed
  BY DEF CalmInv
<1> HIDE DEF ok
<1> QED BY <1>1, <1>2, <1>3, CalmReturned

LEMMA CalmReceives ==
    ASSUME TypeOK, PhaseInv, JobInv, CalmInv, TimesOut \/ ReadsJunk \/ ReadsReply \/ ReadsHead
    PROVE  CalmInv' /\ SignsIn
<1>1. CASE TimesOut
  <2>1. Receiving /\ rx = <<>> /\ Failed(buf') /\ buf' \in Buffers
    BY <1>1 DEF TimesOut, lineVars, TypeOK
  <2>2. disturbed' \/ cmd = "ENROLL"
    <3>1. CASE wire = <<>>
      <4>1. disturbed' = disturbed
        BY <1>1, <3>1 DEF TimesOut, NoFault
      <4>2. pc \in {"recv", "renew"}
        BY <2>1 DEF Receiving
      <4> QED BY <2>1, <3>1, <4>1, <4>2, CalmAwaits DEF TypeOK
    <3>2. CASE wire # <<>>
      BY <1>1, <3>2 DEF TimesOut, Fault
    <3> QED BY <3>1, <3>2
  <2> QED BY <2>1, <2>2, CalmFailed
<1>2. CASE ReadsJunk
  <2>1. Receiving /\ rx # <<>> /\ Head(rx).code = "junk" /\ Failed(buf') /\ disturbed' = disturbed
    BY <1>2 DEF ReadsJunk
  <2>2. buf' \in Buffers
    BY <1>2 DEF ReadsJunk, TypeOK, Buffers
  <2>3. disturbed' \/ cmd = "ENROLL"
    <3>1. pc \in {"recv", "renew"}
      BY <2>1 DEF Receiving
    <3> QED BY <2>1, <3>1, CalmAwaits DEF TypeOK
  <2> QED BY <2>1, <2>2, <2>3, CalmFailed
<1>3. CASE ReadsReply
  <2>1. pc \in {"recv", "renew"} /\ rx # <<>> /\ rx' = Tail(rx) /\ buf' \in Stored(Head(rx))
    BY <1>3 DEF ReadsReply, Receiving
  <2>2. buf'.code = Head(rx).code /\ buf'.good = Head(rx).good
    BY <2>1 DEF Stored
  <2>3. CASE buf'.code = "denied"
    <3>1. disturbed \/ cmd = "ENROLL"
      BY <2>1, <2>2, <2>3, CalmAwaits
    <3>2. pc' = "renew" /\ UNCHANGED <<cmd, todo>> /\ (disturbed => disturbed')
      BY <1>3, <2>3 DEF ReadsReply, Renew, Answers, NoFault, Fault
    <3> QED BY <3>1, <3>2 DEF CalmInv, SignsIn
  <2>4. CASE buf'.code # "denied"
    <3> DEFINE ok == whole /\ buf'.good
    <3>1. UNCHANGED <<wire, disturbed>> /\ Returns(ok, buf') /\ ok \in BOOLEAN
      BY <1>3, <2>4 DEF ReadsReply
    <3>2. disturbed' \/ cmd = "ENROLL" \/ (wire' = <<>> /\ rx' = <<>>)
      BY <2>1, <3>1, CalmAwaits
    <3>3. ASSUME cmd = "SEARCH_PATTERN", Recognised(buf'), ~disturbed PROVE matched
      <4>1. Head(rx) \in Expected
        BY <2>1, <3>3, CalmAwaits
      <4>2. Head(rx).code \in {"match", "weak", "unknown"} /\ (Head(rx).code = "match" => matched)
        BY <3>3, <4>1 DEF Expected, Codes
      <4>3. buf'.code \in {"match", "weak"} /\ buf'.score
        BY <2>2, <3>3, <4>2 DEF Recognised, Zero
      <4>4. Head(rx).code = "weak" => ~buf'.score
        <5>1. PICK s \in BOOLEAN :
                /\ Head(rx).code = "weak" => ~s
                /\ buf' = [to |-> Head(rx).to, code |-> Head(rx).code, step |-> Head(rx).step,
                           good |-> Head(rx).good, score |-> s]
          BY <2>1 DEF Stored
        <5>2. CASE s = FALSE
          BY <5>1, <5>2
        <5>3. CASE s = TRUE
          BY <5>1, <5>3
        <5> QED BY <5>2, <5>3
      <4> QED BY <2>2, <4>2, <4>3, <4>4
    <3> HIDE DEF ok
    <3> QED BY <2>1, <3>1, <3>2, <3>3, CalmReturned
  <2> QED BY <2>3, <2>4
<1>4. CASE ReadsHead
  <2>1. Receiving /\ disturbed' = TRUE
    BY <1>4 DEF ReadsHead, Fault
  <2>2. buf' \in Buffers
    <3>1. Head(rx) \in Message
      BY <1>4, InputTaken DEF ReadsHead
    <3> QED BY <1>4, <3>1 DEF ReadsHead, TypeOK, Buffers, Message
  <2>3. CASE buf.code = "denied"
    <3>1. todo' = todo
      BY <1>4, <2>3 DEF ReadsHead, Renew
    <3> QED BY <2>1, <3>1 DEF CalmInv, SignsIn
  <2>4. CASE buf.code # "denied"
    <3>1. Failed(buf')
      BY <1>4, <2>4 DEF ReadsHead
    <3> QED BY <2>1, <2>2, <3>1, CalmFailed
  <2> QED BY <2>3, <2>4
<1> QED BY <1>1, <1>2, <1>3, <1>4

LEMMA CalmStep ==
    ASSUME TypeOK, PhaseInv, JobInv, CalmInv, [Next]_vars
    PROVE  CalmInv' /\ SignsIn
<1>1. ASSUME NEW next \in Job!Jobs, Wake(next) PROVE CalmInv' /\ SignsIn
  <2>1. pc' = "boot" /\ todo' = todo /\ rx' = <<>> /\ (disturbed' \/ wire' = <<Booted>>)
    BY <1>1 DEF Wake, Flushed, Fault
  <2> QED BY <2>1 DEF CalmInv, SignsIn, Sole
<1>2. CASE BootDone
  <2>1. pc = "boot" /\ pc' = "send" /\ todo' = todo /\ wire' = wire
    BY <1>2 DEF BootDone
  <2>2. CASE rx # <<>> /\ rx' = Tail(rx) /\ NoFault
    <3>1. ASSUME ~disturbed' PROVE wire' = <<>> /\ rx' = <<>>
      <4>1. Sole(Booted)
        BY <2>1, <2>2, <3>1 DEF NoFault, CalmInv
      <4>2. wire = <<>> /\ rx = <<Booted>>
        BY <2>2, <4>1 DEF Sole
      <4> QED BY <2>1, <2>2, <4>2
    <3> QED BY <2>1, <3>1 DEF CalmInv, SignsIn
  <2>3. CASE rx = <<>> /\ wire # <<>>
    BY <1>2, <2>1, <2>3 DEF BootDone, Fault, CalmInv, SignsIn
  <2>4. CASE rx = <<>> /\ wire = <<>>
    <3>1. disturbed
      BY <2>1, <2>4 DEF CalmInv, Sole
    <3>2. disturbed' = disturbed
      BY <1>2, <2>4 DEF BootDone, NoFault
    <3> QED BY <2>1, <3>1, <3>2 DEF CalmInv, SignsIn
  <2> QED BY <1>2, <2>2, <2>3, <2>4 DEF BootDone
<1>3. CASE Send
  <2>1. pc = "send" /\ pc' = "recv" /\ UNCHANGED <<cmd, todo>>
    BY <1>3 DEF Send, jobVars
  <2>2. SignsIn
    BY <2>1 DEF SignsIn
  <2>3. CASE cmd = "ENROLL"
    BY <2>1, <2>2, <2>3 DEF CalmInv
  <2>4. CASE cmd # "ENROLL" /\ disturbed'
    BY <2>1, <2>2, <2>4 DEF CalmInv
  <2>5. CASE cmd # "ENROLL" /\ ~disturbed'
    <3>1. Answers(cmd) /\ rx' \in {<<>>, rx}
      BY <1>3, <2>5 DEF Send, Flushed
    <3>2. PICK code \in Codes(cmd) :
            /\ wire' = Append(wire, Reply(cmd, code, "none"))
            /\ matched' = (matched \/ code = "match")
      BY <2>5, <3>1 DEF Answers, Fault
    <3>3. ~disturbed
      BY <2>5, <3>1 DEF Answers, NoFault, Fault
    <3>4. wire = <<>> /\ rx' = <<>>
      BY <2>1, <3>1, <3>3 DEF CalmInv
    <3> DEFINE r == Reply(cmd, code, "none")
    <3>5. cmd \in Commands
      BY <2>1 DEF PhaseInv, Busy, JobInv, Opening, CommandsOf, Commands, Job!Jobs
    <3>6. r \in Message /\ r.to = cmd /\ r.code = code /\ r.good
      BY <3>5 DEF Reply, Message, Codes
    <3>7. r \in Expected'
      BY <2>1, <3>2, <3>6 DEF Expected
    <3>8. wire' = <<r>>
      BY <3>2, <3>4
    <3> HIDE DEF r
    <3>9. \E q \in Expected' : wire' = <<q>> /\ rx' = <<>>
      BY <3>4, <3>7, <3>8
    <3> QED BY <2>1, <2>2, <3>9 DEF CalmInv, Sole
  <2> QED BY <2>3, <2>4, <2>5
<1>4. CASE TimesOut \/ ReadsJunk \/ ReadsReply \/ ReadsHead
  BY <1>4, CalmReceives
<1>5. CASE Sleep
  BY <1>5 DEF Sleep, CalmInv, SignsIn
<1>6. CASE TakeTicket
  BY <1>6 DEF TakeTicket, CalmInv, SignsIn
<1>7. CASE Publish /\ UNCHANGED queue
  <2>1. todo'["fg"] = <<>>
    BY <1>7, PublishStep, JobStep DEF Next, Service
  <2>2. SignsIn
    BY <2>1 DEF SignsIn, Job!TrustedAuth
  <2>3. CalmInv'
    BY <1>7 DEF Publish, CalmInv, Sole, Expected, jobVars, lineVars, readerVars
  <2> QED BY <2>2, <2>3
<1>8. CASE Arrives
  <2>1. /\ UNCHANGED <<pc, cmd, todo, disturbed, matched>>
        /\ wire # <<>> /\ rx' = Append(rx, Head(wire)) /\ wire' = Tail(wire)
    BY <1>8 DEF Arrives, readerVars
  <2>2. ASSUME NEW r, Sole(r) PROVE Sole(r)'
    <3>1. wire = <<r>> /\ rx = <<>>
      BY <2>1, <2>2 DEF Sole
    <3>2. Tail(wire) = <<>> /\ Append(rx, Head(wire)) = <<r>>
      BY <3>1
    <3> QED BY <2>1, <3>2 DEF Sole
  <2>3. Sole(Booted) => Sole(Booted)'
    BY <2>2 DEF Booted, Junk
  <2>4. CalmInv'
    BY <2>1, <2>2, <2>3 DEF CalmInv, Expected
  <2> QED BY <2>1, <2>4 DEF SignsIn
<1>9. CASE Reports
  BY <1>9 DEF Reports, CalmInv, SignsIn
<1>10. CASE Touch
  BY <1>10 DEF Touch, CalmInv, SignsIn, Sole, Expected, lineVars, readerVars
<1>11. CASE UNCHANGED vars
  BY <1>11 DEF vars, CalmInv, SignsIn, Sole, Expected, lineVars, readerVars, busVars
<1> QED BY <1>1, <1>2, <1>3, <1>4, <1>5, <1>6, <1>7, <1>8, <1>9, <1>10, <1>11 DEF Next, Service, Outside

(* Whatever went wrong on the line before: a job in which nothing does     *)
(* asks to open the door only for a finger the reader recognised in it.    *)
(* What an earlier job left on the line is flushed before the reader is    *)
(* powered up, so that the reply that waits is always the one to the       *)
(* command that was sent; and the score looked at is the one that came     *)
(* with the match (fg_reader.c:157-208, 350-405).                          *)
THEOREM OpensOnMatch == Spec => SignsInOnMatch
<1> DEFINE IInv == TypeOK /\ PhaseInv /\ JobInv /\ CalmInv
<1>1. Init => IInv
  BY FgInitial, JobInitial
<1>2. IInv /\ [Next]_vars =>
        IInv' /\ [todo'["fg"] = Job!TrustedAuth => todo = todo' \/ matched \/ disturbed]_vars
  BY JobStep, FgStep, CalmStep DEF StepOK, SignsIn
<1> HIDE DEF IInv
<1> QED BY <1>1, <1>2, PTL DEF Spec, SignsInOnMatch
=============================================================================
