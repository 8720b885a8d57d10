------------------------------- MODULE FgLink -------------------------------
(***************************************************************************)
(* The fingerprint task (fg_reader.c) down to its serial line: a touch     *)
(* gives a ticket, the reader is powered up, and a job is an exchange of   *)
(* commands and replies, each awaited for a limited time.  Module          *)
(* Fingerprint has the same task as a choice of outcomes.                  *)
(*                                                                         *)
(* A reply says which command it answers, a code, and for a report of the  *)
(* enrolment which step it is of.  Junk is input that does not begin at    *)
(* the head of a reply: the byte 0x55 of a reader that has just started,   *)
(* or what is left of a reply read in part.                                *)
(***************************************************************************)
EXTENDS Bus, Counting

CONSTANTS
    MaxTouches,              \* bound on the touches of the reader
    Retaps,                  \* progress reports of an enrolment (eight)
    MaxFaults,               \* bound on lost, late, cut, garbled and refused replies
    MaxSteps,                \* bound on the reports of one enrolment
    EnrolWaits               \* receives of 1 s within the 5 s of fg_enroll

ASSUME FgLinkAssumption == {MaxTouches, Retaps, MaxFaults, MaxSteps, EnrolWaits} \subseteq Nat

VARIABLES
    pc,                      \* peek, boot, send, recv, renew, sleep, take
    job, started,            \* s_fg_state, and whether its start was published
    cmd,                     \* the command of fg_cmd_transmit
    whole,                   \* while renewing: the refused reply had its whole body
    waited,                  \* seconds fg_enroll has waited since its last success
    ticket,                  \* g_fg_pressed_sem
    wire,                    \* replies the reader sent that have not arrived
    rx,                      \* what waits in the driver of the serial port
    buf,                     \* s_uart_rx_buf
    retaps, steps,           \* reports the reader may still make
    jobs,                    \* history: jobs started
    touches, wanted,         \* history: touches, and those made while idle
    faults, disturbed,       \* history: faults so far, a fault in this job
    matched                  \* history: the reader recognised a finger in this job

jobVars == <<job, started, jobs>>
lineVars == <<wire, rx, buf>>
readerVars == <<retaps, steps, faults, disturbed, matched>>
touchVars == <<ticket, touches, wanted>>
vars == <<pc, jobVars, cmd, whole, waited, busVars, lineVars, readerVars, touchVars>>

(* The task as the whole system is checked with it. *)
Job == INSTANCE Fingerprint WITH
    job <- IF started THEN job ELSE "NONE",
    touches <- jobs

Commands == {"AUTH_DEF", "LED_ON", "READ_SENSOR", "GEN_PATTERN", "SEARCH_PATTERN", "CLEAR_ALL_FG", "ENROLL"}
Message ==
    {r \in [to : Commands \cup {"boot", "junk"},
            code : {"ok", "fail", "match", "weak", "unknown", "full", "denied", "junk"},
            step : {"none", "launch", "step", "retap", "saved"}, good : BOOLEAN] :
        r.code = "denied" => r.step = "none"}
Retap == {r \in Message : r.step = "retap"}

Junk == [to |-> "junk", code |-> "junk", step |-> "none", good |-> FALSE]
Reply(to, code, step) == [to |-> to, code |-> code, step |-> step, good |-> TRUE]
Booted == [Junk EXCEPT !.to = "boot"]

(* The buffer outlives replies: what a short one does not overwrite stays. *)
(* score is whether the bytes of a search's score are above 50.            *)
NoBuf == [to |-> "none", code |-> "none", step |-> "none", good |-> FALSE, score |-> FALSE]

Init ==
    /\ pc = "peek" /\ job = "NONE" /\ started = FALSE
    /\ cmd = "none" /\ whole = TRUE /\ waited = 0
    /\ wire = <<>> /\ rx = <<>> /\ buf = NoBuf
    /\ BusInit /\ retaps = 0 /\ steps = 0
    /\ ticket = 0 /\ touches = 0 /\ wanted = 0 /\ jobs = 0
    /\ faults = 0 /\ disturbed = FALSE /\ matched = FALSE
-----------------------------------------------------------------------------
(* The reader and the line. *)
Fault ==
    /\ faults < MaxFaults
    /\ faults' = faults + 1
    /\ disturbed' = TRUE
NoFault == UNCHANGED <<faults, disturbed>>

Codes(to) ==
    CASE to = "READ_SENSOR" -> {"ok", "fail"}
      [] to = "GEN_PATTERN" -> {"ok", "fail"}
      [] to = "SEARCH_PATTERN" -> {"match", "weak", "unknown"}
      [] to = "CLEAR_ALL_FG" -> {"ok", "fail"}
      [] OTHER -> {"ok"}

(* A reply is on its way, none will come, it is garbled, or the reader asks*)
(* to be authenticated first (code 0x13).                                  *)
Answers(to) ==
    \/ /\ NoFault
       /\ \E code \in Codes(to) :
             /\ wire' = Append(wire, Reply(to, code, "none"))
             /\ matched' = (matched \/ code = "match")
    \/ /\ Fault /\ UNCHANGED matched
       /\ wire' \in {wire, Append(wire, [Reply(to, "ok", "none") EXCEPT !.good = FALSE]),
                     Append(wire, Reply(to, "denied", "none"))}

(* fg_enroll: the reader reports by itself until it saved or gave up. *)
Reports ==
    /\ pc = "recv" /\ cmd = "ENROLL" /\ steps > 0
    /\ \E step \in {"launch", "step", "retap", "saved"}, code \in {"ok", "full", "fail"} :
          /\ step = "retap" => retaps > Count(wire, Retap) + Count(rx, Retap)
          /\ wire' = Append(wire, Reply("ENROLL", code, step))
          /\ steps' = IF step = "saved" \/ code # "ok" THEN 0 ELSE steps - 1
    /\ UNCHANGED <<pc, jobVars, cmd, whole, waited, todo, rx, buf, retaps,
                   faults, disturbed, matched, touchVars>>

Arrives ==
    /\ wire # <<>>
    /\ rx' = Append(rx, Head(wire))
    /\ wire' = Tail(wire)
    /\ UNCHANGED <<pc, jobVars, cmd, whole, waited, todo, buf, readerVars, touchVars>>

(* An interrupt, at any time; a ticket that is there already is kept. *)
Touch ==
    /\ touches < MaxTouches
    /\ touches' = touches + 1
    /\ wanted' = IF pc = "peek" /\ ticket = 0 THEN wanted + 1 ELSE wanted
    /\ ticket' = 1
    /\ UNCHANGED <<pc, jobVars, cmd, whole, waited, todo, lineVars, readerVars>>
-----------------------------------------------------------------------------
(* event_publish; what the queues do with it is in module Bus. *)
Publish ==
    /\ Publishing("fg")
    /\ todo' = [todo EXCEPT !["fg"] = Tail(@)]
    /\ UNCHANGED <<pc, jobVars, cmd, whole, waited, lineVars, readerVars, touchVars>>

(* Mutant: what came in before is left there. *)
FlushedNot(input) == input
(* uart_flush_input. *)
Flushed(input) == <<>>

(* fg_service finds a ticket, latches its job, and powers the reader up. *)
Wake(next) ==
    /\ pc = "peek" /\ ticket = 1
    /\ job' = next
    /\ rx' = Flushed(rx)
    /\ \/ wire' = <<Booted>> /\ disturbed' = FALSE /\ UNCHANGED faults
       \/ wire' = <<>> /\ Fault
    /\ matched' = FALSE
    /\ pc' = "boot"
    /\ UNCHANGED <<started, jobs, cmd, whole, waited, todo, buf, retaps, steps, touchVars>>

(* 0x55 came, or it did not within a second.  One left in the buffer from  *)
(* the last time ends the wait early.                                      *)
BootDone ==
    /\ pc = "boot"
    /\ \/ /\ rx # <<>>
          /\ rx' = Tail(rx)
          /\ buf' = [buf EXCEPT !.to = "boot"]
          /\ NoFault
       \/ /\ rx = <<>>
          /\ IF wire = <<>> THEN NoFault
             ELSE IF buf.to = "boot" THEN disturbed' = TRUE /\ UNCHANGED faults ELSE Fault
          /\ UNCHANGED <<rx, buf>>
    /\ pc' = "send" /\ cmd' = "AUTH_DEF"
    /\ UNCHANGED <<jobVars, whole, waited, todo, wire, retaps, steps, matched, touchVars>>

Send ==
    /\ pc = "send" /\ Idle("fg")
    /\ pc' = "recv"
    /\ IF cmd = "ENROLL"
       THEN /\ rx' = Flushed(rx)
            /\ steps' = MaxSteps
            /\ UNCHANGED <<wire, faults, disturbed, matched>>
       ELSE /\ rx' = IF cmd = "READ_SENSOR" THEN Flushed(rx) ELSE rx
            /\ Answers(cmd)
            /\ UNCHANGED steps
    /\ waited' = 0
    /\ UNCHANGED <<jobVars, cmd, whole, todo, buf, retaps, touchVars>>
-----------------------------------------------------------------------------
(* What becomes of a job when fg_cmd_transmit returns ok, the reply being  *)
(* in the buffer b.  Go on with a command, or end with some events.        *)
GoOn(next) ==
    /\ pc' = "send" /\ cmd' = next
    /\ UNCHANGED <<jobVars, waited, todo, retaps>>
EndJob(events) ==
    /\ pc' = "sleep" /\ Start("fg", events)
    /\ started' = FALSE
    /\ retaps' = 0
    /\ UNCHANGED <<job, jobs, cmd, waited>>
StartJob ==
    /\ pc' = "send" /\ Start("fg", Job!Report("JOB_START"))
    /\ started' = TRUE
    /\ jobs' = jobs + 1
    /\ cmd' = [SEARCH_N_SIGNIN |-> "READ_SENSOR", ENROLL |-> "ENROLL", DEL_ALL |-> "CLEAR_ALL_FG"][job]
    /\ retaps' = IF job = "ENROLL" THEN Retaps ELSE 0
    /\ UNCHANGED <<job, waited>>

(* The code of a search is 0 whether the score is good or not. *)
Zero(b) == b.code \in {"ok", "match", "weak"}
Recognised(b) == Zero(b) /\ b.score

(* Mutant: the enrolment waits for its reader without limit. *)
StillEnrollingOn(w) == TRUE
StillEnrolling(w) == w < EnrolWaits

(* Mutant: the loop goes on after a failure was reported. *)
GivesUpNot(events) ==
    /\ pc' = "recv" /\ Start("fg", events)
    /\ UNCHANGED <<jobVars, cmd, waited, retaps>>
GivesUp(events) == EndJob(events)

(* A reply in the loop of fg_enroll; an acknowledgement of another command *)
(* passes for a step.                                                      *)
Enrolling(ok, b) ==
    LET waiting == IF ok \/ Len(rx) > 1 THEN waited ELSE waited + 1
        on == pc' = "recv" /\ UNCHANGED <<jobVars, cmd, todo, retaps>>
    IN  \/ /\ ~ok \/ b.step = "launch"
           /\ IF StillEnrolling(waiting) THEN on /\ waited' = waiting ELSE EndJob(<<>>)
        \/ /\ ok /\ b.step # "launch" /\ Zero(b)
           /\ \/ /\ b.step = "retap"
                 /\ pc' = "recv" /\ waited' = 0
                 /\ Start("fg", Job!Report("PROGRESS_SUCC"))
                 /\ retaps' = retaps - 1
                 /\ UNCHANGED <<jobVars, cmd>>
              \/ b.step = "saved" /\ EndJob(Job!Report("JOB_SUCC"))
              \/ b.step \notin {"retap", "saved"} /\ on /\ waited' = 0
        \/ /\ ok /\ b.step # "launch" /\ ~Zero(b)
           /\ GivesUp(IF b.code = "full" THEN <<>> ELSE Job!Report("PROGRESS_FAIL"))

Returns(ok, b) ==
    \/ cmd = "AUTH_DEF" /\ GoOn("LED_ON")
    \/ cmd = "LED_ON" /\ StartJob
    \/ cmd = "READ_SENSOR" /\ IF ok /\ Zero(b) THEN GoOn("GEN_PATTERN") ELSE EndJob(<<>>)
    \/ cmd = "GEN_PATTERN" /\ IF ok /\ Zero(b) THEN GoOn("SEARCH_PATTERN") ELSE EndJob(<<>>)
    \/ cmd = "SEARCH_PATTERN" /\ ~ok /\ EndJob(<<>>)
    \/ /\ cmd = "SEARCH_PATTERN" /\ ok
       /\ EndJob(IF Recognised(b) THEN Job!TrustedAuth ELSE Job!Report("JOB_FAIL"))
    \/ /\ cmd = "CLEAR_ALL_FG"
       /\ EndJob(Job!Report(IF ok /\ Zero(b) THEN "JOB_SUCC" ELSE "JOB_FAIL"))
    \/ cmd = "ENROLL" /\ Enrolling(ok, b)
-----------------------------------------------------------------------------
(* fg_cmd_transmit from its receive on. *)
Receiving == pc \in {"recv", "renew"} /\ Idle("fg")

(* After a re-authentication the checks of the refused reply go on, on the *)
(* buffer that now holds the last reply: both are plain acknowledgements.  *)
Failed(b) ==
    IF pc = "recv" THEN Returns(FALSE, b) ELSE Returns(whole /\ b.good, b)

(* Mutant: the receive waits without limit. *)
WaitsOn == FALSE
(* Nothing came in time. *)
TimesOut ==
    /\ Receiving /\ rx = <<>>
    /\ IF wire = <<>> THEN NoFault ELSE Fault
    /\ Failed(buf)
    /\ whole' = TRUE
    /\ UNCHANGED <<lineVars, steps, matched, touchVars>>

(* Nine bytes that are no head: the reply behind is cut, unless the junk   *)
(* was just as long or the rest of the nine bytes did not come.            *)
ReadsJunk ==
    /\ Receiving /\ rx # <<>> /\ Head(rx).code = "junk"
    /\ rx' \in IF Len(rx) = 1 THEN {<<>>} ELSE {Tail(rx), <<Junk>> \o SubSeq(rx, 3, Len(rx))}
    /\ buf' = [buf EXCEPT !.to = "junk", !.good = FALSE]
    /\ Failed(buf')
    /\ whole' = TRUE
    /\ UNCHANGED <<wire, steps, faults, disturbed, matched, touchVars>>

(* A score is in a search's reply only; an enrolment's has its checksum    *)
(* there, which can be any number, and others leave it as it was.          *)
Stored(r) ==
    {[to |-> r.to, code |-> r.code, step |-> r.step, good |-> r.good, score |-> s] :
        s \in {above \in BOOLEAN :
                 /\ r.code = "match" => above
                 /\ r.code = "weak" => ~above
                 /\ r.code \notin {"match", "weak"} /\ r.to # "ENROLL" => above = buf.score}}

(* A code of 0x13: authenticate, whatever comes of it, then go on with the *)
(* checks of the reply that was refused.                                   *)
Renew(complete) ==
    /\ whole' = complete
    /\ pc' = "renew"
    /\ UNCHANGED <<jobVars, cmd, waited, todo, retaps>>

ReadsReply ==
    /\ Receiving /\ rx # <<>> /\ Head(rx).code # "junk"
    /\ rx' = Tail(rx)
    /\ buf' \in Stored(Head(rx))
    /\ IF buf'.code = "denied"
       THEN Renew(whole) /\ Answers("AUTH_DEF")
       ELSE /\ UNCHANGED <<wire, faults, disturbed, matched>>
            /\ whole' = TRUE
            /\ Returns(whole /\ buf'.good, buf')
    /\ UNCHANGED <<steps, touchVars>>

(* The head came in time and the body did not: it arrives as junk, and the *)
(* code looked at is that of an older reply.                               *)
ReadsHead ==
    /\ Receiving /\ rx # <<>> /\ Head(rx).code # "junk"
    /\ faults < MaxFaults
    /\ rx' = <<Junk>> \o Tail(rx)
    /\ buf' = [buf EXCEPT !.to = Head(rx).to, !.good = FALSE]
    /\ IF buf.code = "denied"
       THEN Renew(pc = "renew" /\ whole) /\ faults' = faults + 1 /\ disturbed' = TRUE
            /\ wire' \in {wire, Append(wire, Reply("AUTH_DEF", "ok", "none"))}
       ELSE Fault /\ Failed(buf') /\ whole' = TRUE /\ UNCHANGED wire
    /\ UNCHANGED <<steps, matched, touchVars>>

(* fg_sleep cuts the power: what was not sent is never sent. *)
Sleep ==
    /\ pc = "sleep" /\ Idle("fg")
    /\ wire' = <<>> /\ steps' = 0
    /\ job' = "NONE"
    /\ pc' = "take"
    /\ UNCHANGED <<started, jobs, cmd, whole, waited, todo, rx, buf, retaps, faults, disturbed,
                   matched, touchVars>>

(* Mutant: the ticket is only looked at. *)
SpendNot(t) == t
Spend(t) == 0

(* A second later the ticket is spent, with the touches made meanwhile. *)
TakeTicket ==
    /\ pc = "take"
    /\ ticket' = Spend(ticket)
    /\ pc' = "peek"
    /\ UNCHANGED <<jobVars, cmd, whole, waited, todo, lineVars, readerVars, touches, wanted>>

Service ==
    /\ \/ \E next \in Job!Jobs : Wake(next)
       \/ BootDone \/ Send \/ TimesOut \/ ReadsJunk \/ ReadsReply \/ ReadsHead
       \/ Sleep \/ TakeTicket \/ Publish
    /\ UNCHANGED queue

Outside == (Arrives \/ Reports \/ Touch) /\ UNCHANGED queue

Next == Service \/ Outside
Spec == Init /\ [][Next]_vars
(* The task runs when it can, every wait but that for a ticket having a    *)
(* limit, and what the reader has sent arrives, in time or late.           *)
FairSpec == Spec /\ WF_vars(Service) /\ WF_vars(Arrives /\ UNCHANGED queue)
-----------------------------------------------------------------------------
(* What the buffer can hold, and what a job can report. *)
Buffers ==
    [to : Commands \cup {"boot", "junk", "none"},
     code : {"ok", "fail", "match", "weak", "unknown", "full", "denied", "none"},
     step : {"none", "launch", "step", "retap", "saved"}, good : BOOLEAN, score : BOOLEAN]
Reported == {Job!Report(p) : p \in {"JOB_START", "PROGRESS_SUCC", "PROGRESS_FAIL", "JOB_SUCC", "JOB_FAIL"}}

TypeOK ==
    /\ pc \in {"peek", "boot", "send", "recv", "renew", "sleep", "take"}
    /\ job \in Job!Jobs \cup {"NONE"}
    /\ cmd \in Commands \cup {"none"}
    /\ {started, whole, disturbed, matched} \subseteq BOOLEAN
    /\ ticket \in 0..1 /\ faults \in 0..MaxFaults
    /\ retaps \in 0..Retaps /\ steps \in 0..MaxSteps
    /\ waited \in 0..EnrolWaits
    /\ touches \in 0..MaxTouches /\ jobs \in Nat /\ wanted \in Nat
    /\ wire \in Seq(Message) /\ rx \in Seq(Message)
    /\ buf \in Buffers
    /\ DOMAIN todo = Tasks /\ todo["fg"] \in {<<>>, Job!TrustedAuth} \cup Reported

(* Whatever went wrong on the line in earlier jobs, a job in which nothing *)
(* does opens the door only for a finger the reader recognised in it: no   *)
(* reply and no score of an earlier job is taken for its own.              *)
SignsInOnMatch ==
    [][todo'["fg"] = Job!TrustedAuth => todo = todo' \/ matched \/ disturbed]_vars

(* A job is started by a touch of the idle reader and by no other: touches *)
(* during a job and in the second after it start none.                     *)
JobsPaid == jobs <= wanted

(* Every ticket is spent: no reader, however silent, keeps the task.       *)
TicketSpent == (ticket = 1) ~> (ticket = 0)

(* What the whole system is checked with, module Fingerprint, is what this *)
(* task does: its jobs, their ends and their events in that order.         *)
Publishes == Publishing("fg") /\ todo' = [todo EXCEPT !["fg"] = Tail(@)] /\ UNCHANGED <<started, retaps, jobs>>
KeepsJobs ==
    [][Publishes \/ Job!FgRetap \/ Job!FgEnd \/ \E next \in Job!Jobs : Job!FgStart(next)]_<<
        started, retaps, jobs, todo>>
=============================================================================
