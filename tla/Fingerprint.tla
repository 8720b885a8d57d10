---------------------------- MODULE Fingerprint ----------------------------
(***************************************************************************)
(* fg_service (fg_reader.c:441-478): a touch of the reader starts the job  *)
(* selected at that moment; the job reports to the display and, when a     *)
(* finger is recognised, asks system_service for a trusted authentication. *)
(* The serial protocol below a job is a choice of its outcome.             *)
(***************************************************************************)
EXTENDS Bus

CONSTANTS
    MaxTouches,                  \* bound on the touches of the reader
    Retaps                       \* progress reports of an enrolment (eight)

VARIABLES
    job,                         \* s_fg_state while a job runs, else "NONE"
    retaps,                      \* touches the enrolment still asks for
    touches                      \* history: touches so far

fgVars == <<job, retaps, touches>>

Jobs == {"SEARCH_N_SIGNIN", "ENROLL", "DEL_ALL"}

FgInit ==
    /\ job = "NONE"
    /\ retaps = 0
    /\ touches = 0

Report(progress) == <<To("SERV_UI", [type |-> "fg", progress |-> progress])>>

TrustedAuth == <<To("SERV_AUTH",
    [type |-> "auth", trusted |-> TRUE, pasw |-> <<>>,
     respond |-> "HW_DOOR_LOCK", for |-> "DOOR_UNLOCK",
     validEcho |-> FALSE, wrongEcho |-> FALSE])>>

(* The job is latched from g_fg_next_state when the touch is noticed. *)
FgStart(next) ==
    /\ job = "NONE"
    /\ touches < MaxTouches
    /\ touches' = touches + 1
    /\ job' = next
    /\ retaps' = IF next = "ENROLL" THEN Retaps ELSE 0
    /\ Start("fg", Report("JOB_START"))
    /\ UNCHANGED queue

(* One more touch of an enrolment is done. *)
FgRetap ==
    /\ job = "ENROLL"
    /\ retaps > 0
    /\ retaps' = retaps - 1
    /\ Start("fg", Report("PROGRESS_SUCC"))
    /\ UNCHANGED <<queue, job, touches>>

(* How a job can end.  The silent ends are a reader that does not answer   *)
(* and, in a search, a finger that could not be read; a recognised finger  *)
(* reports nothing to the display either.                                  *)
Endings(j) ==
    CASE j = "SEARCH_N_SIGNIN" -> {TrustedAuth, Report("JOB_FAIL"), <<>>}
      [] j = "ENROLL" -> {Report("JOB_SUCC"), Report("PROGRESS_FAIL"), <<>>}
      [] j = "DEL_ALL" -> {Report("JOB_SUCC"), Report("JOB_FAIL")}

FgEnd ==
    /\ job # "NONE"
    /\ \E out \in Endings(job) : Start("fg", out)
    /\ job' = "NONE"
    /\ retaps' = 0
    /\ UNCHANGED <<queue, touches>>
=============================================================================
