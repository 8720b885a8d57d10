# A TLA+ model of the door_lock firmware

door_lock is the firmware of an ESP32-S3 door lock: FreeRTOS (100 Hz tick, two
cores, every task at priority 10, so tasks truly interleave), a keypad and four
buttons, a fingerprint reader on a serial port, an OLED, two leds that stand for
the lock, and a password kept in flash with FlashDB. The repository has no tests
and no documents; its comments are the only statement of what it should do.

Paths below are relative to `src/main/`.

## 1. Inventory

| Component | Code | State | Operations | What makes it correct |
|---|---|---|---|---|
| door lock task | `main.c:32-86` | `countdown_cnt`, `heart_beat_freq`, leds | receive, beat, relock | opens on a right password only; closes not early, not much late, always |
| event bus | `ui/app.c:33-74` | three queues (24, 6, 6) | `event_publish` | a message is lost at most, never doubled or misrouted; no two tasks block each other for ever |
| UI handler | `ui/app.c:77-334`, `510-529` | input text, caches of two pages, list selections, `g_fg_next_state` | one branch per event and key | requests carry what was typed for that purpose |
| activity stack | `ui/activity.c` | `activity_stack`, screen | run, back, refresh | the screen shows the activity that gets the keys; home lies at the bottom and nowhere else |
| system service | `ui/app.c:347-423` | password in flash | authenticate, change password | a change needs the old password |
| delayed calls | `ui/app.c:336-361`, `424-508` | `to_do_list`, `s_awake_cntdwn`, mutex | `invoke`, timer scan | each accepted call runs once, not before its time |
| fingerprint service | `hardware/fingerprint_reader/fg_reader.c` | `s_fg_state`, semaphore, UART buffers | identify, enrol, delete all | replies belong to the command they answer; a job per touch; every job ends |
| keypad, buttons | `hardware/input/` | debounce times, last button | scan, interrupt handlers | a key held is typed and repeated at its pace; a calm press of a button is published once |
| views, widgets, OLED, fonts | `ui/view.c`, `ui/widget.c`, `hardware/oled`, `assest` | list contents, frame buffer | drawing | text stays in its frame |
| FlashDB KVDB | `system/flashdb/src/fdb_kvdb.c` | sectors, caches | get, set, delete, GC, recovery | caches agree with flash; a collection has room; a power cut leaves the old or the new value |
| FlashDB TSDB, low level | `fdb_tsdb.c`, `fdb_utils.c`, `fdb.c` | sectors, status tables | init (the application appends nothing) | a status is read back as written, a torn one never goes back |
| FAL | `hardware/flash/src` | partition table | find, read, write, erase | operations stay inside a partition |
| boot | `main.c:88-142` | | initialise, default password | a password that was set survives |

How they interact: interrupts and the keypad task publish keys to the UI queue;
the UI task publishes requests to the system queue and calls `invoke`;
system_service publishes results to the UI and to the lock's queue and runs the
delayed calls, which pop the activity stack that the UI task also uses; the
lock publishes what it does to the UI; the fingerprint task publishes progress
to the UI and trusted authentications to system_service, and reads
`g_fg_next_state`, which the UI writes.

The hard behaviours are listed with their lines in `PROJECT.json` under
`hazards`. In short: a time-out that doubles as a clock; messages dropped at
full queues while `event_publish` returns true; two tasks that block on each
other's queues; a wake-up time read without its mutex; delayed calls that act on
whatever state they find; two message layouts in one queue; caches that outlive
their purpose; replies that are late, cut or garbled; clocks that tell a bounce
from a press; a record rewritten on flash in a dozen steps, each of which may be
the last before the power goes; and restarts, which only the flash survives.

## 2. Modules

| Module | Models | Depends on |
|---|---|---|
| `LockPromise` | the lock as a promise: open, seconds left | |
| `DoorLock` | `door_lock_task` with its time-outs and blocking publishes | `LockPromise` (refinement) |
| `DoorLockProofs` | theorems about `DoorLock` | `DoorLock` |
| `Deferred` | what delayed calls promise: accepted calls run at most once | |
| `Invoke` | `invoke()` and the timer of system_service, statement by statement | `Deferred` (refinement) |
| `InvokeProofs` | theorems about `Invoke` | `Invoke` |
| `Bus` | queues and `event_publish` | |
| `Activities` | `activity.c`; the change of the stack, the look at its top and the print are steps of their own | `Bus` |
| `Ui` | `ui_event_handler`, one action per branch | `Activities` |
| `SystemService` | authentication, password change; delayed calls as `Deferred` promises | `Activities` |
| `Fingerprint` | `fg_service`; a job's outcome is a choice | `Bus` |
| `DoorSystem` | all tasks, people and restarts together | `Ui`, `SystemService`, `Fingerprint`, `LockPromise` |
| `DoorSystemProofs` | theorems about `DoorSystem`: its stack, its queues, its accounts of openings and changes | `DoorSystem`, `ListProofs` |
| `Counting` | how many elements of a sequence are in a set | |
| `ListProofs` | lemmas about `Counting`, and about a left fold with any step | `Counting` |
| `FgLink` | `fg_service` down to its serial line and its ticket | `Bus`, `Fingerprint` (refinement) |
| `FgLinkProofs` | theorems about `FgLink` | `FgLink`, `ListProofs` |
| `Input` | `keypad.c` and `button.c`, in ticks | |
| `InputProofs` | theorems about the buttons and the keypad | `Input` |
| `StatusTable` | status tables on NOR flash | |
| `KvFlash` | sectors, nodes and caches of `fdb_kvdb.c`, and its iterators | `StatusTable` |
| `KvDb` | find, set, delete, collect, open and recover | `KvFlash` |
| `KvStore` | what the store promises | |
| `KvApp` | `app_main` and password changes over `KvDb`, with power cuts | `KvDb`, `KvStore` (refinement) |
| `Fal` | partition table, bounds checks, ESP32 driver | |
| `Storage` | how `fdb.c` and `fdb_utils.c` use `Fal` | `Fal` |
| `FlashProofs` | theorems about `StatusTable` and `Storage`; what each operation of `KvFlash` and `KvDb` up to the collector keeps | `KvApp`, `Storage`, `ListProofs` |
| `KvProofs` | what sets, openings and recoveries keep; theorems about `KvApp` | `FlashProofs` |
| `MCDoorLock`, `MCInvoke`, `MCDoorSystem`, `MCKvApp`, `MCInput` | values of constants for TLC | |

Conventions. Variables keep the names of the source where they have one
(`to_do_list`, `green`, `stack`); comments beside each variable name the others
(`cnt` is `countdown_cnt`, `awake` is `s_awake_cntdwn`, `beat` says that
`heart_beat_freq` is finite). Variables marked *history* are not in the code:
they count what happened, and no guard of the program's own steps reads them
(the bounds on the environment do). Definitions marked *Mutant* are wrong
versions of the definition that follows them; no specification uses them, and
putting one in place of its original makes the property named in
`PROJECT.json` fail.

**DoorLock.** `pc` is "recv" in `xQueueReceive` (line 44) and "send" in
`event_publish`. `waited` counts ticks in that call. `ReceiveValid` takes a
message and switches the leds; `AfterSend` makes the assignments that the source
puts after the publish (lines 53-54, 82); between the two up to `SendTicks` pass.
A message is its first byte, which is all the task reads.

**Invoke.** `spc` and `upc` are the places where system_service and the UI task
are. One step is one access to shared state: reading `s_awake_cntdwn` (line 359)
is apart from the receive that uses it, a slot is taken (485-487) before its
wake-up time is stored (490), the dummy sent (492) and its function written
(494). Ticks are counted modulo `TickMod`, and subtraction wraps as in the
source. Time passes while both tasks are blocked, and `MaxSlips` times at any
other point.

**Bus.** A handler takes its message, changes its own state, and then publishes;
`todo[t]` is what task t still has to do: to print, to publish, to `invoke`. Each
publish is a step of its own and either finds room, or gives up at a full queue.
*Order:* in the source a handler may publish before its last assignment to
private state; nobody else sees that state, so taking the assignment first
changes nothing.

**Activities.** `activity_run` is `Push` (`activity.c:73`) and then `Drawn` (74);
`activity_back` is `Pop` (84), `Peek` at the new top and `Drawn` (87). The first step
belongs to the handler that calls the operation; the others are in the task's
`todo`, and the other task's operations can come between any two of them, since
nothing in the code locks the stack or the screen. `overlap` is history: whether
an operation was begun while the other task was in the middle of one, in this boot
("past") or at the operation begun last ("last").

**DoorSystem** leaves out time: any beat, time-out or delayed call may come at
any moment that its guards allow. The lock is `LockPromise`, which `DoorLock`
implements. `Reboot` is a panic's restart or a power cut at any moment: all
variables but `stored` go back to their first values. A password is a sequence
of characters; the empty one reads back as NULL (`fdb_kvdb.c:738`), which
`CompareWithNull` turns into a panic (`app.c:377`, `405`).

**FgLink.** `pc` is where `fg_service` is: "peek" at the ticket (line 446), "boot"
in `fg_wake`, "send" and "recv" around `uart_write_bytes` and `uart_read_bytes` of
`fg_cmd_transmit`, "renew" in the re-authentication of line 138, "sleep", "take"
where the ticket is spent (476). A reply is on the `wire`, then in the driver's
buffer `rx`, then in `buf`, which is `s_uart_rx_buf` and keeps what a shorter
reply does not overwrite. A *fault* is a reply lost, late, cut, garbled, or a
refusal (0x13); `disturbed` remembers one in the present job. Time is only what
it decides: whether a reply comes before its time-out. `KeepsJobs` shows that the
task keeps the promise of `Fingerprint`, which the whole system is checked with. An
enrolment asks for the finger up to `Retaps` more times (eight for this reader,
`fg_reader.c:270`).

**Input.** Time is in ticks of 10 ms; `sinceX` is `cur_time - last_X`, counted as
far as it is compared. `Scan` is one pass of the task over all columns, which
takes no tick because `pdMS_TO_TICKS(5)` is 0 at 100 Hz, and the task is assumed
to get the processor within the tick it is woken in. The rows rise again during
the scan while a key is held, which is the ticket for the next scan (`Triggered`).
The scan is a recursive function over the keys of the pad in the order of the loops,
`Scanned[n]` being what the first n have made of the variables. Key and button codes are
disjoint, the buttons' being "larger than normal ascii" (`app.h:66`).
`BtnEdge` is one run of the button interrupt.

**KvFlash, KvDb, KvApp.** The C functions are operators from a database record to
a database record, with the names of the source. Every write to flash appends
the whole flash to `db.trace`; an action of `KvApp` either takes the end of the
trace, or (`CutDuring`) any point of it and loses everything in memory. A sector
is a sequence of nodes, an address is <<sector, index>>, and a node's bytes are
how far they were written (`w`): the status, the magic word, the length,
everything. Sector headers, statuses and nodes are written in the order of the
source. The sector table is the zeroed object at the time the oldest sector is
looked for (`ZeroTable`, `fdb_kvdb.c:1773-1795`). The two iterators take the callbacks of the source as
operators; the arguments C passes beside a callback (the key looked for, the size,
the counters) are fields of the record `acc` that goes through the walk, and a
callback that returns true sets `acc.stop`. `KvStore` is the promise: a
cut leaves the pair being set old, new or lost, and leaves the other one alone.
There are two exceptions, and each takes more than one cut: when the opening that
repairs the store after a cut is cut short itself, or when a set is cut short in a
store that has lost a value before, the other pair may be gone too (a power cut
between two operations, and one during the opening that follows it, touches
nothing). A value that was lost may come back whenever the store is opened or
sectors are collected (`ghosts`), and the promise never stops counting on it.
The walks are left folds over as many turns as there can be sectors or nodes, and stand
still once C would have left its loop. `Remain` is the room that a sector's visible
nodes leave. `_fdb_kv_load` scans again as long as that asks for a collection, without a
limit in the code (1658-1661); `LoadRounds` limits it, and `PowerOn` takes an opening
only when nothing is asked for any more.

**Fal, Storage, StatusTable** are functions, not state machines: they are what
`KvFlash` takes for granted, and they are proved rather than run. A partition
access gives the bytes of the chip it touches; sums wrap at `Word`, the range of
a size_t.

## 3. Runs

Passing runs (each property has a mutant that breaks it):

| Run | Question | Bounds, and why they are enough |
|---|---|---|
| `lock_safety` | Does the lock open, count and close as promised? | Countdown 4, second of 3 ticks, publish of 1 tick, queue of 2, 4 messages: a message can come at every phase of a beat, during a publish, and several in one countdown. The theorems remove the bounds. |
| `invoke_calls` | Are delayed calls safe under interference? | 3 requests for 2 slots, 2 delays, 2 other messages, a tick in any gap: overlapping calls, a full table, a full queue, a lost mutex. |
| `invoke_live` | Do calls run, do tasks return? | As above with a queue of 1 and no stray tick. |
| `system_doors` | Is every opening paid for by a right password, and does the system come to rest? | 5 keys: a right or a wrong password, and then another; one touch of the reader, one restart, queues of one slot, so that each fills up and loses messages, and the UI task and system_service do block on each other. |
| `system_alter` | Is every password change paid for? | Up to 12 keys: into the menu, old password once or twice (the requests can overlap), two or more changes, one restart. |
| `system_menu` | What is left of the agreement of stack and screen when two tasks work on both without a lock? | 6 menu keys, RETURN among them, two fingerprint jobs, a stack of 3, so that it overflows, one restart. Delayed closings meet launches and closings of the UI task at every point. |
| `kv_store` | Does the store keep its promise through power cuts? | 3 sectors, 2 of them in the sector table, so that it fills. A sector takes two whole nodes; with nodes that a cut left unfinished there can be four in it. 2 keys; two new passwords (symmetric); 2 power cuts, one of which may hit the recovery from the other. Sectors fill, are collected and go around the ring. The retry of `_fdb_kv_load` is bounded by `LoadRounds` = 3; an opening that needed more would leave the program off with no step, and the run finds no deadlock. With three cuts it does: see below. |
| `fg_link` | Does the fingerprint task survive its reader? | 3 touches, 2 faults, enrolments of 1 more tap, 2 reports and 2 receives: a late reply can reach the next command, the next job, and the re-authentication. |
| `input` | Are keys typed as they are held? | Two keys of one row and one of another, two buttons; the limits 20, 50, 150, 600 and 100 ms become 1, 2, 3, 5 and 2 ticks, in the same order. Nothing else bounds the run. |

Properties:

- `OpenIsCounted`, `NeverEarly`, `NeverLaterThanIgnored`, `EventuallyRelocks`,
  `KeepsPromise`: see `DoorLock`. The bound of `NeverLaterThanIgnored` shows how
  "10sec to relock" (`main.c:53`) stretches: each ignored message costs up to one
  second, so somebody who keeps trying wrong passwords at the open door keeps it
  open.
- `NoLostWakeup`: although `s_awake_cntdwn` is read without the mutex, the
  dummy message (or whatever filled the queue) always wakes the service.
- `TableGuarded`, `KeepsIdentity`, `UndisturbedOnTime`, `UndisturbedRuns`,
  `TasksReturn`: the table is used by one task at a time, a call runs at most
  once, a call nobody disturbs runs exactly when due, no task hangs. A call is
  *disturbed* when another call overlaps it, when a tick interrupts code while it
  is pending, or when it becomes due while the service is busy.
- `GrantsAccounted`: right passwords = openings + grants on their way + grants
  lost at a full queue.
- `ChangesVerified`: changes made, requested, being typed or just granted are
  never more than verifications of the old password.
- `StackSound`: home stays at the bottom of the stack as long as no two operations
  met, and is never anywhere else; and unless the stack is full the screen shows
  the activity that gets the keys, whenever nobody is in the middle of an
  operation and the one begun last did not meet another: what an earlier meeting
  spoiled, the next undisturbed operation repairs. More than that the code does
  not give (see below).
- `ComesToRest`: when people stop, every queue is emptied, every task comes back to
  its receive and the door is locked.
- `CachesAgree`, `FindsStored`: the sector table and the cache of addresses say
  what is on flash. `CollectorHasRoom`: between calls one sector is empty, so a
  collection has where to move live nodes. `CollectsWhenAsked`: no set leaves a
  collection asked for; openings are the ones that come back, which they do when none
  is asked for (`Opens`), so of them the property says nothing. `KeepsStore`: `KvApp` implements `KvStore`.
- `SignsInOnMatch`: in a job without a fault of its own the door is opened only
  for a finger recognised in that job, whatever faults came before. `JobsPaid`:
  touches made during a job, or in the second after it, start no job.
  `TicketSpent`: no reader keeps the task for ever. `KeepsJobs`: refinement.
- `HeldIsTyped`: a key that stays down is typed, whatever the others do.
  `KeysPaced`: and not repeated sooner than the code means to.
  `CalmButtons`, `CalmPressSent`: with buttons pressed one at a time and edges
  more than 100 ms apart, each press is published once and no release is.

Runs that show a disagreement of the code with its own comments:

| Run | Comment | What the code does |
|---|---|---|
| `lock_finger` | `app.c:369` "unlock door directly" | the message's first byte is 2 and the lock wants 1: a recognised finger never opens the door |
| `system_reboot` | `main.c:112` "write defualt password if not exist" | an empty new password is accepted, panics at the next check and is replaced by 0000 |
| `kv_lost` | `fdb_kvdb.c:1605` "recovery the old KV" | power lost in the middle of a password change can leave no password: the scan of the recovery returns at the first unfinished node (1612-1617), in front of the old one, or starts at the wrong sector because the sector table it looks in is not initialised yet (1778, 1787). `app_main` then writes 0000, and the old password may come back later. |

Seen while modelling, without a run of their own:

- delayed calls: a call woken before its time is run at once (`app.c:439` tests
  `<=`), one found overdue is put off by nearly the whole tick range (`app.c:455`),
  and a later, longer request postpones the wake-up (488 compares a delay with a
  point in time). With no free slot `invoke` returns with the mutex held
  (`app.c:481`), and no request or delayed call succeeds again.
- stack and screen: the UI task pushes a page, system_service pops it (a delayed
  `activity_back`) and prints the page below, and the UI task prints its page: it is
  on the screen and keys go to the one below (`activity.c:73-74`, `84-87`). When
  RETURN and a delayed closing meet, home is popped; a page that the UI task
  launches before the top is looked for then lies at the bottom of a stack without
  home, and a key pressed in that moment reads from NULL.
- pages: RETURN at home pops the last activity and prints NULL (`activity.c:87`);
  the delayed `activity_back` closes whatever page is on top by then
  (`app.c:161`); `app.c:296` clears the input of the wrong page, so that the next
  new password is appended to the last one; a second opening while the door is
  open pushes a second door page and only one is closed.
- keypad: two keys held down are typed in turn at every scan (`keypad.c:31`, each is
  "another key"); a press that bounces before a scan, or comes 50 to 70 ms after
  the release, can pass for the same key still held, and is typed late.
- buttons: a tap shorter than 100 ms leaves the toggle in the wrong phase
  (`button.c:14`), and the next press is taken for a release. `event_publish` is
  called from the interrupt with a wait of 100 ms (`button.c:24`).
- fingerprint reader: after a refusal the checks of the refused reply go on over
  the buffer of the re-authentication (`fg_reader.c:138`), and a receive that gets a
  head but no body looks at the code of an older reply.
- key-value store: after three power cuts, two of them in recoveries, an opening can
  repeat its check for ever (`fdb_kvdb.c:1658-1661`): the first sector is clean and
  full with a node marked for deletion in it, the second is clean and full of
  unfinished copies, only the third is empty. Moving the marked node asks for a
  collection, there is no dirty sector to collect, and the check starts over. The
  promise of `KvStore` holds with three cuts as well.
- flash: what the driver's `init` returns is ignored (`fal_flash.c:45`), and so
  is what `fdb_init` returns (`main.c:103`); `main.c:110` dereferences a string that
  may be NULL; `_fdb_set_status` is right for up to seven statuses, of which the
  program uses six.

`CHECK_DEADLOCK FALSE` is set where all tasks block in their queues once nobody
sends, types or touches any more, which in a model is the end. `kv_store` and
`input` have no such end.

## 4. Fairness

Weak fairness of each task's own steps: FreeRTOS runs a ready task, equal
priorities share time, and every blocking call but the three main receives has a
time-out. `Tick` is fair in the timed modules because the timer interrupt does
not stop. In `DoorSystem` the beat belongs to the lock task's fairness: a receive
with a time-out returns. Nothing people do is fair, nor are restarts, nor
the delayed calls (`DelayedCall`), which may never run. In `FgLink` the task's own
steps are fair, every wait but the one for a ticket having a time-out, and so is
`Arrives`: what the reader has sent comes in, in time or late. `KvApp` and `Input`
state no liveness.

## 5. Proofs

`DoorLockProofs` proves for every `RelockSecs`, `SecTicks`, `SendTicks`,
`InboxCap` and `MaxMsgs` that satisfy `DoorLockAssumption`:

- `TypeCorrect`, `Counted`, `RelockNotTooLate`: invariants of `Spec`;
- `RelockNotEarly`: the action property `NeverEarly`;
- `ImplementsPromise`: `DoorLock` implements `LockPromise`.

The properties are not inductive. `since >= RelockSecs * SecTicks` at the last
beat follows only from how much of `since` each remaining second accounts for.
`IInv` adds, for a waiting task, that the beats already counted have each taken
at least `SecTicks` (a lower bound on `since`) and that they, the publishes and
the ignored messages account for all of `since` (an upper bound), and that
`waited` never passes the limit of the blocking call. `SpentStep`, `SpentEnds`,
`SpentBefore` and `LostStep` are the arithmetic, separated from the
state machine because the products of constants are the hard part for the
solvers. `NextIInv` has one step per action.

`InvokeProofs` proves for any number of slots, of calls and of ticks, any
queue and any limits of the waits that satisfy `InvokeAssumption`:

- `TableIsGuarded`: the invariant `TableGuarded`. It follows from `GInv`: the
  mutex excludes the scan while invoke() fills an entry, and every used entry
  but the one being filled (`uslot`) already holds the function of its request.
- `ImplementsDeferred`: `Invoke` implements `Deferred`, so a call runs at most
  once and only if it was accepted. The step that runs a call maps to `RunCall`
  only if the scanned entry is finished (`GInv`) and no second slot holds the
  same call (`Fresh`); the step that fills an entry maps to `Accept` only if the
  call being made is in no slot yet (`Making`). `InvokeFillFresh` and
  `ScanRunFresh` are those two steps.
- `WakeupNotLost`: the invariant `NoLostWakeup`, inductive once the queue is
  known to be a sequence. It needs of the queue only that it has at least
  one slot.

- `CallsTyped`: `TypeOK`. The queue stays within its length, sums of ticks and
  delays within `TickMod`, the scan's index at most one behind the last slot, and a
  slot in use holds a delay somebody asked for.
- `RunsOnTime`: as long as the tick counter has not wrapped (`Unwrapped`), the
  invariant `UndisturbedOnTime`. `Timing` says where, at each statement of the two
  tasks, the time a call is due is kept: in its slot, then in `s_awake_cntdwn`, then in
  the `planned` wake-up, then in the end of the receive (`Where`); that an undisturbed
  call is alone in the table (`Timed`); and that without a call nothing is planned
  (`Restful`, `Sleeping`). One lemma for each group of statements. `Unwrapped` is
  needed because a wake-up time behind the wrap, once in 497 days, is smaller than
  the time it is compared with (`app.c:359`).

`DoorSystemProofs` proves for every size of the queues, depth of the stack, key
and number of restarts that satisfy `UiAssumption`, `ServiceAssumption` and
`DoorSystemAssumption`:

- `ScreenAndStackAgree` (`StackSound`). `StackInv` says in which order a task does what
  it has to (`DrawsFirst`: what is left of an operation comes before anything else),
  and that as long as the operation begun last met no other, either nobody prints and
  the top is on the screen, or one task alone does and will put it there
  (`OnScreen`). An operation that begins alone establishes this from whatever the
  ones before it left, which is why earlier meetings need not be excluded; one that
  meets another ends it. That home is launched by nobody rests on the types of
  selections and of `todo`, so `StackInv` is proved with those.
- `TypesHold` (`TypeOK`): each queue, and each list of what a task still has to
  publish, holds only messages meant for that queue (`BusOK`), which is the routing
  every handler's decoding of bytes rests on.

- `GrantsAreAccounted` (`GrantsAccounted`) and `ChangesAreVerified`
  (`ChangesVerified`). `AccountsInv` is `TypeOK` and `StackInv` with the
  accounts: since each message is in a queue that carries its kind, a step moves at
  most one counted message, and the stack holds the new-password page at most as
  often as it was granted. Each of the bus's operations gets a lemma on what it does
  to the number of messages of a set; these rest on `ListProofs`, where the
  elements of a sequence in a set are counted as the cardinality of their indices,
  so that no induction is needed.

`FgLinkProofs` proves for any number of touches, faults, steps and reports
(`FgLinkAssumption` only says that they are numbers):

- `TouchesPayForJobs` (`JobsPaid`). `JobInv` adds that from the touch of the idle
  reader until the job starts (`Owed`: ticket, boot, the two commands before the job)
  there are fewer jobs than touches.
- `LinkTypesHold` (`TypeOK`) and `ImplementsJobs` (`KeepsJobs`). `PhaseInv` says which
  commands can be under way in which job, that a job is `started` when the two
  opening commands are done, and that the reports the reader may still make are at
  most those an enrolment has left. One lemma for each action shows that it keeps
  these and that its step is one of `Fingerprint`, or none.
- `OpensOnMatch` (`SignsInOnMatch`). `CalmInv` says that in a job in which nothing has
  gone wrong the reply awaited is the only one on its way, and that a match among
  the replies is one of this job: what earlier jobs left on the line is gone when
  the reader has been switched on and off again.

`InputProofs` proves for any pad, any buttons and any times in the order that
`InputAssumption` gives:

- `CalmButtonsHold` and `CalmPressesSent`. `BtnInv` is `CalmButtons` with the types of
  what it relates; `CalmEdge` says what one edge does under it.
- `InputTyped` (`TypeOK`), `HeldKeysTyped` (`HeldIsTyped`) and `KeysArePaced`
  (`KeysPaced`). The scan is a loop, so what it leaves is proved by induction over
  the keys (`Scans`): which keys it has accepted so far, and how that depends on the
  key it started with. `PadInv` adds to the types that a held key holds a ticket for
  the next scan (`Awake`), what an untouched pad looks like (`Idle`), and how long a key
  that is down can have waited since it was last accepted (`Anew`, `Again`, `Waiting`).

`FlashProofs` proves for every table of up to eight statuses that a status is read
back as it was written (`StatusReadBack`), that one written over a later one is
lost (`LaterStatusStays`), and that a write that is cut short reads as a status from
the old to the new one (`TornStatusBetween`). The argument is that a table is the
bits below its status (`TableIsPrefix`) and that the highest bit of a set between
two such prefixes lies between them (`ReadsBetween`). It proves for every `Word` beyond
two partitions' length that an access of a database up to a partition's length
lies in its own part of the chip, or is refused (`StaysInPartition`), and that
erasing a sector erases that sector and nothing else (`ErasesOneSector`).

`KvProofs`, on what `FlashProofs` says of the operations, proves the invariants of the
key-value store for any number and size of sectors, any keys, values and defaults, any
size of the sector table, any number of power cuts and of rounds of recovery that
satisfy `KvSizes` and `KvAppAssumption`: `StoreTyped` (`TypeOK`), `CachesTell`
(`CachesAgree`), `CollectorHasSector` (`CollectorHasRoom`) and `NothingLeftAsked`
(`CollectsWhenAsked`). The inductive invariant is `StoreInv`:

- While the power is off, the flash is `Fine`: each sector is erased, formatted or in
  use, no node is written past the end of its sector, and one sector is spare,
  that is erased, formatted or being collected.
- While it is on, the store is `Steady`: an empty sector, no collection asked for, and
  `Sound`, which says that the table tells the truth about each sector or that it does
  not know, and that every flash in `trace`, where the power may go, is `Fine`.

None of the four is inductive alone. A collection needs an empty sector to move the
nodes of another to, and gives one back only because all of a sector's live nodes fit
in a new one; `alloc_kv` finds room only if the table is right about where a sector's
nodes end; and what recovery finds after a cut is known only because every single write
of every operation left the flash fine. In the middle of an operation less is true, and
has a name: `SoundBut` allows the table to be wrong about the one sector that is being
written (`Half`), and `Sound(d, c)` to call the sector being collected dirty; `Room` is a
place that was found for a node.

Iterators are folds, and their callbacks are whole operations (`check_and_recovery_kv_cb`
moves nodes and may collect). `ListProofs` says, for any step, that a fold is the end of a
run of steps (`Folded`) and that what each step keeps holds of the result (`Kept`, and
`AlwaysTimes` and its kin for folds of the shapes the iterators have). Each walk then
instantiates it with its own step (`HdrCheck`, `Regain`, `Rescue`, `Salvage`, `Retrying`
and others), and what is left to prove is one turn of the loop.

The proofs also say two things about the code that no run asks. `UseSound`: when room
came from `alloc_kv`, `update_sec_status` never closes the sector it is about to write to,
so that the request for a collection in `create_kv_blob` (`fdb_kvdb.c:1258-1261`) and
`CollectIfAsked` in `set_kv` (1322-1325) never come to anything. `OldestIsZero`: the
search for the oldest sector through the zeroed table (1773-1785) gives sector 0
whatever is on flash, which is half of what `kv_lost` shows.

*Assumptions.* `InvokeAssumption`: at least one slot, one place in the queue and one
tick of patience for the mutex, and delays below the tick range. `UiAssumption` and
`DoorSystemAssumption`: the key that ends an input is not a character, the default
password is not empty. `ServiceAssumption`, `FgLinkAssumption`: bounds are numbers.
`InputAssumption`: no key is twice on the pad, buttons are not keys, and
0 < 20 < 50 < 150 < 600 ms, as in `keypad.c`. `KvSizes`: at least two sectors, each with room
for its header, a node and the threshold, and a node longer than its header.
`KvAppAssumption`: the program's two keys and its texts are among the keys and values,
the default pairs are a sequence of them, bounds are numbers. TLC evaluates each of them in a run.

Induction. The provers cannot use a theorem that takes an operator. What a loop
leaves is therefore proved from the order of the numbers being well-founded, spelled out
for the set that is needed (`CountUp`): once for the recursive function `Scanned`, in
`ScanRounds` and `UpTo`, and once for `FoldLeft`, in `ListProofs`, whose step is a
CONSTANT that each use instantiates.

Only model-checked:

- `FindsStored` and `KeepsStore` of the key-value store: what a reader finds
  when any of a dozen writes was the last one. `StoreInv` says where nodes lie and not which of
  them is found first, in the order of the ring, among old and new ones of one name;
- that an opening ends: `LoadRounds` is any number in the theorems, which speak of the
  openings that end within it;
- all liveness (`EventuallyRelocks`, `UndisturbedRuns`, `TasksReturn`, `ComesToRest`,
  `TicketSpent`): the provers have no rules for fairness and ENABLED.

## 6. Not modelled

- *Time series database* (`fdb_tsdb.c`): opened at boot, never written or read. Only
  where its bytes lie is in `Storage`.
- *File mode* (`fdb_file.c`) and the shell of `fal_rtt.c`: not compiled for this chip.
- Operations of the key-value store that the program never calls: deletion by
  name, printing, `fdb_kvdb_control`, the integrity check, and the upgrade of the
  default set, which is not compiled. Also a flash that fails an access: each
  write succeeds or the power is gone.
- *OLED driver, fonts, layout* of views and widgets: output only, no state that
  anything reads back. Titles and wording are left out of `Ui`.
- Passwords of 16 characters or more, which `app.c:280` copies without a
  terminator; fingerprint ids; memory leaks (`main.c:46`, `app.c:66`, `app.c:230`).
- What two tasks do to the stack's array inside each other's push and pop
  (`activity.c:17-46`): each of the two is one step. So is a print: what two prints
  inside each other leave in the frame buffer is not modelled, only which ended last.
- Second looks: a handler of the UI task reads the top of the stack once in the model,
  where the branches of `app.c:226-311` read it again at each comparison, and
  system_service may have closed a page in between.
- `Fingerprint` reads `g_fg_next_state` (`fg_reader.c:449`) and announces the job (454) in
  one step; in `FgLink` the boot of the reader lies between the two.
- The order in which `app_main` starts drivers and tasks: interrupts can publish
  before `app_init` has created the queues (`main.c:128`).

What would come next: push and pop of two tasks word by word, and the UI task's second
looks at the top; the boot order against interrupts; a proof of `KeepsStore`, for which `StoreInv` has to
say which live nodes there are of each name, and where on the ring.
