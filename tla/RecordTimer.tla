----------------------------- MODULE RecordTimer -----------------------------
(***************************************************************************)
(* The recording timers of enigma2: timer.py (Timer, TimerEntry),          *)
(* RecordTimer.py (RecordTimer, RecordTimerEntry) and the registry of      *)
(* recording services they drive through Navigation.py and                 *)
(* lib/nav/core.cpp.                                                       *)
(*                                                                         *)
(* Everything runs on enigma2's main loop: an event (the eTimer, a key, a  *)
(* record event) calls a handler, which runs to completion.  Handlers are  *)
(* re-entrant, though: doActivate -> addTimerEntry -> calcNextActivation   *)
(* -> processActivation -> doActivate ...  `stack' is that Python call     *)
(* stack, one frame per function that still has something to do, the       *)
(* innermost first; an empty stack is the idle main loop.  The clock       *)
(* stands still while a handler runs (times are whole units, handlers take *)
(* less).                                                                  *)
(***************************************************************************)
EXTENDS TimerLists

CONSTANTS
  Timers,        \* identities of RecordTimerEntry objects
  Services,      \* identities of iRecordableService objects
  None,
  Instant,       \* the timers that are instant recordings (dontSave)
  PrepareTime,   \* TimerEntry.prepare_time (20 s)
  FirstBackoff, MaxBackoff,  \* do_backoff: 5 s, doubled up to 100 s
  MaxWaitTime,   \* Timer.MaxWaitTime (100 s)
  Day,           \* the distance between two occurrences of a repeated timer
  WrongAhead,    \* checkWrongRunningTimers: 100 s
  KeepTime,      \* config.recording.keep_timers
  AutoTime,      \* autoincreasetime
  Ahead,         \* bound: how far ahead of the clock users place timers
  Lengths,       \* the durations users give them
  MaxTime,       \* bound on the clock
  MaxLate,       \* bound: how late the main loop may serve a due eTimer
  Env            \* what users, tuners and disks do in this instance

ASSUME TimeAssumption ==
  /\ {PrepareTime, MaxWaitTime, WrongAhead, KeepTime, Ahead, MaxTime, MaxLate} \subseteq Nat
  /\ {FirstBackoff, MaxBackoff, Day, AutoTime} \subseteq Nat \ {0}
  /\ FirstBackoff <= MaxBackoff
  /\ Lengths \subseteq Nat
ASSUME NoneAssumption == None \notin Timers /\ None \notin Services
ASSUME InstantAssumption == Instant \subseteq Timers

Waiting == 0
Prepared == 1
Running == 2
Ended == 3

VARIABLES
  now,          \* time()
  tm,           \* the fields of every RecordTimerEntry
  timer_list,
  processed,    \* processed_timers, as a bag: only its contents matter here
  svc,          \* eNavigation.m_recordings and the state of each service
  last,         \* lastActivation
  delay,        \* how long the eTimer still runs (negative: it is overdue)
  stack,
  raised        \* a ValueError / AttributeError left a handler

vars == <<now, tm, timer_list, processed, svc, last, delay, stack, raised>>

-----------------------------------------------------------------------------
(* TimerEntry *)

TimerEntry == [begin : Int, end : Int, state : Waiting .. Ended, disabled : BOOLEAN,
               repeated : BOOLEAN, justplay : BOOLEAN, auto : BOOLEAN, prep : Int,
               backoff : Nat, cancelled : BOOLEAN, rs : Services \cup {None}]

\* An identity no live entry uses.
Fresh == [begin |-> 0, end |-> 0, state |-> Waiting, disabled |-> FALSE,
          repeated |-> FALSE, justplay |-> FALSE, auto |-> FALSE, prep |-> 0,
          backoff |-> 0, cancelled |-> FALSE, rs |-> None]

NextActivation(r) ==
  IF r.state = Waiting THEN r.prep ELSE IF r.state = Prepared THEN r.begin ELSE r.end

Keys(m) == [x \in Timers |-> NextActivation(m[x])]

\* RecordTimerEntry.timeChanged
TimeMoved(r) == [r EXCEPT !.prep = r.begin - PrepareTime, !.backoff = 0]

ResetState(r) == TimeMoved([r EXCEPT !.state = Waiting, !.cancelled = FALSE])

\* How many days processRepeated moves a time that must reach `limit'.
DaysUpTo(time, limit) == IF time >= limit THEN 0 ELSE (limit - time + Day - 1) \div Day

ProcessRepeated(r, limit, findRunningEvent) ==
  LET move == Day * DaysUpTo(IF findRunningEvent THEN r.end ELSE r.begin, limit)
      to == r.end + move
  IN IF ~r.repeated THEN r
     ELSE TimeMoved([r EXCEPT !.begin = r.begin + move,
                              !.end = IF r.begin = r.end THEN to + 1 ELSE to])

NextOccurrence(r) == ProcessRepeated(r, now + 1, TRUE)

\* shouldSkip and its side effect
ShouldSkip(r) == \/ r.disabled /\ ~r.repeated
                 \/ r.end <= now /\ r.state = Waiting

Skipped(r) == IF r.disabled /\ ~r.repeated /\ r.end <= now
              THEN [r EXCEPT !.disabled = FALSE] ELSE r

Abort(r) == [r EXCEPT !.end = now, !.begin = IF r.begin > now THEN now ELSE r.begin,
                      !.cancelled = TRUE]

DoBackoff(r) ==
  [r EXCEPT !.backoff = IF r.backoff = 0 THEN FirstBackoff
                        ELSE IF 2 * r.backoff > MaxBackoff THEN MaxBackoff
                        ELSE 2 * r.backoff]

\* Mutant of RetryPrepare: start_prepare stays.
RetryAtOnce(r) == DoBackoff(r)

RetryPrepare(r) == LET b == DoBackoff(r) IN [b EXCEPT !.prep = now + b.backoff]
RetryStart(r) == LET b == DoBackoff(r) IN [b EXCEPT !.begin = now + b.backoff]

-----------------------------------------------------------------------------
(* The call stack *)

Pcs == {"calc", "reset", "process", "finish", "remove", "again", "disable", "next"}

Frame == [pc : Pcs, x : Timers \cup {None}, rest : [Timers -> Nat], i : Nat]

Nobody == [t \in Timers |-> 0]

Call(pc, x, rest) == [pc |-> pc, x |-> x, rest |-> rest, i |-> 0]

Top == Head(stack)
In(pc) == stack # <<>> /\ Top.pc = pc

Idle == stack = <<>> /\ ~raised

\* An uncaught exception ends the handler and, with it, enigma2.
Raise == /\ raised' = TRUE
         /\ UNCHANGED <<tm, timer_list, processed, stack>>

InList(x) == x \in Range(timer_list)
\* Mutant of IsProcessed: remove without looking.
AssumedProcessed(x) == TRUE

IsProcessed(x) == processed[x] > 0
Holds(f, x) == \/ f.pc = "finish" /\ f.x = x
               \/ f.pc = "reset" /\ f.rest[x] > 0
Held(x) == \E i \in DOMAIN stack : Holds(stack[i], x)
Live(x) == InList(x) \/ IsProcessed(x) \/ Held(x)

-----------------------------------------------------------------------------
(* Timer.addTimerEntry and Timer.timeChanged.  `m' is tm with the changes   *)
(* the caller already made, `st' the frames that go on afterwards.          *)

AddTimerEntry(m, x, tl, pr, st, noRecalc) ==
  LET r == NextOccurrence(m[x])
      retires == \/ ShouldSkip(r)
                 \/ r.state = Ended
                 \/ r.state = Waiting /\ r.disabled
  IN /\ UNCHANGED raised
     /\ \/ /\ retires
           /\ tm' = [m EXCEPT ![x] = [Skipped(r) EXCEPT !.state = Ended]]
           /\ processed' = [pr EXCEPT ![x] = @ + 1]
           /\ timer_list' = tl
           /\ stack' = st
        \/ /\ ~retires
           /\ tm' = [m EXCEPT ![x] = r]
           /\ timer_list' \in Insorted(Keys([m EXCEPT ![x] = r]), tl, x)
           /\ processed' = pr
           /\ stack' = IF noRecalc THEN st ELSE <<Call("calc", None, Nobody)>> \o st

TimeChanged(m, x, st) ==
  LET r == TimeMoved(m[x]) IN
  IF r.state = Ended
  THEN IF IsProcessed(x)
       THEN AddTimerEntry([m EXCEPT ![x] = [r EXCEPT !.state = Waiting]], x, timer_list,
                          [processed EXCEPT ![x] = @ - 1], st, FALSE)
       ELSE Raise
  ELSE IF InList(x)
       THEN AddTimerEntry([m EXCEPT ![x] = r], x, Without(timer_list, x), processed, st, FALSE)
       ELSE /\ tm' = [m EXCEPT ![x] = r]
            /\ stack' = st
            /\ UNCHANGED <<timer_list, processed, raised>>

-----------------------------------------------------------------------------
(* RecordTimer.doActivate.  `r' is what activate() leaves of entry x.       *)

WrongRunning(tl, m) ==
  [t \in Timers |-> IF /\ t \in Range(tl) \/ IsProcessed(t)
                       /\ m[t].state \in {Prepared, Running}
                       /\ m[t].begin > now + WrongAhead
                    THEN 1 ELSE 0]

\* Mutant of Reached: doActivate compares with StateRunning.
HasBegun(r) == r.state >= Running

\* Did the entry reach the last state?
Reached(r) == r.state = Ended

Settle(r, x, st) ==
  LET tl == Without(timer_list, x)
      m == [tm EXCEPT ![x] = r]
  IN IF ~InList(x) THEN Raise
     ELSE \/ /\ ~Reached(r)
             /\ tm' = m
             /\ timer_list' \in Insorted(Keys(m), tl, x)
             /\ stack' = st
             /\ UNCHANGED <<processed, raised>>
          \/ /\ Reached(r) /\ r.repeated
             /\ AddTimerEntry([tm EXCEPT ![x] = [NextOccurrence(r) EXCEPT !.state = Waiting]],
                              x, tl, processed, st, FALSE)
          \/ /\ Reached(r) /\ ~r.repeated
             /\ tm' = m
             /\ timer_list' = tl
             /\ stack' = <<Call("finish", x, WrongRunning(tl, m))>> \o st
             /\ UNCHANGED <<processed, raised>>

\* activate() to StatePrepared: tryPrepare.
Prepare(r, x, st) ==
  LET ready == [r EXCEPT !.state = Prepared, !.backoff = 0] IN
  \/ /\ r.justplay
     /\ Settle(ready, x, st)
     /\ UNCHANGED svc
  \/ /\ ~r.justplay
     /\ UNCHANGED svc
     /\ \/ "filename" \in Env /\ Settle(RetryPrepare(r), x, st)
        \/ "lookup" \in Env /\ Settle(r, x, st)
        \/ "record" \in Env /\ Settle([r EXCEPT !.rs = None], x, st)
        \/ "prepare" \in Env /\ Settle(RetryPrepare([r EXCEPT !.rs = None]), x, st)
  \/ /\ ~r.justplay
     /\ \E s \in Services :
          /\ svc[s] = "none"
          /\ \/ /\ "rename" \in Env /\ r.repeated
                /\ svc' = [svc EXCEPT ![s] = "idle"]
                /\ Settle(RetryPrepare([r EXCEPT !.rs = s]), x, st)
             \/ /\ svc' = [svc EXCEPT ![s] = "prepared"]
                /\ Settle([ready EXCEPT !.rs = s], x, st)

\* activate() to StateRunning: zap, or start the recording.
Start(r, x, st) ==
  LET going == [r EXCEPT !.state = Running] IN
  \/ /\ r.cancelled \/ r.justplay
     /\ Settle(going, x, st)
     /\ UNCHANGED svc
  \/ /\ ~r.cancelled /\ ~r.justplay
     /\ IF r.rs = None
        THEN Raise /\ UNCHANGED svc
        ELSE \/ /\ svc' = [svc EXCEPT ![r.rs] = "running"]
                /\ Settle(going, x, st)
             \/ /\ "start" \in Env
                /\ Settle(RetryStart(r), x, st)
                /\ UNCHANGED svc

\* Mutants of Stop: the service is not stopped, the entry keeps its reference, or
\* activate() returns False.
StopKeepsService(r, x, st) ==
  Settle([r EXCEPT !.state = Ended, !.rs = None], x, st) /\ UNCHANGED svc
StopKeepsReference(r, x, st) ==
  IF r.rs = None THEN Raise /\ UNCHANGED svc
  ELSE /\ svc' = [svc EXCEPT ![r.rs] = "none"]
       /\ Settle([r EXCEPT !.state = Ended], x, st)
StopKeepsState(r, x, st) ==
  IF r.rs = None THEN Raise /\ UNCHANGED svc
  ELSE svc' = [svc EXCEPT ![r.rs] = "none"] /\ Settle([r EXCEPT !.rs = None], x, st)

\* activate() to StateEnded: go on (setAutoincreaseEnd) or stop the recording.
Stop(r, x, st) ==
  \/ /\ r.auto
     /\ \E end \in {now + 1, now + AutoTime} : Settle([r EXCEPT !.end = end], x, st)
     /\ UNCHANGED svc
  \/ IF r.justplay
     THEN Settle([r EXCEPT !.state = Ended], x, st) /\ UNCHANGED svc
     ELSE IF r.rs = None
     THEN Raise /\ UNCHANGED svc
     ELSE /\ svc' = [svc EXCEPT ![r.rs] = "none"]
          /\ Settle([r EXCEPT !.state = Ended, !.rs = None], x, st)

DoActivate(r, x, st) ==
  \/ /\ ShouldSkip(r)
     /\ Settle([Skipped(r) EXCEPT !.state = Ended], x, st)
     /\ UNCHANGED svc
  \/ ~ShouldSkip(r) /\ r.state = Waiting /\ Prepare(r, x, st)
  \/ ~ShouldSkip(r) /\ r.state = Prepared /\ Start(r, x, st)
  \/ ~ShouldSkip(r) /\ r.state = Running /\ Stop(r, x, st)

-----------------------------------------------------------------------------
(* The frames *)

Clockless == UNCHANGED <<now, last, delay>>
Return == Tail(stack)

\* calcNextActivation, up to processActivation.
EnterCalc ==
  /\ In("calc")
  /\ \/ /\ last > now
        /\ processed' = Nobody
        /\ stack' = <<Call("reset", None, processed)>> \o
                      (<<Call("process", None, Nobody)>> \o Return)
     \/ /\ last <= now
        /\ stack' = <<Call("process", None, Nobody)>> \o Return
        /\ UNCHANGED processed
  /\ UNCHANGED <<tm, timer_list, svc, raised>> /\ Clockless

\* The timewarp loop: re-evaluate every processed timer.
ResetProcessed ==
  /\ In("reset")
  /\ \/ \E x \in Timers :
          /\ Top.rest[x] > 0
          /\ AddTimerEntry([tm EXCEPT ![x] = ResetState(@)], x, timer_list, processed,
                           <<[Top EXCEPT !.rest[x] = @ - 1]>> \o Return, TRUE)
     \/ /\ Top.rest = Nobody
        /\ stack' = Return
        /\ UNCHANGED <<tm, timer_list, processed, raised>>
  /\ UNCHANGED svc /\ Clockless

\* x is timer_list[0] of the entries that are not disabled.
IsFirst(x) ==
  \E i \in DOMAIN timer_list :
    /\ timer_list[i] = x
    /\ ~tm[x].disabled
    /\ \A j \in DOMAIN timer_list : j < i => tm[timer_list[j]].disabled

\* Mutant of IsDue: the first entry is activated whenever it is due.
DueOrNot(x) == IsFirst(x)

IsDue(x) == IsFirst(x) /\ NextActivation(tm[x]) <= now

\* processActivation: one turn of the loop.
ActivateHead ==
  /\ In("process")
  /\ \E x \in Timers : IsDue(x) /\ DoActivate(tm[x], x, stack)
  /\ Clockless

\* Mutant of WakeTimes: the eTimer only polls.
PollTimes == {now + MaxWaitTime}

\* Where calcNextActivation takes the minimum of.
WakeTimes == {now + MaxWaitTime} \cup
  {NextActivation(tm[x]) : x \in {y \in Timers : InList(y) /\ ~tm[y].disabled}}

\* The end of calcNextActivation: sort, and set the eTimer.
ScheduleNext ==
  /\ In("process")
  /\ \A x \in Timers : ~IsDue(x)
  /\ timer_list' \in SortsOf(Keys(tm), timer_list)
  /\ \E when \in WakeTimes :
       /\ \A w \in WakeTimes : when <= w
       /\ delay' = IF when > now THEN when - now ELSE 0
  /\ last' = now
  /\ stack' = Return
  /\ UNCHANGED <<now, tm, processed, svc, raised>>

\* What cleanupDisabled and cleanupDaily leave in processed_timers.
Kept(y) == \/ tm[y].disabled /\ tm[y].repeated
           \/ tm[y].end > now - KeepTime

\* doActivate of an entry that is done: checkWrongRunningTimers, the two cleanups,
\* insort(processed_timers).
Finish ==
  /\ In("finish")
  /\ \/ \E y \in Timers :
          /\ Top.rest[y] > 0
          /\ TimeChanged([tm EXCEPT ![y].state = Waiting], y,
                         <<[Top EXCEPT !.rest[y] = 0]>> \o Return)
     \/ /\ Top.rest = Nobody
        /\ processed' = [y \in Timers |->
                           IF y = Top.x THEN (IF Kept(y) THEN processed[y] ELSE 0) + 1
                           ELSE IF Kept(y) THEN processed[y] ELSE 0]
        /\ tm' = [y \in Timers |->
                    IF IsProcessed(y) /\ y # Top.x
                    THEN IF Kept(y) THEN Skipped(tm[y]) ELSE Fresh
                    ELSE tm[y]]
        /\ stack' = Return
        /\ UNCHANGED <<timer_list, raised>>
  /\ UNCHANGED svc /\ Clockless

\* removeEntry after timeChanged: extend the instant recordings (the loop walks the
\* live list by index), then forget the entry.
RemoveEntry ==
  /\ In("remove")
  /\ LET left == IF Top.x \in Instant THEN {}
                 ELSE {j \in DOMAIN timer_list : j > Top.i /\ tm[timer_list[j]].auto}
     IN \/ \E j \in left :
             /\ \A k \in left : j <= k
             /\ LET y == timer_list[j]
                    goOn == <<[Top EXCEPT !.i = j]>> \o Return
                IN \/ \E end \in {now + 1, now + AutoTime} :
                        TimeChanged([tm EXCEPT ![y].end = end], y, goOn)
                   \/ stack' = goOn /\ UNCHANGED <<tm, timer_list, processed, raised>>
        \/ /\ left = {}
           /\ IF IsProcessed(Top.x)
              THEN /\ processed' = [processed EXCEPT ![Top.x] = @ - 1]
                   /\ tm' = [tm EXCEPT ![Top.x] = Fresh]
                   /\ stack' = Return
                   /\ UNCHANGED <<timer_list, raised>>
              ELSE Raise
  /\ UNCHANGED svc /\ Clockless

\* runningEventCallback after doActivate: "stoponlycurrent", "stopall".
StoppedCurrent ==
  /\ In("again") \/ In("disable")
  /\ TimeChanged([tm EXCEPT ![Top.x].disabled = @ \/ In("disable")], Top.x, Return)
  /\ UNCHANGED svc /\ Clockless

\* runningEventCallback("nextonlystop") after its first timeChanged.
SkippedNext ==
  /\ In("next")
  /\ LET r == ProcessRepeated(tm[Top.x], tm[Top.x].end + 1, TRUE)
     IN TimeChanged([tm EXCEPT ![Top.x] = [r EXCEPT !.disabled = FALSE]], Top.x, Return)
  /\ UNCHANGED svc /\ Clockless

Step == /\ ~raised
        /\ \/ EnterCalc \/ ResetProcessed \/ ActivateHead \/ ScheduleNext
           \/ Finish \/ RemoveEntry \/ StoppedCurrent \/ SkippedNext

-----------------------------------------------------------------------------
(* What the main loop dispatches *)

\* The eTimer: calcNextActivation.
TimerFires ==
  /\ Idle /\ delay <= 0
  /\ stack' = <<Call("calc", None, Nobody)>>
  /\ UNCHANGED <<tm, timer_list, processed, svc, raised>> /\ Clockless

\* RecordTimer.record of a new entry that passed the sanity check.
Record(x) ==
  /\ Idle /\ ~Live(x)
  /\ \E begin \in now - 1 .. now + Ahead, length \in Lengths,
        repeated, justplay, auto \in BOOLEAN :
       /\ begin + length <= MaxTime
       /\ repeated => "repeated" \in Env
       /\ justplay => "justplay" \in Env
       /\ auto => x \in Instant /\ ~repeated /\ ~justplay
       /\ AddTimerEntry([tm EXCEPT ![x] = TimeMoved([Fresh EXCEPT !.begin = begin,
                            !.end = begin + length, !.repeated = repeated,
                            !.justplay = justplay, !.auto = auto])],
                        x, timer_list, processed, <<>>, FALSE)
  /\ UNCHANGED svc /\ Clockless

\* removeEntry, up to the end of its timeChanged.
BeginRemoval(x) ==
  LET gone == Abort([tm[x] EXCEPT !.repeated = FALSE, !.auto = FALSE])
      m == [tm EXCEPT ![x] = gone]
      removing == <<Call("remove", x, Nobody)>>
  IN \/ tm[x].state # Ended /\ TimeChanged(m, x, removing)
     \/ /\ tm[x].state = Ended
        /\ tm' = m
        /\ stack' = removing
        /\ UNCHANGED <<timer_list, processed, raised>>

\* A user deletes a timer.
UserRemoves(x) ==
  /\ Idle /\ Live(x)
  /\ BeginRemoval(x)
  /\ UNCHANGED svc /\ Clockless

\* The recording's source went away (evRecordAborted).
RecordingAborted(x) ==
  /\ Idle /\ "aborted" \in Env
  /\ Live(x) /\ tm[x].rs # None
  /\ BeginRemoval(x)
  /\ UNCHANGED svc /\ Clockless

\* evGstRecordEnded, or a user stops a repeated recording (stopCurrentRecording).
RecordingEnds(x) ==
  /\ Idle /\ "stopped" \in Env
  /\ InList(x) /\ tm[x].state = Running /\ tm[x].rs # None
  /\ tm[x].auto => "autostopped" \in Env
  /\ \E disabled \in {tm[x].disabled} \cup (IF tm[x].repeated THEN {FALSE} ELSE {}) :
       DoActivate(ProcessRepeated([tm[x] EXCEPT !.disabled = disabled], now + 1, FALSE), x, <<>>)
  /\ Clockless

\* toggleDisabledState, disableTimer
UserDisables(x) ==
  /\ Idle /\ Live(x)
  /\ ~tm[x].disabled /\ tm[x].state # Running
  /\ tm[x].state = Prepared => "holdprepared" \in Env
  /\ TimeChanged([tm EXCEPT ![x].disabled = TRUE], x, <<>>)
  /\ UNCHANGED svc /\ Clockless

\* toggleDisabledState: on a conflict the timer is disabled again.
UserEnables(x) ==
  /\ Idle /\ Live(x)
  /\ tm[x].disabled /\ ~(tm[x].repeated /\ tm[x].state = Running /\ ~tm[x].justplay)
  /\ \E conflict \in BOOLEAN :
       TimeChanged([tm EXCEPT ![x].disabled = conflict], x, <<>>)
  /\ UNCHANGED svc /\ Clockless

\* runningEventCallback
UserStopsEvent(x) ==
  /\ Idle
  /\ InList(x) /\ tm[x].state = Running /\ tm[x].repeated
  /\ \/ /\ "stopped" \in Env
        /\ LET r == ProcessRepeated([tm[x] EXCEPT !.disabled = FALSE], now + 1, FALSE)
           IN \E pc \in {"again", "disable"} :
                /\ pc = "disable" /\ r.prep <= now => "holdprepared" \in Env
                /\ DoActivate(r, x, <<Call(pc, x, Nobody)>>)
     \/ /\ "stopcoming" \in Env /\ ~tm[x].disabled
        /\ TimeChanged([tm EXCEPT ![x].disabled = TRUE], x, <<>>)
        /\ UNCHANGED svc
  /\ Clockless

\* runningEventCallback("nextonlystop") of EpgSelection
UserSkipsNext(x) ==
  /\ Idle /\ Live(x)
  /\ tm[x].repeated /\ tm[x].state # Running
  /\ tm[x].end + Day <= MaxTime + Ahead
  /\ tm[x].state = Prepared => "holdprepared" \in Env
  /\ TimeChanged([tm EXCEPT ![x].disabled = TRUE], x, <<Call("next", x, Nobody)>>)
  /\ UNCHANGED svc /\ Clockless

\* What the dialog of TimerEntry.keyGo writes into the entry.
Edited(r, begin, end, repeated, justplay) ==
  [r EXCEPT !.begin = begin, !.end = end, !.repeated = repeated, !.justplay = justplay]

\* May the dialog's changes of x stay without timeChanged?
InPlace(x) == /\ "editinplace" \in Env
              /\ InList(x) /\ tm[x].state # Waiting => "inplaceactive" \in Env

\* finishedEdit after a conflict: an instant recording is shortened to end before `begin',
\* where x starts (setAutoincreaseEnd); if that is enough, timeChanged of x follows.
MakesRoom(m, x, begin) ==
  \E y \in Timers \ {x}, end \in now + 1 .. begin, enough \in BOOLEAN :
    /\ InList(y) /\ tm[y].auto
    /\ ~enough => InPlace(x)
    /\ TimeChanged([m EXCEPT ![y].end = end], y,
                   IF enough THEN <<Call("again", x, Nobody)>> ELSE <<>>)

\* TimerEntry.keyGo, then finishedEdit: timeChanged, unless the sanity check found a
\* conflict or the dialog was opened without a callback (modifyTimer).
UserEdits(x) ==
  /\ Idle /\ Live(x) /\ "edit" \in Env
  /\ tm[x].state \in {Prepared, Running} => "editactive" \in Env
  /\ \E begin \in {now, now + Ahead}, length \in Lengths, repeated, justplay \in BOOLEAN :
       LET m == [tm EXCEPT ![x] = Edited(@, begin, begin + length, repeated, justplay)]
       IN /\ begin + length <= MaxTime
          /\ repeated # tm[x].repeated => {"repeated", "editrepeated"} \subseteq Env
          /\ justplay => "justplay" \in Env
          /\ justplay # tm[x].justplay =>
               \/ "switchactive" \in Env
               \/ tm[x].rs = None /\ tm[x].state \notin {Prepared, Running}
          /\ \/ TimeChanged(m, x, <<>>)
             \/ InPlace(x) /\ tm' = m /\ UNCHANGED <<timer_list, processed, stack, raised>>
             \/ "conflict" \in Env /\ MakesRoom(m, x, begin)
  /\ UNCHANGED svc /\ Clockless

\* TimeDateInputClosed, inputCallback: a new end for a recording.
UserMovesEnd(x) ==
  /\ Idle /\ InList(x) /\ tm[x].state = Running /\ "moveend" \in Env
  /\ \E end \in {now, now + Ahead} :
       /\ end <= MaxTime
       /\ tm[x].repeated /\ end <= now => "movepast" \in Env
       /\ TimeChanged([tm EXCEPT ![x].end = end, ![x].auto = FALSE], x, <<>>)
  /\ UNCHANGED svc /\ Clockless

\* Timer.cleanup
UserCleansUp ==
  /\ Idle
  /\ \E x \in Timers : IsProcessed(x) /\ ~tm[x].disabled
  /\ processed' = [x \in Timers |-> IF tm[x].disabled THEN processed[x] ELSE 0]
  /\ tm' = [x \in Timers |-> IF IsProcessed(x) /\ ~tm[x].disabled THEN Fresh ELSE tm[x]]
  /\ UNCHANGED <<timer_list, svc, stack, raised>> /\ Clockless

\* Time passes.  The eTimer may be served late, the clock may be set.
Tick ==
  /\ Idle /\ now < MaxTime /\ delay > -MaxLate
  /\ now' = now + 1
  /\ delay' = delay - 1
  /\ UNCHANGED <<tm, timer_list, processed, svc, last, stack, raised>>

ClockSet ==
  /\ Idle /\ "clockset" \in Env
  /\ now' \in 1 .. MaxTime
  /\ now' # now
  /\ UNCHANGED <<tm, timer_list, processed, svc, last, delay, stack, raised>>

User(x) == \/ Record(x) \/ UserRemoves(x) \/ RecordingAborted(x) \/ RecordingEnds(x)
           \/ UserDisables(x) \/ UserEnables(x) \/ UserStopsEvent(x) \/ UserSkipsNext(x)
           \/ UserEdits(x) \/ UserMovesEnd(x)

\* Timer.__init__: empty lists, calcNextActivation has set the eTimer.
Init ==
  /\ now = 1 /\ last = 1 /\ delay = MaxWaitTime
  /\ tm = [x \in Timers |-> Fresh]
  /\ timer_list = <<>>
  /\ processed = Nobody
  /\ svc = [s \in Services |-> "none"]
  /\ stack = <<>>
  /\ raised = FALSE

Next == Step \/ TimerFires \/ UserCleansUp \/ Tick \/ ClockSet \/ \E x \in Timers : User(x)

Spec == Init /\ [][Next]_vars

\* The main loop runs, a handler returns to it and a due eTimer is served between
\* any two other events (eMainloop::processOneEvent).
FairSpec == Spec /\ WF_vars(Step) /\ SF_vars(TimerFires) /\ WF_vars(Tick)

-----------------------------------------------------------------------------
(* Properties *)

\* Every variable keeps its type.
TypeOK ==
  /\ now \in Nat /\ last \in Nat /\ delay \in Int
  /\ tm \in [Timers -> TimerEntry]
  /\ timer_list \in Seq(Timers)
  /\ processed \in [Timers -> Nat]
  /\ svc \in [Services -> {"none", "idle", "prepared", "running"}]
  /\ stack \in Seq(Frame)
  /\ raised \in BOOLEAN

\* OneHome: however handlers nest, an entry is in timer_list, in processed_timers or on
\* its way between them (taken out by doActivate or the timewarp loop), and there once.
OneHome ==
  /\ \A i, j \in DOMAIN timer_list : timer_list[i] = timer_list[j] => i = j
  /\ \A x \in Timers :
       /\ processed[x] <= 1
       /\ InList(x) => ~IsProcessed(x) /\ ~Held(x)
       /\ IsProcessed(x) => ~Held(x)
       /\ \A i, j \in DOMAIN stack : Holds(stack[i], x) /\ Holds(stack[j], x) => i = j

\* NoSharing: a service an entry refers to is registered with the navigation core and
\* belongs to that entry alone: no entry can stop the recording of another.
NoSharing ==
  \A x \in Timers : tm[x].rs # None =>
    /\ svc[tm[x].rs] # "none"
    /\ \A y \in Timers : tm[y].rs = tm[x].rs => x = y

\* NoOrphan: every recording the navigation core knows is reachable from an entry that
\* will stop it: one in timer_list that is prepared or running.
NoOrphan ==
  \A s \in Services : svc[s] # "none" =>
    \E x \in Timers : InList(x) /\ tm[x].rs = s /\ tm[x].state \in {Prepared, Running}

\* EndedIsProcessed: outside a handler the state says which list an entry is in; the
\* removals in timeChanged and removeEntry rely on it.
EndedIsProcessed ==
  stack = <<>> => \A x \in Timers : Live(x) => (tm[x].state = Ended <=> IsProcessed(x))

\* WakesInTime: when the main loop is idle the eTimer is set for the next activation of
\* every enabled entry, or earlier.
WakesInTime ==
  Idle => \A x \in Timers :
    InList(x) /\ ~tm[x].disabled => delay <= 0 \/ now + delay <= NextActivation(tm[x])

\* NoException: list.remove finds its entry, and a recording to start or stop exists.
NoException == ~raised

\* ListsAreConsistent: what timeChanged and removeEntry rely on (timer.py:246-250,
\* RecordTimer.py:1255-1262) is so whenever a handler begins, and none of them raises.
ListsAreConsistent == EndedIsProcessed /\ NoException

\* PunctualActivation: processActivation starts no recording before its begin and stops
\* none before its end.
PunctualActivation ==
  [][In("process") => \A x \in Timers :
       /\ tm[x].state = Prepared /\ tm'[x].state = Running => tm[x].begin <= now
       /\ tm[x].state = Running /\ tm'[x].state # Running => tm[x].end <= now]_vars

\* RemovedIsStopped (the comment at RecordTimer.py:1246): when removeEntry goes on after
\* its timeChanged, the entry's recording has been stopped.
RemovedIsStopped == In("remove") => tm[Top.x].rs = None

\* HandlersReturn: a handler, however nested, ends.
HandlersReturn == (stack # <<>>) ~> (stack = <<>>)

\* OverdueStops: a recording that runs past its end is stopped, extended or disabled.
OverdueStops ==
  \A x \in Timers :
    (tm[x].state = Running /\ ~tm[x].disabled /\ tm[x].end <= now)
      ~> ~(tm[x].state = Running /\ ~tm[x].disabled /\ tm[x].end <= now)
=============================================================================
