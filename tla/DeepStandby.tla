---------------------------- MODULE DeepStandby ----------------------------
(* Recordings, soft standby and deep standby together: the box that switches itself off
   when a recording is done, is woken by the front processor for the next one, and goes
   back (RecordTimer.py, Screens/Standby.py, Navigation.py, mytest.py). All timers are
   recordings that succeed, once each; what a timer's activation can do wrong is the
   matter of RecordTimer. timers.xml is written by the handler that changes a timer,
   through a rename, so a timer is on disk exactly when it is in the list. Left out: zap
   timers, the wake-ups of plugins and of the sleep timer, background jobs.

   Time is counted in units of which code reads the fraction: what is due in a unit is
   handled after the unit has begun, so that a `< time()` of the code is <= here.        *)
EXTENDS Integers, Sequences, FiniteSets, FiniteSetsExt

CONSTANTS
  MaxTimers,    \* bounds the timers made
  After,        \* the afterEvents in use: "none", "standby", "deep", "auto"
  MaxTime, Length,
  PrepareTime,  \* prepare_time, 20 s
  Lead,         \* 240 s: the box is woken that long before a timer
  Reboot,       \* 30 s: or that soon, when less than Lead + Reboot = 270 s are left
  Window,       \* 360 s: no switching off when a recording is that near
  BootTime, QuitTime,   \* bounds on how long the box takes
  Env           \* "meet": a timer may have to be prepared the moment another one ends
ASSUME TimesAssumption ==
  /\ {MaxTimers, MaxTime, Length, PrepareTime, Lead, Reboot, Window, BootTime, QuitTime} \subseteq Nat
  /\ Length > 0 /\ Reboot > 0 /\ BootTime > 0 /\ PrepareTime > 0
  /\ Lead >= BootTime + PrepareTime /\ Window >= Lead + Reboot + QuitTime
ASSUME AfterAssumption == After \subseteq {"none", "standby", "deep", "auto"}

VARIABLES
  now,
  up,           \* "on", "quitting", "off", "boot", or "cut" from the mains
  ready,        \* when the quitting or the booting is over
  timers,       \* [begin, after] of each, or NoTimer: timers.xml
  st,           \* the states of the timers: waiting, prepared, running, ended
  screen,       \* "tv", "standby", or a dialog: "quit", "askdown", "asksleep"
  notes,        \* Notifications.notifications
  counted,      \* config.misc.standbyCounter # 0
  wasInDeepStandby, receiveRecordEvents,
  fp,           \* the front processor's wake-up time
  wakeup,       \* it has woken the box: was_timer_wakeup
  prev_wakeup,  \* config.misc.prev_wakeup_time # 0
  excused,      \* history: until then, being late is due to the user or to the mains
  givenup,      \* history: the recordings the user has broken off by switching off
  touched       \* history: somebody has used the box since it was woken

vars == <<now, up, ready, timers, st, screen, notes, counted, wasInDeepStandby,
          receiveRecordEvents, fp, wakeup, prev_wakeup, excused, givenup, touched>>
power == <<up, ready, fp, wakeup, prev_wakeup, excused, givenup>>

Timers == 1 .. MaxTimers   \* in the order of their making
NoTimer == [begin |-> -1, after |-> "none"]
Never == -1
Saved == {t \in Timers : timers[t] # NoTimer}
End(t) == timers[t].begin + Length
inStandby == screen = "standby"

NextActivation(t) ==
  CASE st[t] = "waiting"  -> timers[t].begin - PrepareTime
    [] st[t] = "prepared" -> timers[t].begin
    [] OTHER              -> End(t)

Listed == {t \in Saved : st[t] # "ended"}
Recordings == {t \in Saved : st[t] \in {"prepared", "running"}}

\* getNextRecordingTime, getNextTimerTime over the entries S: the first in the future.
NextTimerTime(S) ==
  LET ahead == {NextActivation(t) : t \in {u \in S : NextActivation(u) > now}}
  IN  IF ahead = {} THEN Never ELSE Min(ahead)

\* checkForRecordings, and the reasons of TryQuitMainloop, when the entries are S.
Busy(S) ==
  \/ Recordings \cap S # {}
  \/ NextTimerTime(S) # Never /\ NextTimerTime(S) - now <= Window

Quit == up' = "quitting" /\ ready' = now + QuitTime
StayOn == UNCHANGED <<up, ready>>

-----------------------------------------------------------------------------
(* Timer.processActivation: what is due is done before anything else happens, and it goes
   on when one of the activations has called quitMainloop. *)

Looping == up = "on" \/ (up = "quitting" /\ now = ready - QuitTime)
Due == {t \in Listed : NextActivation(t) <= now}
Settled == up = "on" /\ Due = {}

Prepare(t) ==
  /\ Looping /\ t \in Due /\ st[t] = "waiting"
  /\ st' = [st EXCEPT ![t] = "prepared"]
  /\ UNCHANGED <<now, power, timers, screen, notes, counted, wasInDeepStandby, receiveRecordEvents, touched>>

\* Mutant of Run: the wake-up is not recognised in standby.
RunCounted(t) ==
  /\ Looping /\ t \in Due /\ st[t] = "prepared"
  /\ st' = [st EXCEPT ![t] = "running"]
  /\ wasInDeepStandby' = FALSE
  /\ notes' = IF wasInDeepStandby /\ ~inStandby THEN Append(notes, "standby uncounted") ELSE notes
  /\ UNCHANGED <<now, power, timers, screen, counted, receiveRecordEvents, touched>>

\* activate() to StateRunning: the first recording after the wake-up makes the standby one
\* that AUTO may end.
Run(t) ==
  /\ Looping /\ t \in Due /\ st[t] = "prepared"
  /\ st' = [st EXCEPT ![t] = "running"]
  /\ wasInDeepStandby' = FALSE
  /\ counted' = (counted /\ ~(wasInDeepStandby /\ inStandby))
  /\ notes' = IF wasInDeepStandby /\ ~inStandby THEN Append(notes, "standby uncounted") ELSE notes
  /\ UNCHANGED <<now, power, timers, screen, receiveRecordEvents, touched>>

\* What evEnd and then afterEvent do when t has ended and left the list, the others are S.
ListenerQuits(S) ==
  ~Busy(S) /\ (receiveRecordEvents \/ screen = "quit")
WantsDown(t) ==
  timers[t].after = "deep" \/ (timers[t].after = "auto" /\ inStandby /\ ~counted)
AfterEvent(t, S) ==
  IF Busy(S) THEN StayOn /\ UNCHANGED <<notes, wasInDeepStandby, receiveRecordEvents>>
  ELSE IF WantsDown(t) THEN
    /\ IF inStandby \/ ListenerQuits(S) THEN Quit ELSE StayOn
    /\ receiveRecordEvents' = (receiveRecordEvents \/ inStandby)
    /\ notes' = IF screen \in {"standby", "quit"} THEN notes ELSE Append(notes, "askdown")
    /\ UNCHANGED wasInDeepStandby
  ELSE
    /\ IF ListenerQuits(S) THEN Quit ELSE StayOn
    /\ notes' = IF timers[t].after = "standby" /\ ~inStandby THEN Append(notes, "asksleep") ELSE notes
    /\ wasInDeepStandby' = (wasInDeepStandby /\ timers[t].after = "standby")
    /\ UNCHANGED receiveRecordEvents

Ended(t) ==
  /\ Looping /\ t \in Due /\ st[t] = "running"
  /\ st' = [st EXCEPT ![t] = "ended"]
  /\ AfterEvent(t, Listed \ {t})
  /\ UNCHANGED <<now, timers, screen, counted, fp, wakeup, prev_wakeup, excused, givenup, touched>>

-----------------------------------------------------------------------------
(* The screens and the user. A press of any key reaches RecordTimerEntry.keypress. *)

Press == wasInDeepStandby' = FALSE /\ touched' = TRUE

\* TryQuitMainloop opened: it asks when there is a reason, and closes itself with yes if not.
OpenTryQuit ==
  IF Busy(Listed) THEN screen' = "quit" /\ StayOn ELSE Quit /\ UNCHANGED screen

\* InfoBarNotifications.checkNotifications, when the InfoBar is the dialog in use.
ShowNotification ==
  /\ Settled /\ screen = "tv" /\ notes # <<>>
  /\ notes' = Tail(notes)
  /\ CASE Head(notes) = "standby"           -> screen' = "standby" /\ counted' = TRUE /\ StayOn
       [] Head(notes) = "standby uncounted" -> screen' = "standby" /\ UNCHANGED counted /\ StayOn
       [] Head(notes) = "quit"              -> OpenTryQuit /\ UNCHANGED counted
       [] OTHER                             -> screen' = Head(notes) /\ UNCHANGED counted /\ StayOn
  /\ UNCHANGED <<now, timers, st, wasInDeepStandby, receiveRecordEvents, fp, wakeup, prev_wakeup,
                 excused, givenup, touched>>

\* sendTryQuitMainloopNotification, sendStandbyNotification; the dialogs time out with yes.
AnswerNotification(yes) ==
  /\ Settled /\ screen \in {"askdown", "asksleep"}
  /\ notes' = IF yes THEN Append(notes, IF screen = "askdown" THEN "quit" ELSE "standby") ELSE notes
  /\ screen' = "tv"
  /\ wasInDeepStandby' = FALSE
  /\ UNCHANGED <<now, power, timers, st, counted, receiveRecordEvents>>
UserAnswers == \E yes \in BOOLEAN : AnswerNotification(yes) /\ touched' = TRUE
DialogTimesOut == AnswerNotification(TRUE) /\ UNCHANGED touched

\* The answer to TryQuitMainloop; its timeout, set when a timer is near, answers no.
AnswerQuit(yes) ==
  /\ Settled /\ screen = "quit"
  /\ screen' = "tv"
  /\ IF yes THEN /\ Quit
                 /\ excused' = now + QuitTime + Reboot + BootTime
                 /\ givenup' = givenup \cup {t \in Saved : st[t] = "running"}
            ELSE StayOn /\ UNCHANGED <<excused, givenup>>
  /\ Press
  /\ UNCHANGED <<now, timers, st, notes, counted, receiveRecordEvents, fp, wakeup, prev_wakeup>>

\* The power key: shutdown, or Standby opened and closed.
AskShutdown ==
  /\ Settled /\ screen = "tv" /\ OpenTryQuit /\ Press
  /\ UNCHANGED <<now, timers, st, notes, counted, receiveRecordEvents, fp, wakeup, prev_wakeup, excused, givenup>>
EnterStandby ==
  /\ Settled /\ screen = "tv" /\ screen' = "standby" /\ counted' = TRUE /\ Press
  /\ UNCHANGED <<now, power, timers, st, notes, receiveRecordEvents>>

\* Mutant of LeaveStandby: the listener stays.
LeaveListening ==
  /\ Settled /\ inStandby /\ screen' = "tv" /\ Press
  /\ UNCHANGED <<now, power, timers, st, notes, counted, receiveRecordEvents>>
\* Standby.__onClose with stopTryQuitMainloop.
LeaveStandby ==
  /\ Settled /\ inStandby /\ screen' = "tv" /\ Press
  /\ receiveRecordEvents' = FALSE
  /\ UNCHANGED <<now, power, timers, st, notes, counted>>

\* RecordTimer.record: a new timer, on disk when the handler returns.
AddTimer(t, begin, after) ==
  /\ Settled /\ screen = "tv" /\ Timers \ Saved # {} /\ t = Min(Timers \ Saved)
  /\ begin > now /\ begin + Length <= MaxTime
  /\ "meet" \in Env \/ \A u \in Listed :
       End(u) # begin - PrepareTime /\ begin + Length # timers[u].begin - PrepareTime
  /\ timers' = [timers EXCEPT ![t] = [begin |-> begin, after |-> after]]
  /\ st' = [st EXCEPT ![t] = "waiting"]
  /\ Press
  /\ UNCHANGED <<now, power, screen, notes, counted, receiveRecordEvents>>

\* Standby.standbyTimeout with TryQuitMainloop and its fake evEnd.
StandbyTimeout ==
  /\ Settled /\ inStandby /\ ~receiveRecordEvents
  /\ receiveRecordEvents' = TRUE
  /\ IF Busy(Listed) THEN StayOn ELSE Quit
  /\ UNCHANGED <<now, timers, st, screen, notes, counted, wasInDeepStandby, fp, wakeup, prev_wakeup,
                 excused, givenup, touched>>

-----------------------------------------------------------------------------
(* Down and up. *)

\* Mutant of WakeTime: no earlier than the front processor can do.
WakeAhead(next) == next - Lead
\* runScreenTest after runReactor.
WakeTime(next) == IF next - now <= Lead + Reboot THEN now + Reboot ELSE next - Lead

\* What the program held in memory is gone.
Forget ==
  /\ st' = [t \in Timers |-> "ended"] /\ screen' = "tv" /\ notes' = <<>> /\ ready' = 0
  /\ counted' = FALSE /\ wasInDeepStandby' = FALSE /\ receiveRecordEvents' = FALSE
  /\ wakeup' = FALSE /\ touched' = FALSE
Shutdown ==
  /\ up = "quitting" /\ ~(Looping /\ Due # {})
  /\ up' = "off"
  /\ LET next == NextTimerTime(Listed)
     IN  /\ fp' = IF next = Never THEN fp ELSE WakeTime(next)
         /\ prev_wakeup' = (next # Never)
  /\ Forget
  /\ UNCHANGED <<now, timers, excused, givenup>>

PowerUp(by) ==
  /\ up' = "boot" /\ ready' = now + BootTime /\ wakeup' = by
  /\ UNCHANGED <<now, timers, st, screen, notes, counted, wasInDeepStandby, receiveRecordEvents, fp,
                 prev_wakeup, givenup, touched>>
WakeUp == up = "off" /\ fp = now /\ PowerUp(TRUE) /\ UNCHANGED excused
PowerOn == up = "off" /\ fp # now /\ PowerUp(FALSE) /\ UNCHANGED excused
PowerBack == up = "cut" /\ PowerUp(FALSE) /\ excused' = now + BootTime

PowerCut ==
  /\ up # "cut" /\ up' = "cut" /\ Forget
  /\ UNCHANGED <<now, timers, fp, prev_wakeup, excused, givenup>>

\* Navigation.__init__: loadTimer activates what is due before it is known who woke the box.
Loaded(t) ==
  IF t \notin Saved \/ End(t) <= now THEN "ended"
  ELSE IF timers[t].begin <= now THEN "running"
  ELSE IF timers[t].begin - PrepareTime <= now THEN "prepared" ELSE "waiting"
Boot ==
  /\ up = "boot" /\ up' = "on"
  /\ st' = [t \in Timers |-> Loaded(t)]
  /\ screen' = "tv" /\ counted' = FALSE /\ receiveRecordEvents' = FALSE
  /\ wasInDeepStandby' = wakeup
  /\ notes' = IF wakeup /\ prev_wakeup THEN <<"standby">> ELSE <<>>
  /\ prev_wakeup' = FALSE /\ wakeup' = FALSE
  /\ touched' = ~wakeup
  /\ ready' = 0
  /\ UNCHANGED <<now, timers, fp, excused, givenup>>

\* Time passes when all that is due has been done; a cut lasts as long as it likes. Of
\* what is past for good, only as much is kept as makes a difference.
AtRest ==
  CASE up = "on"   -> Due = {} /\ ~(screen = "tv" /\ notes # <<>>)
    [] up = "off"  -> fp # now
    [] up = "cut"  -> TRUE
    [] OTHER       -> now < ready /\ ~(Looping /\ Due # {})
Tick ==
  /\ now < MaxTime /\ AtRest
  /\ now' = now + 1
  /\ LET past == {t \in Saved : End(t) < now'}
     IN  /\ timers' = [t \in Timers |-> IF t \in past THEN [timers[t] EXCEPT !.begin = 0] ELSE timers[t]]
         /\ givenup' = givenup \ past
  /\ fp' = IF fp < now' THEN Never ELSE fp
  /\ excused' = IF excused <= now' THEN 0 ELSE excused
  /\ UNCHANGED <<up, ready, wakeup, prev_wakeup, st, screen, notes, counted, wasInDeepStandby,
                 receiveRecordEvents, touched>>

-----------------------------------------------------------------------------
Init ==
  /\ now = 0 /\ up = "on" /\ ready = 0
  /\ timers = [t \in Timers |-> NoTimer] /\ st = [t \in Timers |-> "ended"]
  /\ screen = "tv" /\ notes = <<>> /\ counted = FALSE
  /\ wasInDeepStandby = FALSE /\ receiveRecordEvents = FALSE
  /\ fp = Never /\ wakeup = FALSE /\ prev_wakeup = FALSE
  /\ excused = 0 /\ givenup = {} /\ touched = TRUE

Activation == \E t \in Timers : Prepare(t) \/ Run(t) \/ Ended(t)
User ==
  \/ UserAnswers \/ AskShutdown \/ EnterStandby \/ LeaveStandby
  \/ \E yes \in BOOLEAN : AnswerQuit(yes)
  \/ \E t \in Timers, begin \in 1 .. MaxTime, after \in After : AddTimer(t, begin, after)
  \/ PowerOn
Next ==
  \/ Activation \/ ShowNotification \/ DialogTimesOut \/ StandbyTimeout \/ User
  \/ Shutdown \/ WakeUp \/ Boot \/ PowerCut \/ PowerBack \/ Tick

Spec == Init /\ [][Next]_vars

\* The box does not stand still: the main loop runs its timers, dialogs time out, a box
\* that quits goes down, one that is powered comes up, and time goes on.
Box == Tick \/ Shutdown \/ WakeUp \/ Boot \/ DialogTimesOut \/ ShowNotification \/ Activation
FairSpec == Spec /\ WF_vars(Box)

-----------------------------------------------------------------------------
TypeOK ==
  /\ now \in 0 .. MaxTime
  /\ up \in {"on", "quitting", "off", "boot", "cut"} /\ ready \in Nat
  /\ timers \in [Timers -> {NoTimer} \cup [begin : 0 .. MaxTime, after : After]]
  /\ st \in [Timers -> {"waiting", "prepared", "running", "ended"}]
  /\ screen \in {"tv", "standby", "quit", "askdown", "asksleep"}
  /\ notes \in Seq({"standby", "standby uncounted", "quit", "askdown", "asksleep"})
  /\ Len(notes) <= MaxTimers + 2
  /\ {counted, wasInDeepStandby, receiveRecordEvents, wakeup, prev_wakeup, touched} \subseteq BOOLEAN
  /\ fp \in Nat \cup {Never} /\ excused \in Nat /\ givenup \subseteq Timers

\* A recording is missed only when somebody broke it off or the mains failed: whether the
\* box was in use, asleep or off before, every other one runs from its begin to its end.
\* After a switching off against advice the box is back as soon as it can be.
RecordsInTime ==
  \A t \in Saved \ givenup :
    timers[t].begin <= now /\ now < End(t) /\ excused <= now /\ up # "cut" /\ AtRest
      => up = "on" /\ st[t] = "running"

\* The end of a recording never switches off a box in use: its user is asked. Only in
\* standby, or when the user has asked for it and waits, does evEnd quit the main loop.
ViewersAreAsked ==
  [][up = "on" /\ up' = "quitting" /\ st' # st => screen # "tv"]_vars

\* A box that was woken for recordings that should switch it off afterwards, and that
\* nobody has touched, does not stay on.
Woken ==
  /\ up = "on" /\ wasInDeepStandby /\ ~touched
  /\ \A t \in Saved : st[t] # "running"
  /\ \E t \in Saved : st[t] # "ended"
  /\ \A t \in Saved : timers[t].after \in {"auto", "deep"}
WokenGoesBack == Woken ~> (up # "on" \/ touched)
=============================================================================
