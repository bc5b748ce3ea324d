-------------------------- MODULE DeepStandbyProofs --------------------------
(* What is proved about DeepStandby: its types and ViewersAreAsked for all constants, and
   RecordsInTime under the two conditions the code needs, that going down takes no time in
   which a timer can become due, and that no timer is to be prepared in the very moment
   another one ends. *)
EXTENDS DeepStandby, FiniteSetTheorems, SequenceTheorems, WellFoundedInduction, TLAPS

-----------------------------------------------------------------------------
(* The types. *)

States == {"waiting", "prepared", "running", "ended"}
Screens == {"tv", "standby", "quit", "askdown", "asksleep"}
Notes == {"standby", "standby uncounted", "quit", "askdown", "asksleep"}
Entry == [begin : 0 .. MaxTime, after : After]

Typed ==
  /\ now \in 0 .. MaxTime
  /\ up \in {"on", "quitting", "off", "boot", "cut"} /\ ready \in Nat
  /\ timers \in [Timers -> {NoTimer} \cup Entry]
  /\ st \in [Timers -> States]
  /\ screen \in Screens
  /\ notes \in Seq(Notes)
  /\ counted \in BOOLEAN /\ wasInDeepStandby \in BOOLEAN /\ receiveRecordEvents \in BOOLEAN
  /\ wakeup \in BOOLEAN /\ prev_wakeup \in BOOLEAN /\ touched \in BOOLEAN
  /\ fp \in Nat \cup {Never} /\ excused \in Nat /\ givenup \subseteq Timers

\* Each notification that waits was paid for by a timer that will not end again, by the
\* wake-up, or by a question that is open.
Ahead == {t \in Timers : st[t] # "ended" \/ timers[t] = NoTimer}
Asking == IF screen \in {"askdown", "asksleep"} THEN 1 ELSE 0
Fresh == IF wasInDeepStandby THEN 1 ELSE 0
NotesArePaid == Len(notes) + Asking + Fresh + Cardinality(Ahead) <= MaxTimers + 2

\* Constants: what the assumptions say of each.
LEMMA ConstantTypes ==
  /\ MaxTimers \in Nat /\ MaxTime \in Nat /\ Length \in Nat /\ PrepareTime \in Nat /\ Lead \in Nat
  /\ Reboot \in Nat /\ Window \in Nat /\ BootTime \in Nat /\ QuitTime \in Nat
  /\ Length > 0 /\ Reboot > 0 /\ BootTime > 0 /\ PrepareTime > 0
  /\ Lead >= BootTime + PrepareTime /\ Window >= Lead + Reboot + QuitTime
  BY TimesAssumption DEF TimesAssumption

\* The smallest of a set of natural numbers.
LEMMA MinIsLeast ==
  ASSUME NEW S, S \subseteq Nat, S # {}
  PROVE  Min(S) \in S /\ \A y \in S : Min(S) <= y
<1>1. PICK x \in S : \A y \in S : ~ (<<y, x>> \in OpToRel(<, Nat))
  BY NatLessThanWellFounded, WFMin
<1>2. \A y \in S : x <= y
  <2> SUFFICES ASSUME NEW y \in S PROVE x <= y
    OBVIOUS
  <2>1. ~ (y < x)
    BY <1>1 DEF OpToRel
  <2> QED
    BY <2>1
<1> QED
  BY <1>2 DEF Min

\* A timer that has been made has a begin and an end.
LEMMA SavedTypes ==
  ASSUME Typed, NEW t \in Saved
  PROVE  /\ t \in Timers
         /\ timers[t] \in Entry
         /\ timers[t].begin \in Nat /\ timers[t].begin <= MaxTime
         /\ End(t) \in Nat /\ NextActivation(t) \in Int
         /\ st[t] \in States
<1>1. t \in Timers /\ timers[t] \in Entry /\ st[t] \in States
  BY DEF Saved, Typed
<1>2. timers[t].begin \in 0 .. MaxTime
  BY <1>1 DEF Entry
<1>3. timers[t].begin \in Nat /\ timers[t].begin <= MaxTime
  BY <1>2, ConstantTypes
<1>4. End(t) \in Nat
  BY <1>3, ConstantTypes DEF End
<1>5. NextActivation(t) \in Int
  BY <1>3, <1>4, ConstantTypes DEF NextActivation
<1> QED
  BY <1>1, <1>3, <1>4, <1>5

\* getNextRecordingTime: none of S is ahead, or it is the earliest of those that are.
LEMMA NextIsEarliest ==
  ASSUME Typed, NEW S, S \subseteq Saved
  PROVE  \/ /\ NextTimerTime(S) = Never
            /\ \A u \in S : NextActivation(u) <= now
         \/ /\ NextTimerTime(S) \in Nat /\ NextTimerTime(S) > now
            /\ \E u \in S : NextTimerTime(S) = NextActivation(u)
            /\ \A u \in S : NextActivation(u) > now => NextTimerTime(S) <= NextActivation(u)
<1> DEFINE A == {NextActivation(t) : t \in {u \in S : NextActivation(u) > now}}
<1>1. NextTimerTime(S) = IF A = {} THEN Never ELSE Min(A)
  BY DEF NextTimerTime
<1>2. \A u \in S : NextActivation(u) \in Int
  BY SavedTypes
<1>3. now \in Nat
  BY ConstantTypes DEF Typed
<1>4. A \subseteq Nat
  <2> SUFFICES ASSUME NEW u \in S, NextActivation(u) > now PROVE NextActivation(u) \in Nat
    OBVIOUS
  <2> QED
    BY <1>2, <1>3
<1>5. CASE A = {}
  <2>1. \A u \in S : ~ (NextActivation(u) > now)
    BY <1>5
  <2>2. \A u \in S : NextActivation(u) <= now
    BY <2>1, <1>2, <1>3
  <2> QED
    BY <2>2, <1>1, <1>5
<1>6. CASE A # {}
  <2> DEFINE n == Min(A)
  <2>1. n \in A /\ \A y \in A : n <= y
    BY <1>4, <1>6, MinIsLeast
  <2>2. NextTimerTime(S) = n
    BY <1>1, <1>6
  <2>3. PICK u \in S : NextActivation(u) > now /\ n = NextActivation(u)
    BY <2>1
  <2>4. n \in Nat
    BY <2>1, <1>4
  <2>5. \A v \in S : NextActivation(v) > now => n <= NextActivation(v)
    BY <2>1
  <2> HIDE DEF n
  <2> QED
    BY <2>2, <2>3, <2>4, <2>5
<1> QED
  BY <1>5, <1>6

\* checkForRecordings is false: what is left waits, and is far ahead or already due.
LEMMA NothingNear ==
  ASSUME Typed, NEW S, S \subseteq Listed, ~Busy(S)
  PROVE  \A u \in S : /\ st[u] = "waiting"
                      /\ \/ NextActivation(u) <= now
                         \/ NextActivation(u) > now + Window
<1> SUFFICES ASSUME NEW u \in S
             PROVE  st[u] = "waiting" /\ (NextActivation(u) <= now \/ NextActivation(u) > now + Window)
  OBVIOUS
<1>1. S \subseteq Saved /\ u \in Saved
  BY DEF Listed
<1>2. st[u] \in States /\ st[u] # "ended" /\ NextActivation(u) \in Int
  BY <1>1, SavedTypes DEF Listed
<1>3. u \notin Recordings
  BY DEF Busy
<1>4. st[u] = "waiting"
  BY <1>1, <1>2, <1>3 DEF Recordings, States
<1>5. now \in Nat /\ Window \in Nat
  BY ConstantTypes DEF Typed
<1>6. ASSUME NextActivation(u) > now PROVE NextActivation(u) > now + Window
  <2>1. NextTimerTime(S) # Never /\ NextTimerTime(S) \in Nat /\ NextTimerTime(S) <= NextActivation(u)
    BY NextIsEarliest, <1>1, <1>2, <1>5, <1>6 DEF Never
  <2>2. ~ (NextTimerTime(S) - now <= Window)
    BY <2>1 DEF Busy
  <2> HIDE DEF NextTimerTime
  <2> QED
    BY <2>1, <2>2, <1>2, <1>5
<1>7. NextActivation(u) <= now \/ NextActivation(u) > now
  BY <1>2, <1>5
<1> QED
  BY <1>4, <1>6, <1>7

LEMMA LoadedTypes ==
  ASSUME NEW t \in Timers
  PROVE  Loaded(t) \in States
  BY DEF Loaded, States

LEMMA WakeTimes ==
  ASSUME Typed, NEW next \in Nat, next > now
  PROVE  WakeTime(next) \in Nat
<1>1. now \in Nat
  BY ConstantTypes DEF Typed
<1> QED
  BY <1>1, ConstantTypes DEF WakeTime

LEMMA TypesInit == Init => Typed
<1> SUFFICES ASSUME Init PROVE Typed
  OBVIOUS
<1>1. notes \in Seq(Notes)
  BY DEF Init
<1>2. timers \in [Timers -> {NoTimer} \cup Entry]
  BY DEF Init
<1>3. st \in [Timers -> States]
  BY DEF Init, States
<1>4. now \in 0 .. MaxTime
  BY ConstantTypes DEF Init
<1> QED
  BY <1>1, <1>2, <1>3, <1>4 DEF Init, Typed, Screens

LEMMA TypesStep == Typed /\ [Next]_vars => Typed'
<1> SUFFICES ASSUME Typed, [Next]_vars PROVE Typed'
  OBVIOUS
<1> USE DEF Typed
<1>c. now \in Nat /\ "ended" \in States /\ "waiting" \in States /\ "prepared" \in States
      /\ "running" \in States /\ TRUE \in BOOLEAN /\ FALSE \in BOOLEAN
      /\ "tv" \in Screens /\ "standby" \in Screens /\ "quit" \in Screens
  BY ConstantTypes DEF States, Screens
<1>n. \A x \in Notes : Append(notes, x) \in Seq(Notes)
  OBVIOUS
<1>q. ASSUME Quit \/ StayOn
      PROVE  up' \in {"on", "quitting", "off", "boot", "cut"} /\ ready' \in Nat
  BY <1>q, <1>c, ConstantTypes DEF Quit, StayOn
<1>1. ASSUME NEW t \in Timers, Prepare(t) PROVE Typed'
  <2>1. st' \in [Timers -> States]
    BY <1>1, <1>c DEF Prepare
  <2> QED
    BY <1>1, <2>1 DEF Prepare, power
<1>2. ASSUME NEW t \in Timers, Run(t) PROVE Typed'
  <2>1. st' \in [Timers -> States]
    BY <1>2, <1>c DEF Run
  <2>2. notes' \in Seq(Notes)
    <3>1. "standby uncounted" \in Notes
      BY DEF Notes
    <3> QED
      BY <3>1, <1>2, <1>n DEF Run
  <2>3. counted' \in BOOLEAN /\ wasInDeepStandby' \in BOOLEAN
    BY <1>2 DEF Run
  <2> QED
    BY <1>2, <2>1, <2>2, <2>3 DEF Run, power
<1>3. ASSUME NEW t \in Timers, Ended(t) PROVE Typed'
  <2>1. st' \in [Timers -> States]
    BY <1>3, <1>c DEF Ended
  <2>2. "askdown" \in Notes /\ "asksleep" \in Notes
    BY DEF Notes
  <2>3. AfterEvent(t, Listed \ {t})
    BY <1>3 DEF Ended
  <2>4. /\ Quit \/ StayOn
        /\ notes' \in Seq(Notes) /\ wasInDeepStandby' \in BOOLEAN /\ receiveRecordEvents' \in BOOLEAN
    <3>1. CASE Busy(Listed \ {t})
      BY <2>3, <3>1 DEF AfterEvent
    <3>2. CASE ~Busy(Listed \ {t}) /\ WantsDown(t)
      BY <2>2, <2>3, <3>2, <1>n DEF AfterEvent, inStandby
    <3>3. CASE ~Busy(Listed \ {t}) /\ ~WantsDown(t)
      BY <2>2, <2>3, <3>3, <1>n DEF AfterEvent
    <3> QED
      BY <3>1, <3>2, <3>3
  <2> QED
    BY <1>3, <1>q, <2>1, <2>4 DEF Ended
<1>4. ASSUME ShowNotification PROVE Typed'
  <2>1. notes # <<>> /\ Head(notes) \in Notes /\ Tail(notes) \in Seq(Notes)
    BY <1>4, HeadTailProperties DEF ShowNotification
  <2>2. /\ screen' \in Screens /\ counted' \in BOOLEAN
        /\ Quit \/ StayOn
    BY <1>4, <1>c, <2>1 DEF ShowNotification, OpenTryQuit, Notes, Screens
  <2> QED
    BY <1>4, <1>q, <2>1, <2>2 DEF ShowNotification
<1>5. ASSUME NEW yes \in BOOLEAN, AnswerNotification(yes), touched' \in BOOLEAN PROVE Typed'
  <2>1. "quit" \in Notes /\ "standby" \in Notes
    BY DEF Notes
  <2>2. notes' \in Seq(Notes)
    BY <1>5, <1>n, <2>1 DEF AnswerNotification
  <2> QED
    BY <1>5, <1>c, <2>2 DEF AnswerNotification, power
<1>6. ASSUME NEW yes \in BOOLEAN, AnswerQuit(yes) PROVE Typed'
  <2>1. /\ Quit \/ StayOn
        /\ excused' \in Nat /\ givenup' \subseteq Timers
    <3>1. CASE yes
      BY <3>1, <1>6, <1>c, ConstantTypes DEF AnswerQuit, Saved
    <3>2. CASE ~yes
      BY <3>2, <1>6 DEF AnswerQuit
    <3> QED
      BY <3>1, <3>2
  <2> QED
    BY <1>6, <1>c, <1>q, <2>1 DEF AnswerQuit, Press
<1>7. ASSUME AskShutdown PROVE Typed'
  <2>1. screen' \in Screens /\ (Quit \/ StayOn)
    BY <1>7, <1>c DEF AskShutdown, OpenTryQuit
  <2> QED
    BY <1>7, <1>c, <1>q, <2>1 DEF AskShutdown, Press
<1>8. ASSUME EnterStandby PROVE Typed'
  BY <1>8, <1>c DEF EnterStandby, Press, power
<1>9. ASSUME LeaveStandby PROVE Typed'
  BY <1>9, <1>c DEF LeaveStandby, Press, power
<1>10. ASSUME NEW t \in Timers, NEW begin \in 1 .. MaxTime, NEW after \in After, AddTimer(t, begin, after)
       PROVE  Typed'
  <2>1. [begin |-> begin, after |-> after] \in Entry
    BY ConstantTypes DEF Entry
  <2>2. timers' \in [Timers -> {NoTimer} \cup Entry] /\ st' \in [Timers -> States]
    BY <1>10, <1>c, <2>1 DEF AddTimer
  <2> QED
    BY <1>10, <1>c, <2>2 DEF AddTimer, Press, power
<1>11. ASSUME StandbyTimeout PROVE Typed'
  BY <1>11, <1>c, <1>q DEF StandbyTimeout
<1>12. ASSUME Forget PROVE /\ st' \in [Timers -> States] /\ screen' \in Screens /\ notes' \in Seq(Notes)
                           /\ ready' \in Nat /\ counted' \in BOOLEAN /\ wasInDeepStandby' \in BOOLEAN
                           /\ receiveRecordEvents' \in BOOLEAN /\ wakeup' \in BOOLEAN /\ touched' \in BOOLEAN
  <2>1. st' = [t \in Timers |-> "ended"]
    BY <1>12 DEF Forget
  <2>2. notes' = <<>> /\ <<>> \in Seq(Notes) /\ ready' = 0
    BY <1>12 DEF Forget
  <2>3. st' \in [Timers -> States]
    BY <1>c, <2>1
  <2>4. /\ screen' \in Screens /\ counted' \in BOOLEAN /\ wasInDeepStandby' \in BOOLEAN
        /\ receiveRecordEvents' \in BOOLEAN /\ wakeup' \in BOOLEAN /\ touched' \in BOOLEAN
    BY <1>12, <1>c DEF Forget
  <2> QED
    BY <2>2, <2>3, <2>4
<1>13. ASSUME Shutdown PROVE Typed'
  <2> DEFINE next == NextTimerTime(Listed)
  <2>1. Forget /\ up' = "off" /\ fp' = (IF next = Never THEN fp ELSE WakeTime(next))
        /\ prev_wakeup' = (next # Never) /\ UNCHANGED <<now, timers, excused, givenup>>
    BY <1>13 DEF Shutdown
  <2>2. next = Never \/ (next \in Nat /\ next > now)
    BY NextIsEarliest DEF Listed
  <2>3. next = Never \/ WakeTime(next) \in Nat
    BY <2>2, WakeTimes
  <2> HIDE DEF next
  <2>4. fp' \in Nat \cup {Never} /\ prev_wakeup' \in BOOLEAN
    BY <2>1, <2>3
  <2> QED
    BY <1>12, <2>1, <2>4
<1>14. ASSUME NEW by \in BOOLEAN, PowerUp(by), excused' \in Nat PROVE Typed'
  <2>1. ready' \in Nat
    BY <1>14, <1>c, ConstantTypes DEF PowerUp
  <2> QED
    BY <1>14, <2>1 DEF PowerUp
<1>15. ASSUME PowerCut PROVE Typed'
  BY <1>12, <1>15 DEF PowerCut
<1>16. ASSUME Boot PROVE Typed'
  <2>1. st' \in [Timers -> States]
    BY <1>16, LoadedTypes DEF Boot
  <2>2. "standby" \in Notes
    BY DEF Notes
  <2>3. notes' \in Seq(Notes)
    BY <1>16, <2>2 DEF Boot
  <2> QED
    BY <1>16, <1>c, <2>1, <2>3 DEF Boot
<1>17. ASSUME Tick PROVE Typed'
  <2> DEFINE past == {t \in Saved : End(t) < now'}
  <2>1. now' \in 0 .. MaxTime
    BY <1>17, <1>c, ConstantTypes DEF Tick
  <2>2. timers' = [t \in Timers |-> IF t \in past THEN [timers[t] EXCEPT !.begin = 0] ELSE timers[t]]
        /\ givenup' = givenup \ past
    BY <1>17 DEF Tick
  <2>3. \A t \in past : timers[t] \in Entry
    BY SavedTypes
  <2>4. \A t \in past : [timers[t] EXCEPT !.begin = 0] \in Entry
    <3> SUFFICES ASSUME NEW t \in past PROVE [timers[t] EXCEPT !.begin = 0] \in Entry
      OBVIOUS
    <3>1. timers[t] \in Entry /\ 0 \in 0 .. MaxTime
      BY <2>3, ConstantTypes
    <3> QED
      BY <3>1 DEF Entry
  <2> HIDE DEF past
  <2>5. timers' \in [Timers -> {NoTimer} \cup Entry]
    BY <2>2, <2>4
  <2>6. fp' \in Nat \cup {Never} /\ excused' \in Nat
    BY <1>17 DEF Tick
  <2> QED
    BY <1>17, <2>1, <2>2, <2>5, <2>6 DEF Tick
<1>18. ASSUME UNCHANGED vars PROVE Typed'
  BY <1>18 DEF vars
<1>19. UserAnswers => Typed'
  BY <1>5, <1>c DEF UserAnswers
<1>20. DialogTimesOut => Typed'
  BY <1>5, <1>c DEF DialogTimesOut
<1>21. WakeUp \/ PowerOn => Typed'
  BY <1>14, <1>c DEF WakeUp, PowerOn
<1>22. PowerBack => Typed'
  <2> SUFFICES ASSUME PowerBack PROVE Typed'
    OBVIOUS
  <2>1. PowerUp(FALSE)
    BY DEF PowerBack
  <2>2. excused' = now + BootTime
    BY DEF PowerBack
  <2>3. excused' \in Nat
    BY ONLY <2>2, <1>c, ConstantTypes
  <2> QED
    BY <1>14, <1>c, <2>1, <2>3
<1> HIDE DEF Typed
<1>23. Activation => Typed'
  BY <1>1, <1>2, <1>3 DEF Activation
<1>24. User => Typed'
  BY <1>6, <1>7, <1>8, <1>9, <1>10, <1>19, <1>21 DEF User
<1> QED
  BY <1>4, <1>11, <1>13, <1>15, <1>16, <1>17, <1>18, <1>20, <1>21, <1>22, <1>23, <1>24 DEF Next

\* The counting of notifications.
LEMMA AheadCounts ==
  /\ IsFiniteSet(Timers) /\ Cardinality(Timers) = MaxTimers
  /\ IsFiniteSet(Ahead) /\ Cardinality(Ahead) \in Nat /\ Cardinality(Ahead) <= MaxTimers
<1>1. MaxTimers \in Nat /\ MaxTimers \in Int /\ 1 \in Int
  BY ConstantTypes
<1>2. IsFiniteSet(Timers) /\ Cardinality(Timers) = MaxTimers
  <2>1. IsFiniteSet(1 .. MaxTimers)
        /\ Cardinality(1 .. MaxTimers) = IF 1 > MaxTimers THEN 0 ELSE MaxTimers - 1 + 1
    BY <1>1, FS_Interval
  <2>2. Cardinality(1 .. MaxTimers) = MaxTimers
    BY <1>1, <2>1
  <2> QED
    BY <2>1, <2>2 DEF Timers
<1>3. Ahead \in SUBSET Timers
  BY DEF Ahead
<1>4. IsFiniteSet(Ahead) /\ Cardinality(Ahead) <= Cardinality(Timers)
  BY <1>2, <1>3, FS_Subset
<1>5. Cardinality(Ahead) \in Nat
  BY <1>4, FS_CardinalityType
<1> QED
  BY <1>2, <1>4, <1>5

LEMMA CountTypes ==
  ASSUME Typed
  PROVE  Len(notes) \in Nat /\ Asking \in {0, 1} /\ Fresh \in {0, 1}
  BY LenProperties DEF Typed, Asking, Fresh

\* Where no timer comes back and no notification is made that was not asked for.
LEMMA NothingMade ==
  ASSUME Typed, Typed', NotesArePaid, Ahead' \subseteq Ahead,
         Len(notes') + Asking' + Fresh' <= Len(notes) + Asking + Fresh
  PROVE  NotesArePaid'
<1>1. Ahead' \in SUBSET Ahead
  OBVIOUS
<1>2. IsFiniteSet(Ahead') /\ Cardinality(Ahead') <= Cardinality(Ahead)
  BY <1>1, AheadCounts, FS_Subset
<1>3. Cardinality(Ahead') \in Nat /\ Cardinality(Ahead) \in Nat
  BY <1>2, AheadCounts, FS_CardinalityType
<1>4. Len(notes) \in Nat /\ Asking \in Nat /\ Fresh \in Nat
  BY CountTypes
<1>5. Len(notes') \in Nat /\ Asking' \in Nat /\ Fresh' \in Nat
  BY LenProperties DEF Typed, Asking, Fresh
<1>6. MaxTimers \in Nat
  BY ConstantTypes
<1>7. Len(notes) + Asking + Fresh + Cardinality(Ahead) <= MaxTimers + 2
  BY DEF NotesArePaid
<1>8. Len(notes') + Asking' + Fresh' + Cardinality(Ahead') <= MaxTimers + 2
  BY ONLY <1>2, <1>3, <1>4, <1>5, <1>6, <1>7,
          Len(notes') + Asking' + Fresh' <= Len(notes) + Asking + Fresh
<1> QED
  BY <1>8 DEF NotesArePaid

\* Nothing has been done yet.
LEMMA StartsFresh ==
  ASSUME Typed, Len(notes) + Asking + Fresh <= 2
  PROVE  NotesArePaid
<1>1. Len(notes) \in Nat /\ Asking \in Nat /\ Fresh \in Nat
  BY CountTypes
<1>2. MaxTimers \in Nat /\ Cardinality(Ahead) \in Nat /\ Cardinality(Ahead) <= MaxTimers
  BY AheadCounts, ConstantTypes
<1> QED
  BY <1>1, <1>2 DEF NotesArePaid

LEMMA StartsFreshAgain ==
  ASSUME Typed', Len(notes') + Asking' + Fresh' <= 2
  PROVE  NotesArePaid'
<1>1. Len(notes') \in Nat /\ Asking' \in Nat /\ Fresh' \in Nat
  BY LenProperties DEF Typed, Asking, Fresh
<1>2. Ahead' \in SUBSET Timers /\ IsFiniteSet(Timers) /\ Cardinality(Timers) = MaxTimers
  BY AheadCounts DEF Ahead
<1>3. Cardinality(Ahead') \in Nat /\ Cardinality(Ahead') <= MaxTimers /\ MaxTimers \in Nat
  BY <1>2, FS_Subset, FS_CardinalityType, ConstantTypes
<1>4. Len(notes') + Asking' + Fresh' + Cardinality(Ahead') <= MaxTimers + 2
  BY ONLY <1>1, <1>3, Len(notes') + Asking' + Fresh' <= 2
<1> QED
  BY <1>4 DEF NotesArePaid

LEMMA NotesStep == Typed /\ Typed' /\ NotesArePaid /\ [Next]_vars => NotesArePaid'
<1> SUFFICES ASSUME Typed, Typed', NotesArePaid, [Next]_vars PROVE NotesArePaid'
  OBVIOUS
<1>c. /\ Len(notes) \in Nat /\ Asking \in {0, 1} /\ Fresh \in {0, 1}
      /\ Len(notes') \in Nat /\ Asking' \in {0, 1} /\ Fresh' \in {0, 1}
  BY LenProperties DEF Typed, Asking, Fresh
<1>a. \A x \in Notes : Len(Append(notes, x)) = Len(notes) + 1
  BY AppendProperties DEF Typed
<1>s. ASSUME UNCHANGED <<timers, st>> PROVE Ahead' \subseteq Ahead
  BY <1>s DEF Ahead
<1>r. ASSUME wasInDeepStandby' = FALSE \/ wasInDeepStandby' = wasInDeepStandby PROVE Fresh' <= Fresh
  BY <1>r, <1>c DEF Fresh
<1>1. ASSUME NEW t \in Timers, Prepare(t) PROVE NotesArePaid'
  <2>1. Ahead' \subseteq Ahead
    BY <1>1 DEF Prepare, Due, Listed, Saved, Ahead, Typed
  <2>2. notes' = notes /\ Asking' = Asking /\ Fresh' = Fresh
    BY <1>1 DEF Prepare, Asking, Fresh
  <2> QED
    BY <1>c, <2>1, <2>2, NothingMade
<1>2. ASSUME NEW t \in Timers, Run(t) PROVE NotesArePaid'
  <2>1. Ahead' \subseteq Ahead
    BY <1>2 DEF Run, Due, Listed, Saved, Ahead, Typed
  <2>2. Asking' = Asking /\ Fresh' = 0
    BY <1>2 DEF Run, Asking, Fresh
  <2>3. Len(notes') <= Len(notes) + Fresh
    <3>1. CASE wasInDeepStandby /\ ~inStandby
      <4>1. notes' = Append(notes, "standby uncounted") /\ "standby uncounted" \in Notes
        BY <1>2, <3>1 DEF Run, Notes
      <4>3. Fresh = 1
        BY <3>1 DEF Fresh
      <4>2. Len(notes') = Len(notes) + 1
        BY <1>a, <4>1
      <4> QED
        BY ONLY <1>c, <4>3, <4>2
    <3>2. CASE ~ (wasInDeepStandby /\ ~inStandby)
      <4>1. notes' = notes
        BY <1>2, <3>2 DEF Run
      <4> QED
        BY <1>c, <4>1
    <3> QED
      BY <3>1, <3>2
  <2> QED
    BY <1>c, <2>1, <2>2, <2>3, NothingMade
<1>3. ASSUME NEW t \in Timers, Ended(t) PROVE NotesArePaid'
  <2>1. t \in Ahead /\ Ahead' = Ahead \ {t}
    BY <1>3 DEF Ended, Due, Listed, Saved, Ahead, Typed
  <2>2. Cardinality(Ahead') = Cardinality(Ahead) - 1 /\ Cardinality(Ahead) \in Nat /\ MaxTimers \in Nat
    BY <2>1, AheadCounts, FS_RemoveElement, ConstantTypes
  <2>3. Asking' = Asking
    BY <1>3 DEF Ended, Asking
  <2>4. AfterEvent(t, Listed \ {t})
    BY <1>3 DEF Ended
  <2>5. "askdown" \in Notes /\ "asksleep" \in Notes
    BY DEF Notes
  <2>6. Len(notes') <= Len(notes) + 1 /\ Fresh' <= Fresh
    <3>1. CASE Busy(Listed \ {t})
      <4>1. notes' = notes /\ wasInDeepStandby' = wasInDeepStandby
        BY <2>4, <3>1 DEF AfterEvent
      <4> QED
        BY <1>c, <1>r, <4>1
    <3>2. CASE ~Busy(Listed \ {t}) /\ WantsDown(t)
      <4>1. notes' \in {notes, Append(notes, "askdown")} /\ wasInDeepStandby' = wasInDeepStandby
        BY <2>4, <3>2 DEF AfterEvent
      <4> QED
        BY <1>a, <1>c, <1>r, <2>5, <4>1
    <3>3. CASE ~Busy(Listed \ {t}) /\ ~WantsDown(t)
      <4>1. notes' \in {notes, Append(notes, "asksleep")}
        BY <2>4, <3>3 DEF AfterEvent
      <4>2. wasInDeepStandby' = (wasInDeepStandby /\ timers[t].after = "standby")
        BY <2>4, <3>3 DEF AfterEvent
      <4>3. Fresh' <= Fresh
        <5>1. wasInDeepStandby' => wasInDeepStandby
          BY <4>2
        <5> QED
          BY <5>1, <1>c DEF Fresh
      <4> QED
        BY <1>a, <1>c, <2>5, <4>1, <4>3
    <3> QED
      BY <3>1, <3>2, <3>3
  <2>7. Len(notes) + Asking + Fresh + Cardinality(Ahead) <= MaxTimers + 2
    BY DEF NotesArePaid
  <2>8. Len(notes') + Asking' + Fresh' + Cardinality(Ahead') <= MaxTimers + 2
    BY ONLY <1>c, <2>2, <2>3, <2>6, <2>7
  <2> QED
    BY <2>8 DEF NotesArePaid
<1>4. ASSUME ShowNotification PROVE NotesArePaid'
  <2>1. notes # <<>> /\ notes' = Tail(notes) /\ screen = "tv" /\ UNCHANGED <<timers, st, wasInDeepStandby>>
    BY <1>4 DEF ShowNotification
  <2>2. Len(notes') = Len(notes) - 1
    BY <2>1, HeadTailProperties DEF Typed
  <2>3. Asking = 0 /\ Fresh' = Fresh
    BY <2>1 DEF Asking, Fresh
  <2>4. Ahead' \subseteq Ahead
    BY <1>s, <2>1
  <2>5. Len(notes') + Asking' + Fresh' <= Len(notes) + Asking + Fresh
    BY ONLY <1>c, <2>2, <2>3
  <2> QED
    BY <2>4, <2>5, NothingMade
<1>5. ASSUME NEW yes \in BOOLEAN, AnswerNotification(yes) PROVE NotesArePaid'
  <2>1. Asking = 1 /\ Asking' = 0
    BY <1>5 DEF AnswerNotification, Asking
  <2>2. Len(notes') <= Len(notes) + 1
    <3>1. "quit" \in Notes /\ "standby" \in Notes
      BY DEF Notes
    <3>2. notes' \in {notes, Append(notes, "quit"), Append(notes, "standby")}
      BY <1>5 DEF AnswerNotification
    <3> QED
      BY <1>a, <1>c, <3>1, <3>2
  <2>3. Fresh' <= Fresh /\ Ahead' \subseteq Ahead
    BY <1>5, <1>r, <1>s DEF AnswerNotification
  <2> QED
    BY <1>c, <2>1, <2>2, <2>3, NothingMade
<1>6. ASSUME UNCHANGED <<timers, st, notes>>, wasInDeepStandby' = FALSE \/ wasInDeepStandby' = wasInDeepStandby,
             screen' \in {screen, "tv", "quit", "standby"}
      PROVE  NotesArePaid'
  <2>1. Asking' <= Asking
    BY <1>c, <1>6 DEF Asking
  <2>2. notes' = notes /\ Fresh' <= Fresh /\ Ahead' \subseteq Ahead
    BY <1>6, <1>r, <1>s
  <2>3. Len(notes') + Asking' + Fresh' <= Len(notes) + Asking + Fresh
    BY ONLY <1>c, <2>1, <2>2
  <2> QED
    BY <2>2, <2>3, NothingMade
<1>7. ASSUME NEW yes \in BOOLEAN, AnswerQuit(yes) PROVE NotesArePaid'
  BY <1>6, <1>7 DEF AnswerQuit, Press
<1>8. AskShutdown => NotesArePaid'
  BY <1>6 DEF AskShutdown, Press, OpenTryQuit
<1>9. EnterStandby => NotesArePaid'
  BY <1>6 DEF EnterStandby, Press
<1>10. LeaveStandby => NotesArePaid'
  BY <1>6 DEF LeaveStandby, Press
<1>11. StandbyTimeout => NotesArePaid'
  BY <1>6 DEF StandbyTimeout
<1>12. ASSUME NEW by \in BOOLEAN, PowerUp(by) PROVE NotesArePaid'
  BY <1>6, <1>12 DEF PowerUp
<1>13. ASSUME NEW t \in Timers, NEW begin, NEW after, AddTimer(t, begin, after)
       PROVE  NotesArePaid'
  <2>1. t \notin Saved
    BY <1>13, MinIsLeast DEF AddTimer, Timers
  <2>2. Ahead' \subseteq Ahead
    BY <1>13, <2>1 DEF AddTimer, Ahead, Saved, Typed
  <2>3. notes' = notes /\ Asking' = Asking /\ Fresh' <= Fresh
    BY <1>13, <1>r DEF AddTimer, Press, Asking
  <2> QED
    BY <1>c, <2>2, <2>3, NothingMade
<1>14. ASSUME Forget PROVE NotesArePaid'
  <2>1. Len(notes') = 0 /\ Asking' = 0 /\ Fresh' = 0
    BY <1>14, EmptySeq DEF Forget, Asking, Fresh
  <2> QED
    BY <2>1, StartsFreshAgain
<1>15. Shutdown \/ PowerCut => NotesArePaid'
  BY <1>14 DEF Shutdown, PowerCut
<1>16. ASSUME Boot PROVE NotesArePaid'
  <2>1. Len(notes') <= 1 /\ Asking' = 0
    <3>1. notes' \in {<<>>, <<"standby">>} /\ screen' = "tv"
      BY <1>16 DEF Boot
    <3>2. Len(notes') <= 1
      <4>1. CASE notes' = <<>>
        <5>1. Len(notes') = 0
          BY <4>1, EmptySeq
        <5> QED
          BY <5>1
      <4>2. CASE notes' = <<"standby">>
        <5>1. Len(<<"standby">>) = 1
          OBVIOUS
        <5> QED
          BY <4>2, <5>1
      <4> QED
        BY <3>1, <4>1, <4>2
    <3>3. Asking' = 0
      BY <3>1 DEF Asking
    <3> QED
      BY <3>2, <3>3
  <2>2. Len(notes') + Asking' + Fresh' <= 2
    BY ONLY <1>c, <2>1
  <2> QED
    BY <2>2, StartsFreshAgain
<1>17. ASSUME Tick PROVE NotesArePaid'
  <2>1. Ahead' \subseteq Ahead
    <3> SUFFICES ASSUME NEW t \in Timers, t \in Ahead' PROVE t \in Ahead
      BY DEF Ahead
    <3>1. st' = st
      BY <1>17 DEF Tick
    <3>2. t \in Saved => timers'[t].begin # -1
      <4> SUFFICES ASSUME t \in Saved PROVE timers'[t].begin # -1
        OBVIOUS
      <4>1. timers[t] \in Entry /\ timers[t].begin \in Nat
        BY SavedTypes
      <4>2. timers'[t] \in {timers[t], [timers[t] EXCEPT !.begin = 0]}
        BY <1>17 DEF Tick
      <4>3. timers'[t].begin \in {timers[t].begin, 0}
        BY <4>1, <4>2 DEF Entry
      <4> QED
        BY <4>1, <4>3
    <3> QED
      BY <3>1, <3>2 DEF Ahead, Saved, NoTimer
  <2>2. notes' = notes /\ Asking' = Asking /\ Fresh' = Fresh
    BY <1>17 DEF Tick, Asking, Fresh
  <2> QED
    BY <1>c, <2>1, <2>2, NothingMade
<1>18. UNCHANGED vars => NotesArePaid'
  BY <1>6 DEF vars
<1>19. UserAnswers \/ DialogTimesOut => NotesArePaid'
  BY <1>5 DEF UserAnswers, DialogTimesOut
<1>20. WakeUp \/ PowerOn \/ PowerBack => NotesArePaid'
  BY <1>12 DEF WakeUp, PowerOn, PowerBack
<1>21. Activation => NotesArePaid'
  BY <1>1, <1>2, <1>3 DEF Activation
<1>22. User => NotesArePaid'
  BY <1>7, <1>8, <1>9, <1>10, <1>13, <1>19, <1>20 DEF User
<1> QED
  BY <1>4, <1>11, <1>15, <1>16, <1>17, <1>18, <1>19, <1>20, <1>21, <1>22 DEF Next

-----------------------------------------------------------------------------
\* Every variable keeps its type, and never more notifications wait than there are timers,
\* a wake-up and a question to make them: RecordTimer.py only appends to the list.
THEOREM DeepStandbyTypes == Spec => []TypeOK
<1>1. Init => Typed /\ NotesArePaid
  <2> SUFFICES ASSUME Init PROVE Typed /\ NotesArePaid
    OBVIOUS
  <2>1. Typed
    BY TypesInit
  <2>2. Len(notes) = 0 /\ Asking = 0 /\ Fresh = 0
    BY EmptySeq DEF Init, Asking, Fresh
  <2> QED
    BY <2>1, <2>2, StartsFresh
<1>2. Typed /\ NotesArePaid /\ [Next]_vars => (Typed /\ NotesArePaid)'
  BY TypesStep, NotesStep
<1>3. Typed /\ NotesArePaid => TypeOK
  <2> SUFFICES ASSUME Typed, NotesArePaid PROVE TypeOK
    OBVIOUS
  <2>1. Len(notes) <= MaxTimers + 2
    BY CountTypes, AheadCounts, ConstantTypes DEF NotesArePaid
  <2> QED
    BY <2>1 DEF Typed, TypeOK, States, Screens, Notes, Entry
<1> QED
  BY <1>1, <1>2, <1>3, PTL DEF Spec

-----------------------------------------------------------------------------
(* Who is asked. *)

\* The listener of record events belongs to the standby screen: Standby.__onClose takes it
\* away, and whatever opens or closes another screen finds it gone.
ListensInStandby == receiveRecordEvents => inStandby

LEMMA ListensStep == ListensInStandby /\ [Next]_vars => ListensInStandby'
<1> SUFFICES ASSUME ListensInStandby, [Next]_vars PROVE ListensInStandby'
  OBVIOUS
<1> USE DEF ListensInStandby, inStandby
<1>1. ASSUME UNCHANGED <<receiveRecordEvents, screen>> PROVE ListensInStandby'
  BY <1>1
<1>2. ASSUME ~receiveRecordEvents' PROVE ListensInStandby'
  BY <1>2
<1>3. ASSUME UNCHANGED receiveRecordEvents, screen # "standby" PROVE ListensInStandby'
  BY <1>3
<1>4. ASSUME NEW t \in Timers, Ended(t) PROVE ListensInStandby'
  <2>1. screen' = screen /\ AfterEvent(t, Listed \ {t})
    BY <1>4 DEF Ended
  <2>2. receiveRecordEvents' => receiveRecordEvents \/ inStandby
    <3>1. CASE Busy(Listed \ {t})
      BY <2>1, <3>1 DEF AfterEvent
    <3>2. CASE ~Busy(Listed \ {t}) /\ WantsDown(t)
      BY <2>1, <3>2 DEF AfterEvent
    <3>3. CASE ~Busy(Listed \ {t}) /\ ~WantsDown(t)
      BY <2>1, <3>3 DEF AfterEvent
    <3> QED
      BY <3>1, <3>2, <3>3
  <2> QED
    BY <2>1, <2>2
<1>5. Activation => ListensInStandby'
  BY <1>1, <1>4 DEF Activation, Prepare, Run
<1>6. ShowNotification => ListensInStandby'
  BY <1>3 DEF ShowNotification
<1>7. UserAnswers \/ DialogTimesOut => ListensInStandby'
  BY <1>3 DEF UserAnswers, DialogTimesOut, AnswerNotification
<1>8. StandbyTimeout => ListensInStandby'
  BY DEF StandbyTimeout
<1>9. ASSUME NEW yes, AnswerQuit(yes) PROVE ListensInStandby'
  BY <1>3, <1>9 DEF AnswerQuit
<1>10. AskShutdown \/ EnterStandby => ListensInStandby'
  BY <1>3 DEF AskShutdown, EnterStandby
<1>11. LeaveStandby => ListensInStandby'
  BY <1>2 DEF LeaveStandby
<1>12. ASSUME NEW t, NEW begin, NEW after, AddTimer(t, begin, after) PROVE ListensInStandby'
  BY <1>1, <1>12 DEF AddTimer
<1>13. WakeUp \/ PowerOn \/ PowerBack => ListensInStandby'
  BY <1>1 DEF WakeUp, PowerOn, PowerBack, PowerUp
<1>14. Shutdown \/ PowerCut \/ Boot => ListensInStandby'
  BY <1>2 DEF Shutdown, PowerCut, Boot, Forget
<1>15. Tick \/ UNCHANGED vars => ListensInStandby'
  BY <1>1 DEF Tick, vars
<1>16. User => ListensInStandby'
  BY <1>7, <1>9, <1>10, <1>11, <1>12, <1>13 DEF User
<1> QED
  BY <1>5, <1>6, <1>7, <1>8, <1>13, <1>14, <1>15, <1>16 DEF Next

\* The end of a recording quits the main loop only in standby, or where TryQuitMainloop is
\* open and waits for it: afterEvent asks whoever watches television first.
THEOREM ViewersAreAskedAlways == Spec => ViewersAreAsked
<1>1. Init => ListensInStandby
  BY DEF Init, ListensInStandby
<1>2. ListensInStandby /\ [Next]_vars => [up = "on" /\ up' = "quitting" /\ st' # st => screen # "tv"]_vars
  <2> SUFFICES ASSUME ListensInStandby, Next, up = "on", up' = "quitting", st' # st, screen = "tv"
               PROVE  FALSE
    BY DEF vars
  <2>1. ~receiveRecordEvents /\ ~inStandby
    BY DEF ListensInStandby, inStandby
  <2>2. ASSUME NEW t \in Timers, Ended(t) PROVE FALSE
    <3>1. AfterEvent(t, Listed \ {t})
      BY <2>2 DEF Ended
    <3>2. ~ListenerQuits(Listed \ {t})
      BY <2>1 DEF ListenerQuits
    <3>3. StayOn
      <4>1. CASE Busy(Listed \ {t})
        BY <3>1, <4>1 DEF AfterEvent
      <4>2. CASE ~Busy(Listed \ {t}) /\ WantsDown(t)
        BY <2>1, <3>1, <3>2, <4>2 DEF AfterEvent
      <4>3. CASE ~Busy(Listed \ {t}) /\ ~WantsDown(t)
        BY <3>1, <3>2, <4>3 DEF AfterEvent
      <4> QED
        BY <4>1, <4>2, <4>3
    <3> QED
      BY <3>3 DEF StayOn
  <2>3. ~Activation
    BY <2>2 DEF Activation, Prepare, Run, power
  <2>4. ~ (ShowNotification \/ DialogTimesOut \/ StandbyTimeout)
    BY DEF ShowNotification, DialogTimesOut, AnswerNotification, StandbyTimeout
  <2>5. ~ (Shutdown \/ WakeUp \/ Boot \/ PowerCut \/ PowerBack \/ PowerOn \/ Tick)
    BY DEF Shutdown, WakeUp, Boot, PowerCut, PowerBack, PowerOn, PowerUp, Tick
  <2>6. ~ (UserAnswers \/ AskShutdown \/ EnterStandby \/ LeaveStandby)
    BY DEF UserAnswers, AnswerNotification, AskShutdown, EnterStandby, LeaveStandby
  <2>7. \A yes \in BOOLEAN : ~AnswerQuit(yes)
    BY DEF AnswerQuit
  <2>8. \A t \in Timers, begin \in 1 .. MaxTime, after \in After : ~AddTimer(t, begin, after)
    BY DEF AddTimer, power
  <2> QED
    BY <2>3, <2>4, <2>5, <2>6, <2>7, <2>8 DEF Next, User
<1> QED
  BY <1>1, <1>2, ListensStep, PTL DEF Spec, ViewersAreAsked

-----------------------------------------------------------------------------
(* Recordings in time. *)

\* What RecordsInTime needs of the code, see the README: nothing becomes due while the box
\* goes down, and no timer has to be prepared in the moment another one ends.
Orderly == QuitTime = 0 /\ "meet" \notin Env

\* The states of the timers exist while the program runs; it forgets none that is not over.
EntriesOK ==
  /\ up \notin {"on", "quitting"} => \A t \in Timers : st[t] = "ended"
  /\ up \in {"on", "quitting"} => \A t \in Saved : st[t] = "ended" => End(t) <= now
  /\ \A t \in Timers : st[t] # "ended" => t \in Saved

\* No timer is behind its time.
OnSchedule ==
  \A t \in Saved :
    /\ st[t] = "waiting"  => timers[t].begin > now
    /\ st[t] = "prepared" => timers[t].begin >= now
    /\ st[t] = "running"  => End(t) >= now

\* A timer that was due before it was made is prepared before another recording ends.
PreparedFirst ==
  \A u, v \in Saved :
    st[u] = "running" /\ st[v] = "waiting" /\ timers[v].begin - PrepareTime < now => End(u) > now

\* No end that is still to be handled meets a preparation.
Apart ==
  \A u, v \in Saved :
    End(u) > now \/ (End(u) = now /\ st[u] # "ended") => End(u) # timers[v].begin - PrepareTime

\* A box that goes down has either nothing near, or a user who wants it so.
QuitsInTime ==
  up = "quitting" =>
    /\ ready = now /\ Due = {}
    /\ \A t \in Listed \ givenup : st[t] # "running"
    /\ \/ \A t \in Listed : st[t] = "waiting" /\ NextActivation(t) > now + Window
       \/ excused = now + Reboot + BootTime

\* What is still to be recorded, but for what the user gave up: the box is up again before
\* it begins, or as soon as it can.
Future == {t \in Saved \ givenup : End(t) > now}
OffInTime ==
  up = "off" =>
    \A t \in Future : fp >= now /\ (fp + BootTime <= timers[t].begin \/ fp + BootTime <= excused)
UpInTime ==
  up = "boot" /\ now < ready => \A t \in Future : ready <= timers[t].begin \/ ready <= excused

IInv == EntriesOK /\ OnSchedule /\ PreparedFirst /\ Apart /\ QuitsInTime /\ OffInTime /\ UpInTime

LEMMA TimesOf ==
  ASSUME Typed
  PROVE  /\ now \in Nat
         /\ \A t \in Saved :
              /\ t \in Timers /\ st[t] \in States
              /\ timers[t].begin \in Nat
              /\ End(t) = timers[t].begin + Length
              /\ st[t] = "waiting" => NextActivation(t) = timers[t].begin - PrepareTime
              /\ st[t] = "prepared" => NextActivation(t) = timers[t].begin
              /\ st[t] \notin {"waiting", "prepared"} => NextActivation(t) = End(t)
<1>1. now \in Nat
  BY ConstantTypes DEF Typed
<1> QED
  BY <1>1, SavedTypes DEF End, NextActivation

\* Nothing of what IInv is about has changed.
LEMMA NothingHappens ==
  ASSUME IInv, UNCHANGED <<now, up, ready, timers, st, fp, excused, givenup>>
  PROVE  IInv'
<1>1. /\ now' = now /\ up' = up /\ ready' = ready /\ fp' = fp /\ excused' = excused
      /\ givenup' = givenup /\ timers' = timers /\ st' = st
  OBVIOUS
<1>2. /\ Saved' = Saved /\ Listed' = Listed
      /\ \A t : End(t)' = End(t) /\ NextActivation(t)' = NextActivation(t)
  BY <1>1 DEF Saved, Listed, End, NextActivation
<1>3. Due' = Due /\ Future' = Future
  BY <1>1, <1>2 DEF Due, Future
<1> QED
  BY <1>1, <1>2, <1>3 DEF IInv, EntriesOK, OnSchedule, PreparedFirst, Apart, QuitsInTime, OffInTime, UpInTime

\* While the box is on, the rest of IInv says nothing.
LEMMA BoxIsOn ==
  ASSUME up = "on", EntriesOK, OnSchedule, PreparedFirst, Apart
  PROVE  IInv
  BY DEF IInv, QuitsInTime, OffInTime, UpInTime

\* Nothing is due any more when the box goes down, so activations happen when it is on.
LEMMA ActiveIsOn ==
  ASSUME IInv, Looping, NEW t \in Due
  PROVE  up = "on"
  BY DEF IInv, QuitsInTime, Looping

LEMMA PrepareInTime ==
  ASSUME Typed, IInv, NEW t \in Timers, Prepare(t)
  PROVE  IInv'
<1>1. up = "on" /\ t \in Saved /\ st[t] = "waiting"
  BY ActiveIsOn DEF Prepare, Due, Listed
<1>2. /\ now' = now /\ up' = up /\ timers' = timers /\ Saved' = Saved
      /\ st'[t] = "prepared" /\ \A u \in Timers \ {t} : st'[u] = st[u]
      /\ \A u : End(u)' = End(u)
  BY DEF Prepare, power, Saved, End, Typed
<1>3. EntriesOK'
  BY <1>1, <1>2, TimesOf DEF IInv, EntriesOK
<1>4. OnSchedule'
  BY <1>1, <1>2, TimesOf DEF IInv, OnSchedule
<1>5. PreparedFirst'
  BY <1>1, <1>2, TimesOf DEF IInv, PreparedFirst
<1>6. Apart'
  BY <1>1, <1>2, TimesOf DEF IInv, Apart
<1> QED
  BY <1>1, <1>2, <1>3, <1>4, <1>5, <1>6 DEF IInv, QuitsInTime, OffInTime, UpInTime

LEMMA RunInTime ==
  ASSUME Typed, IInv, NEW t \in Timers, Run(t)
  PROVE  IInv'
<1>1. up = "on" /\ t \in Saved /\ st[t] = "prepared"
  BY ActiveIsOn DEF Run, Due, Listed
<1>2. /\ now' = now /\ up' = up /\ timers' = timers /\ Saved' = Saved
      /\ st'[t] = "running" /\ \A u \in Timers \ {t} : st'[u] = st[u]
      /\ \A u : End(u)' = End(u)
  BY DEF Run, power, Saved, End, Typed
<1>0. End(t) > now
  BY <1>1, TimesOf, ConstantTypes DEF IInv, OnSchedule
<1>3. EntriesOK'
  BY <1>1, <1>2, TimesOf DEF IInv, EntriesOK
<1>4. OnSchedule'
  BY <1>0, <1>1, <1>2, TimesOf, ConstantTypes DEF IInv, OnSchedule
<1>5. PreparedFirst'
  BY <1>0, <1>1, <1>2, TimesOf DEF IInv, PreparedFirst
<1>6. Apart'
  BY <1>1, <1>2, TimesOf DEF IInv, Apart
<1> QED
  BY <1>1, <1>2, <1>3, <1>4, <1>5, <1>6 DEF IInv, QuitsInTime, OffInTime, UpInTime

LEMMA EndedInTime ==
  ASSUME Orderly, Typed, IInv, NEW t \in Timers, Ended(t)
  PROVE  IInv'
<1> DEFINE S == Listed \ {t}
<1>1. up = "on" /\ t \in Saved /\ t \in Due /\ st[t] = "running"
  BY ActiveIsOn DEF Ended, Due, Listed
<1>2. /\ now' = now /\ timers' = timers /\ Saved' = Saved
      /\ st'[t] = "ended" /\ \A u \in Timers \ {t} : st'[u] = st[u]
      /\ \A u : End(u)' = End(u)
  BY DEF Ended, Saved, End, Typed
<1>0. End(t) = now
  BY <1>1, TimesOf, SavedTypes DEF IInv, OnSchedule, Due
<1>3. \/ UNCHANGED up
      \/ Quit /\ ~Busy(S)
  <2>1. AfterEvent(t, S)
    BY DEF Ended
  <2>2. CASE Busy(S)
    BY <2>1, <2>2 DEF AfterEvent, StayOn
  <2>3. CASE ~Busy(S) /\ WantsDown(t)
    BY <2>1, <2>3 DEF AfterEvent, StayOn
  <2>4. CASE ~Busy(S) /\ ~WantsDown(t)
    BY <2>1, <2>4 DEF AfterEvent, StayOn
  <2> QED
    BY <2>2, <2>3, <2>4
<1>4. up' \in {"on", "quitting"}
  BY <1>1, <1>3 DEF Quit
<1>5. EntriesOK'
  BY <1>0, <1>1, <1>2, <1>4, TimesOf DEF IInv, EntriesOK
<1>6. OnSchedule'
  BY <1>1, <1>2, TimesOf DEF IInv, OnSchedule
<1>7. PreparedFirst'
  BY <1>1, <1>2, TimesOf DEF IInv, PreparedFirst
<1>8. Apart'
  BY <1>1, <1>2, TimesOf DEF IInv, Apart
<1>9. CASE up' = up
  BY <1>1, <1>5, <1>6, <1>7, <1>8, <1>9 DEF IInv, QuitsInTime, OffInTime, UpInTime
<1>10. CASE Quit /\ ~Busy(S)
  <2>1. up' = "quitting" /\ ready' = now /\ now \in Nat
    BY <1>10, TimesOf, ConstantTypes DEF Quit, Orderly
  <2>2. \A u \in S : st[u] = "waiting" /\ (NextActivation(u) <= now \/ NextActivation(u) > now + Window)
    BY <1>10, NothingNear
  <2>3. \A u \in S : u \in Saved /\ NextActivation(u) = timers[u].begin - PrepareTime
    BY <2>2, TimesOf DEF Listed
  <2>4. ASSUME NEW u \in S PROVE NextActivation(u) > now + Window
    <3>1. timers[u].begin - PrepareTime >= now
      <4>1. ~ (timers[u].begin - PrepareTime < now)
        BY <1>0, <1>1, <2>1, <2>2, <2>3 DEF IInv, PreparedFirst
      <4> QED
        BY <4>1, <2>3, TimesOf, ConstantTypes
    <3>2. timers[u].begin - PrepareTime # now
      BY <1>0, <1>1, <2>3 DEF IInv, Apart
    <3>3. timers[u].begin - PrepareTime \in Int
      BY <2>3, TimesOf, ConstantTypes
    <3>4. ~ (timers[u].begin - PrepareTime <= now)
      BY <3>1, <3>2, <3>3, <2>1
    <3> QED
      BY <3>4, <2>2, <2>3
  <2>5. Listed' = S /\ \A u \in S : st'[u] = st[u] /\ NextActivation(u)' = NextActivation(u)
    <3>1. Listed' = S
      BY <1>1, <1>2 DEF Listed, Saved
    <3>2. \A u \in S : st'[u] = st[u]
      BY <1>2 DEF Listed, Saved
    <3>3. \A u \in S : NextActivation(u)' = NextActivation(u)
      BY <3>2, <1>2 DEF NextActivation
    <3> QED
      BY <3>1, <3>2, <3>3
  <2> HIDE DEF S
  <2>6. Due' = {}
    <3> SUFFICES ASSUME NEW u \in Due' PROVE FALSE
      OBVIOUS
    <3>1. u \in S /\ NextActivation(u)' <= now'
      BY <2>5 DEF Due
    <3>2. NextActivation(u) <= now /\ NextActivation(u) > now + Window
      BY <3>1, <2>4, <2>5, <1>2
    <3> QED
      BY <3>1, <3>2, <2>1, <2>3, TimesOf, ConstantTypes
  <2>7. \A u \in Listed' : (st[u] = "waiting")' /\ (NextActivation(u) > now + Window)'
    BY <1>2, <2>2, <2>4, <2>5
  <2>8. QuitsInTime'
    BY <1>2, <2>1, <2>6, <2>7 DEF QuitsInTime
  <2> QED
    BY <1>5, <1>6, <1>7, <1>8, <2>1, <2>8 DEF IInv, OffInTime, UpInTime
<1> QED
  BY <1>3, <1>9, <1>10

\* The screens quit when nothing is due: nothing is near, or the user has insisted.
LEMMA QuitInTime ==
  ASSUME Orderly, Typed, IInv, Settled, Quit, UNCHANGED <<now, timers, st>>,
         \/ ~Busy(Listed)
         \/ /\ excused' = now + QuitTime + Reboot + BootTime
            /\ givenup' = givenup \cup {t \in Saved : st[t] = "running"}
  PROVE  IInv'
<1>1. up = "on" /\ Due = {} /\ up' = "quitting" /\ ready' = now /\ now \in Nat
  BY TimesOf, ConstantTypes DEF Settled, Quit, Orderly
<1>2. /\ now' = now /\ timers' = timers /\ st' = st
      /\ Saved' = Saved /\ Listed' = Listed
      /\ \A t : End(t)' = End(t) /\ NextActivation(t)' = NextActivation(t)
  BY DEF Saved, Listed, End, NextActivation
<1>3. Due' = {}
  BY <1>1, <1>2 DEF Due
<1>4. EntriesOK' /\ OnSchedule' /\ PreparedFirst' /\ Apart'
  BY <1>1, <1>2 DEF IInv, EntriesOK, OnSchedule, PreparedFirst, Apart
<1>5. QuitsInTime'
  <2>1. CASE ~Busy(Listed)
    <3>1. \A u \in Listed : /\ st[u] = "waiting"
                            /\ NextActivation(u) <= now \/ NextActivation(u) > now + Window
      BY <2>1, NothingNear
    <3>2. \A u \in Listed : st[u] = "waiting" /\ NextActivation(u) > now + Window
      BY <1>1, <3>1 DEF Due
    <3> QED
      BY <1>1, <1>2, <1>3, <3>2 DEF QuitsInTime
  <2>2. CASE /\ excused' = now + QuitTime + Reboot + BootTime
             /\ givenup' = givenup \cup {t \in Saved : st[t] = "running"}
    <3>1. excused' = now + Reboot + BootTime
      BY <1>1, <2>2, ConstantTypes DEF Orderly
    <3>2. \A t \in Listed \ givenup' : st[t] # "running"
      BY <2>2 DEF Listed
    <3> QED
      BY <1>1, <1>2, <1>3, <3>1, <3>2 DEF QuitsInTime
  <2> QED
    BY <2>1, <2>2
<1> QED
  BY <1>1, <1>4, <1>5 DEF IInv, OffInTime, UpInTime

LEMMA AddInTime ==
  ASSUME Orderly, Typed, IInv, NEW t \in Timers, NEW begin \in 1 .. MaxTime, NEW after \in After,
         AddTimer(t, begin, after)
  PROVE  IInv'
<1>1. up = "on" /\ Due = {} /\ up' = up /\ now' = now /\ now \in Nat
  BY TimesOf DEF AddTimer, Settled, power
<1>2. t \notin Saved
  BY MinIsLeast DEF AddTimer, Timers
<1>3. begin \in Nat /\ begin > now
  BY ConstantTypes DEF AddTimer
<1>4. /\ timers'[t] = [begin |-> begin, after |-> after] /\ timers'[t].begin = begin
      /\ st'[t] = "waiting"
      /\ \A u \in Timers \ {t} : timers'[u] = timers[u] /\ st'[u] = st[u]
  BY DEF AddTimer, Typed
<1>5. timers'[t] # NoTimer
  BY <1>3, <1>4, TimesOf DEF NoTimer
<1>6. Saved' = Saved \cup {t}
  BY <1>4, <1>5 DEF Saved
<1>7. /\ \A u \in Saved : End(u)' = End(u) /\ timers'[u] = timers[u] /\ st'[u] = st[u] /\ u # t
      /\ End(t)' = begin + Length
  BY <1>2, <1>4 DEF End, Saved
<1>8. \A u \in Listed : End(u) # begin - PrepareTime /\ begin + Length # timers[u].begin - PrepareTime
  BY DEF AddTimer, Orderly
<1>9. EntriesOK'
  <2>1. \A u \in Saved' : st'[u] = "ended" => (End(u) <= now)'
    BY <1>1, <1>4, <1>6, <1>7 DEF IInv, EntriesOK
  <2>2. \A u \in Timers : st'[u] # "ended" => u \in Saved'
    BY <1>4, <1>6 DEF IInv, EntriesOK
  <2> QED
    BY <1>1, <2>1, <2>2 DEF EntriesOK
<1>10. OnSchedule'
  BY <1>1, <1>3, <1>4, <1>6, <1>7 DEF IInv, OnSchedule
<1>11. PreparedFirst'
  <2>1. \A u \in Saved : st[u] = "running" => End(u) > now
    <3> SUFFICES ASSUME NEW u \in Saved, st[u] = "running" PROVE End(u) > now
      OBVIOUS
    <3>1. u \notin Due /\ u \in Listed /\ NextActivation(u) = End(u)
      BY <1>1, TimesOf DEF Listed
    <3> QED
      BY <3>1, SavedTypes, <1>1 DEF Due
  <2> QED
    BY <1>1, <1>4, <1>6, <1>7, <2>1 DEF PreparedFirst
<1>12. Apart'
  <2> SUFFICES ASSUME NEW u \in Saved', NEW v \in Saved',
                      (End(u) > now \/ (End(u) = now /\ st[u] # "ended"))'
               PROVE  (End(u) # timers[v].begin - PrepareTime)'
    BY DEF Apart
  <2>1. CASE u \in Saved /\ v \in Saved
    BY <1>1, <1>7, <2>1 DEF IInv, Apart
  <2>2. CASE u \in Saved /\ v = t
    <3>1. st[u] # "ended"
      BY <1>1, <1>7, <2>2, SavedTypes DEF IInv, EntriesOK
    <3>2. u \in Listed
      BY <2>2, <3>1 DEF Listed
    <3> QED
      BY <1>4, <1>7, <1>8, <2>2, <3>2
  <2>3. CASE u = t /\ v \in Saved
    <3>1. CASE v \in Listed
      BY <1>4, <1>7, <1>8, <2>3, <3>1
    <3>2. CASE v \notin Listed
      <4>1. End(v) <= now
        BY <1>1, <2>3, <3>2 DEF Listed, IInv, EntriesOK
      <4>2. timers[v].begin - PrepareTime < begin + Length
        BY <4>1, <1>1, <1>3, <2>3, TimesOf, ConstantTypes
      <4>3. timers[v].begin \in Nat
        BY <2>3, TimesOf
      <4> QED
        BY <1>3, <1>7, <2>3, <4>2, <4>3, ConstantTypes
    <3> QED
      BY <3>1, <3>2
  <2>4. CASE u = t /\ v = t
    BY <1>3, <1>4, <1>7, <2>4, ConstantTypes
  <2> QED
    BY <1>6, <2>1, <2>2, <2>3, <2>4
<1> QED
  BY <1>1, <1>9, <1>10, <1>11, <1>12 DEF IInv, QuitsInTime, OffInTime, UpInTime

\* The wake-up time that is set when the box goes down is early enough for all that is to
\* be recorded yet.
LEMMA WakeIsEarly ==
  ASSUME Orderly, Typed, IInv, up = "quitting", NEW t \in Future
  PROVE  LET next == NextTimerTime(Listed)
         IN  /\ next # Never
             /\ WakeTime(next) >= now
             /\ WakeTime(next) + BootTime <= timers[t].begin \/ WakeTime(next) + BootTime <= excused
<1> DEFINE next == NextTimerTime(Listed)
<1>1. ready = now /\ Due = {} /\ now \in Nat /\ excused \in Nat
  BY TimesOf DEF IInv, QuitsInTime, Typed
<1>2. t \in Saved /\ End(t) > now /\ t \notin givenup
  BY DEF Future
<1>3. t \in Listed
  BY <1>1, <1>2, TimesOf, ConstantTypes DEF IInv, EntriesOK, Listed
<1>4. st[t] \in {"waiting", "prepared"}
  BY <1>2, <1>3, TimesOf DEF IInv, QuitsInTime, Listed, States
<1>5. timers[t].begin \in Nat /\ NextActivation(t) \in Int /\ NextActivation(t) <= timers[t].begin
  BY <1>2, <1>4, TimesOf, ConstantTypes
<1>6. \A u \in Listed : NextActivation(u) \in Int /\ NextActivation(u) > now
  <2> SUFFICES ASSUME NEW u \in Listed PROVE NextActivation(u) \in Int /\ NextActivation(u) > now
    OBVIOUS
  <2>1. NextActivation(u) \in Int
    BY SavedTypes DEF Listed
  <2>2. ~ (NextActivation(u) <= now)
    BY <1>1 DEF Due
  <2> QED
    BY <2>1, <2>2, <1>1
<1>7. /\ next \in Nat /\ next > now /\ next <= NextActivation(t)
      /\ \E u \in Listed : next = NextActivation(u)
  <2>1. ~ \A u \in Listed : NextActivation(u) <= now
    BY <1>1, <1>3, <1>6
  <2> QED
    BY <2>1, <1>3, <1>6, NextIsEarliest DEF Listed
<1>8. \/ \A u \in Listed : NextActivation(u) > now + Window
      \/ excused = now + Reboot + BootTime
  BY DEF IInv, QuitsInTime
<1> HIDE DEF next
<1>9. CASE next - now <= Lead + Reboot
  <2>1. WakeTime(next) = now + Reboot
    BY <1>9 DEF WakeTime
  <2>2. excused = now + Reboot + BootTime
    <3>1. ~ (next > now + Window)
      BY <1>1, <1>7, <1>9, ConstantTypes
    <3> QED
      BY <1>7, <1>8, <3>1
  <2>3. WakeTime(next) + BootTime <= excused /\ WakeTime(next) >= now
    BY ONLY <1>1, <2>1, <2>2, ConstantTypes
  <2>4. next # Never
    BY <1>7 DEF Never
  <2> QED
    BY <2>3, <2>4 DEF next
<1>10. CASE ~ (next - now <= Lead + Reboot)
  <2>1. WakeTime(next) = next - Lead
    BY <1>10 DEF WakeTime
  <2>2. next - Lead + BootTime <= timers[t].begin
    BY <1>5, <1>7, ConstantTypes
  <2>3. next - Lead >= now
    BY <1>1, <1>7, <1>10, ConstantTypes
  <2>4. next # Never
    BY <1>7 DEF Never
  <2> QED
    BY <2>1, <2>2, <2>3, <2>4 DEF next
<1> QED
  BY <1>9, <1>10

LEMMA ShutdownInTime ==
  ASSUME Orderly, Typed, IInv, Shutdown
  PROVE  IInv'
<1>1. up = "quitting" /\ up' = "off" /\ now' = now /\ timers' = timers /\ excused' = excused
      /\ givenup' = givenup /\ Saved' = Saved /\ \A t \in Timers : st'[t] = "ended"
  BY DEF Shutdown, Forget, Saved
<1>2. \A t : End(t)' = End(t)
  BY <1>1 DEF End
<1>3. EntriesOK' /\ OnSchedule' /\ PreparedFirst'
  BY <1>1 DEF EntriesOK, OnSchedule, PreparedFirst, Saved
<1>4. Apart'
  BY <1>1, <1>2 DEF IInv, Apart, Saved
<1>5. OffInTime'
  <2> SUFFICES ASSUME NEW t \in Future'
               PROVE  fp' >= now /\ (fp' + BootTime <= timers[t].begin \/ fp' + BootTime <= excused)
    BY <1>1 DEF OffInTime
  <2>1. t \in Future
    BY <1>1, <1>2 DEF Future
  <2>2. fp' = IF NextTimerTime(Listed) = Never THEN fp ELSE WakeTime(NextTimerTime(Listed))
    BY DEF Shutdown
  <2> QED
    BY <1>1, <2>1, <2>2, WakeIsEarly
<1> QED
  BY <1>1, <1>3, <1>4, <1>5 DEF IInv, QuitsInTime, UpInTime

LEMMA PowerUpInTime ==
  ASSUME Typed, IInv, up \in {"off", "cut"}, NEW by, PowerUp(by),
         (up = "off" /\ UNCHANGED excused) \/ (up = "cut" /\ excused' = now + BootTime)
  PROVE  IInv'
<1>1. up' = "boot" /\ ready' = now + BootTime /\ now' = now /\ timers' = timers /\ st' = st
      /\ givenup' = givenup /\ Saved' = Saved
  BY DEF PowerUp, Saved
<1>2. \A t : End(t)' = End(t)
  BY <1>1 DEF End
<1>3. EntriesOK' /\ OnSchedule' /\ PreparedFirst' /\ Apart'
  BY <1>1, <1>2 DEF IInv, EntriesOK, OnSchedule, PreparedFirst, Apart
<1>4. UpInTime'
  <2> SUFFICES ASSUME NEW t \in Future' PROVE ready' <= timers[t].begin \/ ready' <= excused'
    BY <1>1 DEF UpInTime
  <2>1. t \in Future /\ timers[t].begin \in Nat /\ now \in Nat
    BY <1>1, <1>2, TimesOf DEF Future
  <2>2. CASE up = "off" /\ UNCHANGED excused
    <3>1. fp >= now /\ (fp + BootTime <= timers[t].begin \/ fp + BootTime <= excused)
      BY <2>1, <2>2 DEF IInv, OffInTime
    <3>2. fp \in Int /\ excused \in Nat
      BY DEF Typed, Never
    <3> QED
      BY <1>1, <2>1, <2>2, <3>1, <3>2, ConstantTypes
  <2>3. CASE excused' = now + BootTime
    BY <1>1, <2>1, <2>3, ConstantTypes
  <2> QED
    BY <2>2, <2>3
<1> QED
  BY <1>1, <1>3, <1>4 DEF IInv, QuitsInTime, OffInTime

LEMMA CutInTime ==
  ASSUME IInv, PowerCut
  PROVE  IInv'
<1>1. up' = "cut" /\ now' = now /\ timers' = timers /\ Saved' = Saved /\ \A t \in Timers : st'[t] = "ended"
  BY DEF PowerCut, Forget, Saved
<1>2. \A t : End(t)' = End(t)
  BY <1>1 DEF End
<1>3. EntriesOK' /\ OnSchedule' /\ PreparedFirst'
  BY <1>1 DEF EntriesOK, OnSchedule, PreparedFirst, Saved
<1>4. Apart'
  BY <1>1, <1>2 DEF IInv, Apart, Saved
<1> QED
  BY <1>1, <1>3, <1>4 DEF IInv, QuitsInTime, OffInTime, UpInTime

\* loadTimer finds for each timer the state it would have been in.
LEMMA BootInTime ==
  ASSUME Typed, IInv, Boot
  PROVE  IInv'
<1>1. up' = "on" /\ now' = now /\ timers' = timers /\ Saved' = Saved
      /\ \A t \in Timers : st'[t] = Loaded(t)
  BY DEF Boot, Saved
<1>2. \A t : End(t)' = End(t)
  BY <1>1 DEF End
<1>3. \A t \in Saved : /\ t \in Timers
                       /\ st'[t] = "ended" => End(t) <= now
                       /\ st'[t] # "ended" => End(t) > now
                       /\ st'[t] = "waiting" => timers[t].begin - PrepareTime > now
                       /\ st'[t] = "prepared" => timers[t].begin > now
  <2> SUFFICES ASSUME NEW t \in Saved
               PROVE /\ t \in Timers
                     /\ st'[t] = "ended" => End(t) <= now
                     /\ st'[t] # "ended" => End(t) > now
                     /\ st'[t] = "waiting" => timers[t].begin - PrepareTime > now
                     /\ st'[t] = "prepared" => timers[t].begin > now
    OBVIOUS
  <2>1. t \in Timers /\ st'[t] = Loaded(t) /\ timers[t].begin \in Nat /\ now \in Nat /\ End(t) \in Nat
    BY <1>1, SavedTypes, TimesOf
  <2>2. CASE End(t) <= now
    BY <2>1, <2>2 DEF Loaded
  <2>3. CASE End(t) > now /\ timers[t].begin <= now
    BY <2>1, <2>3 DEF Loaded
  <2>4. CASE End(t) > now /\ timers[t].begin > now /\ timers[t].begin - PrepareTime <= now
    BY <2>1, <2>4 DEF Loaded
  <2>5. CASE End(t) > now /\ timers[t].begin > now /\ timers[t].begin - PrepareTime > now
    BY <2>1, <2>5 DEF Loaded
  <2> QED
    BY <2>1, <2>2, <2>3, <2>4, <2>5, ConstantTypes
<1>4. EntriesOK'
  <2>1. \A t \in Timers : st'[t] # "ended" => t \in Saved
    BY <1>1 DEF Loaded
  <2> QED
    BY <1>1, <1>2, <1>3, <2>1 DEF EntriesOK
<1>5. OnSchedule'
  BY <1>1, <1>2, <1>3, TimesOf, ConstantTypes DEF OnSchedule
<1>6. PreparedFirst'
  BY <1>1, <1>3, TimesOf, ConstantTypes DEF PreparedFirst
<1>7. Apart'
  BY <1>1, <1>2, <1>3, TimesOf, ConstantTypes DEF IInv, Apart
<1> QED
  BY <1>1, <1>4, <1>5, <1>6, <1>7 DEF IInv, QuitsInTime, OffInTime, UpInTime

\* What a tick does to the timers: those that are over keep an end that is past.
LEMMA TickTimes ==
  ASSUME Typed, Tick, NEW t \in Saved
  PROVE  /\ t \in Saved'
         /\ timers'[t].begin \in Nat /\ End(t)' = timers'[t].begin + Length
         /\ \/ End(t) > now /\ timers'[t] = timers[t] /\ End(t)' = End(t)
               /\ (t \in givenup => t \in givenup')
            \/ End(t) <= now /\ End(t)' <= now
         /\ timers'[t].begin = timers[t].begin \/ timers'[t].begin = 0
<1>1. now' = now + 1 /\ now \in Nat
  BY TimesOf DEF Tick
<1>2. /\ timers[t] \in Entry /\ t \in Timers /\ timers[t].begin \in Nat /\ End(t) = timers[t].begin + Length
  BY SavedTypes, TimesOf
<1>3. Typed'
  BY TypesStep DEF Next
<1>4. timers'[t] = IF End(t) < now' THEN [timers[t] EXCEPT !.begin = 0] ELSE timers[t]
  BY <1>2 DEF Tick
<1>5. End(t)' = timers'[t].begin + Length
  BY DEF End
<1>6. CASE End(t) < now'
  <2>1. timers'[t].begin = 0
    BY <1>2, <1>4, <1>6 DEF Entry
  <2>2. t \in Saved'
    BY <1>2, <2>1 DEF Saved, NoTimer
  <2> QED
    BY <1>1, <1>2, <1>5, <1>6, <2>1, <2>2, ConstantTypes
<1>7. CASE ~ (End(t) < now')
  <2>1. timers'[t] = timers[t]
    BY <1>4, <1>7
  <2>2. t \in Saved'
    BY <2>1 DEF Saved
  <2>3. t \in givenup => t \in givenup'
    BY <1>7 DEF Tick
  <2> QED
    BY <1>1, <1>2, <1>5, <1>7, <2>1, <2>2, <2>3, ConstantTypes
<1> QED
  BY <1>6, <1>7

LEMMA TickInTime ==
  ASSUME Typed, IInv, Tick
  PROVE  IInv'
<1>1. now' = now + 1 /\ now \in Nat /\ up' = up /\ ready' = ready /\ st' = st
      /\ ready \in Nat /\ excused \in Nat /\ fp \in Int
  BY TimesOf DEF Tick, Typed, Never
<1>2. \A t \in Saved' : t \in Saved
  <2> SUFFICES ASSUME NEW t \in Timers, t \in Saved', t \notin Saved PROVE FALSE
    BY DEF Saved
  <2>1. timers'[t] = timers[t]
    BY DEF Tick
  <2> QED
    BY <2>1 DEF Saved
<1>3. up # "quitting"
  <2> SUFFICES ASSUME up = "quitting" PROVE FALSE
    OBVIOUS
  <2>1. now < ready
    BY DEF Tick, AtRest
  <2> QED
    BY <1>1, <2>1 DEF IInv, QuitsInTime
<1>4. ASSUME up = "on", NEW t \in Saved, st[t] # "ended"
      PROVE /\ NextActivation(t) > now
            /\ st[t] = "waiting" => timers[t].begin - PrepareTime > now
            /\ st[t] = "prepared" => timers[t].begin > now
            /\ End(t) > now
  <2>1. NextActivation(t) \in Int
    BY SavedTypes
  <2>2. ~ (NextActivation(t) <= now)
    BY <1>4 DEF Tick, AtRest, Due, Listed
  <2>3. NextActivation(t) > now
    BY <1>1, <2>1, <2>2
  <2> QED
    BY <1>1, <1>4, <2>3, TimesOf, ConstantTypes
<1>5. EntriesOK'
  <2>1. \A t \in Timers : st[t] # "ended" => t \in Saved'
    BY TickTimes DEF IInv, EntriesOK
  <2>2. ASSUME up = "on", NEW t \in Saved', st[t] = "ended" PROVE (End(t) <= now)'
    <3>1. End(t) <= now /\ End(t)' \in Nat
      BY <1>2, <2>2, TickTimes, ConstantTypes DEF IInv, EntriesOK
    <3>2. End(t)' <= now
      BY <1>1, <1>2, <3>1, TickTimes, SavedTypes
    <3> QED
      BY <1>1, <3>1, <3>2
  <2> QED
    BY <1>1, <1>3, <2>1, <2>2 DEF IInv, EntriesOK
<1>6. OnSchedule'
  <2> SUFFICES ASSUME NEW t \in Saved', st[t] # "ended"
               PROVE  /\ st[t] = "waiting" => timers'[t].begin > now'
                      /\ st[t] = "prepared" => timers'[t].begin >= now'
                      /\ End(t)' >= now'
    BY <1>1 DEF OnSchedule
  <2>1. t \in Saved /\ up = "on"
    BY <1>2, <1>3, SavedTypes DEF IInv, EntriesOK
  <2>2. timers'[t] = timers[t] /\ End(t)' = End(t) /\ End(t) \in Nat /\ timers[t].begin \in Nat
    BY <1>1, <1>4, <2>1, TickTimes, SavedTypes
  <2> QED
    BY <1>1, <1>4, <2>1, <2>2, ConstantTypes
<1>7. PreparedFirst'
  <2> SUFFICES ASSUME NEW v \in Saved', st[v] = "waiting"
               PROVE  ~ (timers'[v].begin - PrepareTime < now')
    BY <1>1 DEF PreparedFirst
  <2>1. v \in Saved /\ up = "on"
    BY <1>2, <1>3, SavedTypes DEF IInv, EntriesOK
  <2>2. timers'[v] = timers[v] /\ timers[v].begin \in Nat
    BY <1>1, <1>4, <2>1, TickTimes, SavedTypes
  <2> QED
    BY <1>1, <1>4, <2>1, <2>2, ConstantTypes
<1>8. Apart'
  <2> SUFFICES ASSUME NEW u \in Saved', NEW v \in Saved',
                      (End(u) > now \/ (End(u) = now /\ st[u] # "ended"))'
               PROVE  (End(u) # timers[v].begin - PrepareTime)'
    BY DEF Apart
  <2>1. u \in Saved /\ v \in Saved
    BY <1>2
  <2>2. End(u)' >= now' /\ End(u) \in Nat /\ End(u)' \in Nat
    BY <1>1, <2>1, TickTimes, SavedTypes, ConstantTypes
  <2>3. End(u) > now /\ End(u)' = End(u)
    <3>1. ~ (End(u)' <= now)
      BY <1>1, <2>2
    <3> QED
      BY <2>1, <3>1, TickTimes
  <2>4. End(u) # timers[v].begin - PrepareTime
    BY <2>1, <2>3 DEF IInv, Apart
  <2>5. timers'[v].begin = timers[v].begin \/ timers'[v].begin = 0
    BY <2>1, TickTimes
  <2>6. End(u)' # 0 - PrepareTime
    BY <2>2, ConstantTypes
  <2> QED
    BY <2>3, <2>4, <2>5, <2>6
<1>9. \A t \in Future' : t \in Future /\ timers'[t] = timers[t] /\ timers[t].begin \in Nat
  <2> SUFFICES ASSUME NEW t \in Future'
               PROVE  t \in Future /\ timers'[t] = timers[t] /\ timers[t].begin \in Nat
    OBVIOUS
  <2>1. t \in Saved' /\ t \notin givenup' /\ (End(t) > now)'
    BY DEF Future
  <2>2. t \in Saved
    BY <1>2, <2>1
  <2>3. End(t)' \in Nat /\ timers[t].begin \in Nat
    BY <2>2, TickTimes, SavedTypes, ConstantTypes
  <2>4. ~ (End(t)' <= now)
    BY <1>1, <2>1, <2>3
  <2> QED
    BY <2>1, <2>2, <2>3, <2>4, TickTimes DEF Future
<1>10. excused > now + 1 => excused' = excused
  <2>1. excused' = IF excused <= now' THEN 0 ELSE excused
    BY DEF Tick
  <2> QED
    BY <1>1, <2>1
<1>11. OffInTime'
  <2> SUFFICES ASSUME up = "off", NEW t \in Future'
               PROVE  fp' >= now' /\ (fp' + BootTime <= timers'[t].begin \/ fp' + BootTime <= excused')
    BY <1>1 DEF OffInTime
  <2>1. fp >= now /\ (fp + BootTime <= timers[t].begin \/ fp + BootTime <= excused)
    BY <1>9 DEF IInv, OffInTime
  <2>2. fp # now
    BY DEF Tick, AtRest
  <2>3. fp >= now + 1
    BY <1>1, <2>1, <2>2
  <2>4. fp' = fp
    <3>1. fp' = IF fp < now' THEN Never ELSE fp
      BY DEF Tick
    <3> QED
      BY <1>1, <2>3, <3>1
  <2>5. CASE fp + BootTime <= timers[t].begin
    BY <1>1, <1>9, <2>3, <2>4, <2>5
  <2>6. CASE fp + BootTime <= excused
    <3>1. excused > now + 1
      BY <1>1, <2>3, <2>6, ConstantTypes
    <3> QED
      BY <1>1, <1>10, <2>3, <2>4, <2>6, <3>1
  <2> QED
    BY <2>1, <2>5, <2>6
<1>12. UpInTime'
  <2> SUFFICES ASSUME up = "boot", now' < ready', NEW t \in Future'
               PROVE  ready' <= timers'[t].begin \/ ready' <= excused'
    BY <1>1 DEF UpInTime
  <2>1. now + 1 < ready /\ now < ready
    BY <1>1
  <2>2. ready <= timers[t].begin \/ ready <= excused
    BY <1>9, <2>1 DEF IInv, UpInTime
  <2>3. CASE ready <= excused
    <3>1. excused > now + 1
      BY <1>1, <2>1, <2>3
    <3> QED
      BY <1>1, <1>10, <2>3, <3>1
  <2> QED
    BY <1>1, <1>9, <2>2, <2>3
<1> QED
  BY <1>1, <1>3, <1>5, <1>6, <1>7, <1>8, <1>11, <1>12 DEF IInv, QuitsInTime

LEMMA InTimeInit == Init => IInv
<1> SUFFICES ASSUME Init PROVE IInv
  OBVIOUS
<1>1. Saved = {} /\ \A t \in Timers : st[t] = "ended"
  BY DEF Init, Saved
<1> QED
  BY <1>1 DEF Init, IInv, EntriesOK, OnSchedule, PreparedFirst, Apart, QuitsInTime, OffInTime, UpInTime

LEMMA InTimeStep == Orderly /\ Typed /\ IInv /\ [Next]_vars => IInv'
<1> SUFFICES ASSUME Orderly, Typed, IInv, [Next]_vars PROVE IInv'
  OBVIOUS
<1>1. Activation => IInv'
  BY PrepareInTime, RunInTime, EndedInTime DEF Activation
<1>2. ASSUME Settled, OpenTryQuit, UNCHANGED <<now, timers, st, fp, excused, givenup>> PROVE IInv'
  <2>1. CASE Busy(Listed)
    BY <1>2, <2>1, NothingHappens DEF OpenTryQuit, StayOn
  <2>2. CASE ~Busy(Listed)
    BY <1>2, <2>2, QuitInTime DEF OpenTryQuit
  <2> QED
    BY <2>1, <2>2
<1>3. ASSUME ShowNotification PROVE IInv'
  BY <1>2, <1>3, NothingHappens DEF ShowNotification, StayOn
<1>4. UserAnswers \/ DialogTimesOut => IInv'
  BY NothingHappens DEF UserAnswers, DialogTimesOut, AnswerNotification, power
<1>5. ASSUME StandbyTimeout PROVE IInv'
  <2>1. CASE Busy(Listed)
    BY <1>5, <2>1, NothingHappens DEF StandbyTimeout, StayOn
  <2>2. CASE ~Busy(Listed)
    BY <1>5, <2>2, QuitInTime DEF StandbyTimeout
  <2> QED
    BY <2>1, <2>2
<1>6. ASSUME NEW yes \in BOOLEAN, AnswerQuit(yes) PROVE IInv'
  <2>1. CASE yes
    BY <1>6, <2>1, QuitInTime DEF AnswerQuit
  <2>2. CASE ~yes
    BY <1>6, <2>2, NothingHappens DEF AnswerQuit, StayOn
  <2> QED
    BY <2>1, <2>2
<1>7. AskShutdown => IInv'
  BY <1>2 DEF AskShutdown
<1>8. EnterStandby \/ LeaveStandby => IInv'
  BY NothingHappens DEF EnterStandby, LeaveStandby, power
<1>9. WakeUp => IInv'
  BY PowerUpInTime DEF WakeUp
<1>10. PowerOn => IInv'
  BY PowerUpInTime DEF PowerOn
<1>11. PowerBack => IInv'
  BY PowerUpInTime DEF PowerBack
<1>12. User => IInv'
  BY <1>4, <1>6, <1>7, <1>8, <1>10, AddInTime DEF User
<1>13. UNCHANGED vars => IInv'
  BY NothingHappens DEF vars
<1> QED
  BY <1>1, <1>3, <1>4, <1>5, <1>9, <1>11, <1>12, <1>13, ShutdownInTime, CutInTime, BootInTime, TickInTime
     DEF Next

LEMMA InTimeHolds == Typed /\ IInv => RecordsInTime
<1> SUFFICES ASSUME Typed, IInv, NEW t \in Saved \ givenup, timers[t].begin <= now, now < End(t),
                    excused <= now, up # "cut", AtRest
             PROVE  up = "on" /\ st[t] = "running"
  BY DEF RecordsInTime
<1>1. now \in Nat /\ timers[t].begin \in Nat /\ excused \in Nat /\ fp \in Int /\ ready \in Nat /\ End(t) \in Nat
  BY TimesOf, SavedTypes DEF Typed, Never
<1>2. t \in Future
  BY <1>1 DEF Future
<1>3. up # "off"
  <2> SUFFICES ASSUME up = "off" PROVE FALSE
    OBVIOUS
  <2>1. fp >= now /\ (fp + BootTime <= timers[t].begin \/ fp + BootTime <= excused)
    BY <1>2 DEF IInv, OffInTime
  <2> QED
    BY <1>1, <2>1, ConstantTypes
<1>4. up # "boot"
  <2> SUFFICES ASSUME up = "boot" PROVE FALSE
    OBVIOUS
  <2>1. now < ready
    BY DEF AtRest
  <2>2. ready <= timers[t].begin \/ ready <= excused
    BY <1>2, <2>1 DEF IInv, UpInTime
  <2> QED
    BY <1>1, <2>1, <2>2
<1>5. up # "quitting"
  <2> SUFFICES ASSUME up = "quitting" PROVE FALSE
    OBVIOUS
  <2> QED
    BY <1>1 DEF AtRest, IInv, QuitsInTime
<1>6. up = "on"
  BY <1>3, <1>4, <1>5 DEF Typed
<1>7. st[t] # "ended"
  BY <1>1, <1>6 DEF IInv, EntriesOK
<1>8. ~ (NextActivation(t) <= now)
  BY <1>6, <1>7 DEF AtRest, Due, Listed
<1>9. st[t] \notin {"waiting", "prepared"}
  BY <1>1, <1>8, TimesOf, ConstantTypes
<1> QED
  BY <1>6, <1>7, <1>9, SavedTypes DEF States

\* A box that is switched off, asleep, woken by the front processor or by its user is up in
\* time for each recording and records it from its begin to its end, but for those the user
\* gave up and what mains failures cost: the wake-up time of mytest.py, the decisions of
\* afterEvent and loadTimer work together, for all timers and all times that are Orderly.
THEOREM RecordsInTimeAlways ==
  ASSUME Orderly
  PROVE  Spec => []RecordsInTime
<1>1. Init => Typed /\ IInv
  BY TypesInit, InTimeInit
<1>2. Typed /\ IInv /\ [Next]_vars => (Typed /\ IInv)'
  BY TypesStep, InTimeStep
<1> QED
  BY <1>1, <1>2, InTimeHolds, PTL DEF Spec

=============================================================================
