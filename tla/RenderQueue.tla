----------------------------- MODULE RenderQueue -----------------------------
(***************************************************************************)
(* gRC (lib/gdi/grc.cpp): the ring buffer through which the main thread    *)
(* hands drawing operations to the rendering thread, the notifications     *)
(* that come back through a message pump, and the spinner the rendering    *)
(* thread shows while the main thread is busy.                             *)
(*                                                                         *)
(* A critical section that nobody outside can see half done is one action. *)
(* The render thread's look at the main loop is two: eMainloop changes     *)
(* m_is_idle and m_idle_count without the mutex.                           *)
(***************************************************************************)
EXTENDS Integers, Sequences

CONSTANTS
  MaxSize,     \* MAXSIZE: slots of the ring
  Kinds,       \* what painters submit: "paint" is any operation that only draws
  MaxOps,      \* bound: operations the main thread submits
  MaxTurns     \* bound: turns of the main loop

ASSUME SizeAssumption == MaxSize \in Nat \ {0, 1}
ASSUME KindsAssumption == "shutdown" \notin Kinds
ASSUME BoundAssumption == MaxOps \in Nat /\ MaxTurns \in Nat

VARIABLES
  queue, rp, wp,
  rpc, op,       \* render thread: program counter, the operation it copied
  need_notify,
  spinner,       \* m_spinner_enabled
  onoff,         \* m_spinneronoff: 1 until a plugin sets it to 0 or to a number (2 for all)
  dc,            \* m_spinner_dc is set
  prev,          \* m_prev_idle_count
  screen,        \* the picture, as the last operation it shows
  saved,         \* gDC::m_spinner_saved, likewise
  done,          \* the last operation executed
  mpc, cur,      \* main thread: program counter, the operation it submits
  sent,          \* operations submitted
  idle, count,   \* m_is_idle, m_idle_count
  pump           \* messages in m_notify_pump

ring == <<queue, rp, wp>>
render == <<rpc, op, need_notify, prev, done>>
picture == <<spinner, screen, saved>>
main == <<mpc, cur, sent>>
loop == <<idle, count>>
mainSide == <<onoff, dc, main, loop>>
vars == <<ring, render, picture, mainSide, pump>>

Operations == [kind : Kinds \cup {"shutdown"}, id : Nat]
NoOp == [kind |-> "shutdown", id |-> 0]

\* Mutant of Following: the pointer does not wrap.
NoWrap(p) == p + 1

Following(p) == IF p + 1 = MaxSize THEN 0 ELSE p + 1

\* Mutant of Full: the ring takes one operation too many.
NeverFull == FALSE

Full == Following(wp) = rp
Empty == rp = wp

\* enableSpinner, gDC::enableSpinner and incrementSpinner
EnableSpinner ==
  /\ spinner' = (spinner \/ dc)
  /\ saved' = IF dc /\ onoff # 0 /\ ~spinner THEN screen ELSE saved
  /\ screen' = IF dc /\ onoff # 0 THEN saved' ELSE screen

\* disableSpinner and gDC::disableSpinner
DisableSpinner ==
  /\ spinner' = FALSE
  /\ screen' = IF spinner THEN saved ELSE screen
  /\ UNCHANGED saved

-----------------------------------------------------------------------------
(* The main thread: its loop, and submit                                    *)

MainPcs == {"busy", "submit", "retry", "turn", "poll", "join", "gone"}

\* A handler paints something (gPainter).
Paint ==
  /\ mpc = "busy" /\ sent < MaxOps
  /\ \E kind \in Kinds : cur' = [kind |-> kind, id |-> sent + 1]
  /\ mpc' = "submit"
  /\ UNCHANGED <<ring, render, picture, onoff, dc, sent, loop, pump>>

\* ~gRC
Destroy ==
  /\ mpc = "busy"
  /\ cur' = [kind |-> "shutdown", id |-> sent + 1]
  /\ mpc' = "submit"
  /\ UNCHANGED <<ring, render, picture, onoff, dc, sent, loop, pump>>

\* Mutants of Wakes: no flush wakes the thread; a thread may sleep through shutdown.
WakesForShutdown(o) == o.kind = "shutdown"
WakesForFlush(o) == o.kind = "flush"

\* The operations for which submit signals the condition.
Wakes(o) == o.kind \in {"flush", "shutdown", "notify"}

\* Mutant of Signal: submit does not wake the thread.
NoSignal == UNCHANGED rpc

\* pthread_cond_signal: nothing happens unless the thread waits.
Signal == rpc' = IF rpc = "wait" THEN "woken" ELSE rpc

\* submit: one turn of its loop, under the mutex.
TrySubmit ==
  /\ mpc = "submit" /\ rpc # "count"
  /\ \/ /\ Full
        /\ Signal
        /\ mpc' = "retry"
        /\ UNCHANGED <<queue, wp, sent>>
     \/ /\ ~Full
        /\ queue' = [queue EXCEPT ![wp] = cur]
        /\ wp' = Following(wp)
        /\ IF Wakes(cur) THEN Signal ELSE UNCHANGED rpc
        /\ sent' = cur.id
        /\ mpc' = IF cur.kind = "shutdown" THEN "join" ELSE "busy"
  /\ UNCHANGED <<rp, op, need_notify, prev, done, picture, onoff, dc, cur, loop, pump>>

\* usleep(1000)
Retry ==
  /\ mpc = "retry"
  /\ mpc' = "submit"
  /\ UNCHANGED <<ring, render, picture, onoff, dc, cur, sent, loop, pump>>

\* pthread_join in ~gRC
Join ==
  /\ mpc = "join" /\ rpc = "gone"
  /\ mpc' = "gone"
  /\ UNCHANGED <<ring, render, picture, onoff, dc, cur, sent, loop, pump>>

\* processOneEvent: m_is_idle = 1; ++m_idle_count; poll; m_is_idle = 0.
HandlersDone ==
  /\ mpc = "busy" /\ count < MaxTurns
  /\ mpc' = "turn"
  /\ idle' = TRUE
  /\ UNCHANGED <<ring, render, picture, onoff, dc, cur, sent, count, pump>>

EnterPoll ==
  /\ mpc = "turn"
  /\ mpc' = "poll"
  /\ count' = count + 1
  /\ UNCHANGED <<ring, render, picture, onoff, dc, cur, sent, idle, pump>>

\* poll returns; eFixedMessagePump::do_recv takes every message there is.
LeavePoll ==
  /\ mpc = "poll"
  /\ mpc' = "busy"
  /\ idle' = FALSE
  /\ pump' = 0
  /\ UNCHANGED <<ring, render, picture, onoff, dc, cur, sent, count>>

SetSpinnerDC ==
  /\ mpc = "busy" /\ ~dc
  /\ dc' = TRUE
  /\ UNCHANGED <<ring, render, picture, onoff, main, loop, pump>>

SetSpinnerOnOff ==
  /\ mpc = "busy"
  /\ onoff' \in {0, 2}
  /\ UNCHANGED <<ring, render, picture, dc, main, loop, pump>>

-----------------------------------------------------------------------------
(* The render thread                                                        *)

RenderPcs == {"top", "exec", "wait", "woken", "timedout", "count", "gone"}

\* Mutant of Take: the spinner stays while something is painted.
TakeUnderSpinner ==
  /\ rpc = "top" /\ ~Empty
  /\ op' = queue[rp]
  /\ rp' = Following(rp)
  /\ rpc' = "exec"
  /\ UNCHANGED <<queue, wp, need_notify, prev, done, picture, mainSide, pump>>

\* An operation is there: hide the spinner, copy the operation, unlock.
Take ==
  /\ rpc = "top" /\ ~Empty
  /\ DisableSpinner
  /\ op' = queue[rp]
  /\ rp' = Following(rp)
  /\ rpc' = "exec"
  /\ UNCHANGED <<queue, wp, need_notify, prev, done, mainSide, pump>>

\* ... and execute it.
Execute ==
  /\ rpc = "exec"
  /\ done' = op.id
  /\ screen' = op.id
  /\ need_notify' = (need_notify \/ op.kind = "notify")
  /\ rpc' = IF op.kind = "shutdown" THEN "gone" ELSE "top"
  /\ UNCHANGED <<ring, op, prev, spinner, saved, mainSide, pump>>

\* Nothing is there: send the notification and wait.
Drained ==
  /\ rpc = "top" /\ Empty
  /\ need_notify' = FALSE
  /\ pump' = IF need_notify THEN pump + 1 ELSE pump
  /\ rpc' = "wait"
  /\ UNCHANGED <<ring, op, prev, done, picture, mainSide>>

\* pthread_cond_timedwait ends by itself: the timeout, or any other reason.
TimeOut ==
  /\ rpc = "wait"
  /\ rpc' = "timedout"
  /\ UNCHANGED <<ring, op, need_notify, prev, done, picture, mainSide, pump>>

Spurious ==
  /\ rpc = "wait"
  /\ rpc' = "woken"
  /\ UNCHANGED <<ring, op, need_notify, prev, done, picture, mainSide, pump>>

\* The condition of the inner loop.
Again == rpc' = IF Empty THEN "wait" ELSE "top"

\* Woken by a signal, or by a timeout with the main loop in poll.
NotBusy ==
  /\ rpc = "woken" \/ (rpc = "timedout" /\ idle)
  /\ DisableSpinner
  /\ Again
  /\ UNCHANGED <<ring, op, need_notify, prev, done, mainSide, pump>>

\* !eApp->isIdle(): the main loop runs handlers.
SeesBusy ==
  /\ rpc = "timedout" /\ ~idle
  /\ rpc' = "count"
  /\ UNCHANGED <<ring, op, need_notify, prev, done, picture, mainSide, pump>>

\* eApp->idleCount(): is it the turn of the last timeout?
Compare ==
  /\ rpc = "count"
  /\ prev' = count
  /\ IF count = prev THEN EnableSpinner ELSE DisableSpinner
  /\ Again
  /\ UNCHANGED <<ring, op, need_notify, done, mainSide, pump>>

-----------------------------------------------------------------------------
\* eApp exists and runs no handler's loop yet; the thread has been created.
Init ==
  /\ queue = [i \in 0 .. MaxSize - 1 |-> NoOp] /\ rp = 0 /\ wp = 0
  /\ rpc = "top" /\ op = NoOp /\ need_notify = FALSE /\ prev = -1 /\ done = 0
  /\ spinner = FALSE /\ screen = 0 /\ saved = -1
  /\ onoff = 1 /\ dc = FALSE
  /\ mpc = "busy" /\ cur = NoOp /\ sent = 0
  /\ idle = FALSE /\ count = 0
  /\ pump = 0

MainStep == \/ Paint \/ Destroy \/ TrySubmit \/ Retry \/ Join
            \/ HandlersDone \/ EnterPoll \/ LeavePoll \/ SetSpinnerDC \/ SetSpinnerOnOff

\* What the render thread does without being woken.
RenderStep == Take \/ Execute \/ Drained \/ NotBusy \/ SeesBusy \/ Compare

\* Both threads have ended.
Ended == mpc = "gone" /\ UNCHANGED vars

Next == MainStep \/ RenderStep \/ TimeOut \/ Spurious \/ Ended

Spec == Init /\ [][Next]_vars

\* Both threads run, and the mutex is granted to a thread that keeps asking for it.
\* Nothing is assumed of the timeouts, which follow CLOCK_REALTIME.
FairSpec == Spec /\ WF_vars(RenderStep) /\ SF_vars(TrySubmit)
                 /\ WF_vars(Retry \/ Join \/ EnterPoll)

-----------------------------------------------------------------------------
(* Properties *)

TypeOK ==
  /\ queue \in [0 .. MaxSize - 1 -> Operations]
  /\ rp \in 0 .. MaxSize - 1 /\ wp \in 0 .. MaxSize - 1
  /\ rpc \in RenderPcs /\ op \in Operations /\ need_notify \in BOOLEAN
  /\ prev \in Int /\ done \in Nat
  /\ spinner \in BOOLEAN /\ screen \in Int /\ saved \in Int
  /\ onoff \in 0 .. 2 /\ dc \in BOOLEAN
  /\ mpc \in MainPcs /\ cur \in Operations /\ sent \in Nat
  /\ idle \in BOOLEAN /\ count \in Nat /\ pump \in Nat

\* The operations in the ring, the oldest first.
Slot(i) == IF rp + i < MaxSize THEN rp + i ELSE rp + i - MaxSize
Length == IF rp <= wp THEN wp - rp ELSE wp - rp + MaxSize
Contents == [i \in 1 .. Length |-> queue[Slot(i - 1)]]
InFlight == IF rpc = "exec" THEN <<op>> ELSE <<>>

Fifo == INSTANCE RenderFifo WITH
  Capacity <- MaxSize, Kinds <- Kinds \cup {"shutdown"}, pending <- InFlight \o Contents,
  painted <- done, owed <- need_notify, messages <- pump

\* ImplementsFifo: through every interleaving and every turn of the ring, operations are
\* executed once each and in the order of submission, and a notification is sent when all
\* that was submitted by then has been executed.
ImplementsFifo == Fifo!Spec

\* SpinnerHidden (the comment at grc.cpp:127): the spinner is not displayed when something
\* is painted.
SpinnerHidden == rpc = "exec" => ~spinner

\* PictureComplete (the comments at grc.cpp:913 and 923): hiding the spinner restores the
\* background that showing it saved, and everything painted so far is in it, as long as
\* nobody has called setSpinnerOnOff.
PictureComplete == onoff = 1 => screen = done

\* FlushedIsPainted: what was submitted before a flush or a notify is executed, even if
\* the wait never times out: no wake-up is lost between the two threads.
FlushedIsPainted ==
  \A n \in 1 .. MaxOps :
    (\E i \in 1 .. Length : Contents[i].id >= n /\ Contents[i].kind # "paint") ~> done >= n

\* SubmitReturns: submit finds room in the end, though it fills the ring with operations
\* that wake nobody.
SubmitReturns == (mpc \in {"submit", "retry"}) ~> (mpc \notin {"submit", "retry"})

\* DestructorReturns: ~gRC ends, whatever the render thread does when it is called.
DestructorReturns == (mpc = "join") ~> (mpc = "gone")

\* CallsReturn: so the render thread never keeps the main thread for ever (grc.cpp:62, 84).
CallsReturn == SubmitReturns /\ DestructorReturns
=============================================================================
