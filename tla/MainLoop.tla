------------------------------ MODULE MainLoop ------------------------------
(* eMainloop (lib/base/ebase.cpp) with its timers and socket notifiers, a message pump
   (lib/base/message.h) whose messages come from other threads, and Twisted's reactor, which
   runs on top of it (e2reactor.py).

   One call of processOneEvent serves the timers that are due, polls, and dispatches what poll
   reported. Each handler it calls may change everything: stop and drop notifiers, its own
   included, close a file and open another that gets the same descriptor, start and stop
   timers. Times are relative: `left` of a timer is nextActivation minus the present.        *)
EXTENDS TimerLists

CONSTANTS
  Notifiers,   \* eSocketNotifier objects; each has a file of its own
  Pump,        \* the one of eFixedMessagePump, which lives as long as the loop
  Fds,         \* descriptors, in the order of the map
  Timers,
  Kinds,       \* [interval, single] that a timer is started with
  Delays,      \* of reactor.callLater
  Senders,     \* threads that send messages
  Programs,    \* sets of the calls that handlers make; one is chosen at the start
  MaxCalls,    \* bound of the calls a handler makes
  MaxQueue,    \* bound of the messages under way
  Late,        \* bound of the time a timer is served too late
  None, Forever

ASSUME MainLoopAssumption ==
  /\ Pump \in Notifiers /\ None \notin Notifiers \cup Timers /\ Notifiers \cap Timers = {}
  /\ Fds \subseteq Nat /\ Fds # {} /\ None \notin Fds
  /\ \A k \in Kinds : k.interval \in Nat \ {0} /\ k.single \in BOOLEAN
  /\ Delays \subseteq Nat \ {0} /\ {MaxCalls, MaxQueue, Late} \subseteq Nat
  /\ Forever \notin Int /\ None \notin Int

VARIABLES
  program,
  sn,                     \* fd, state and whether the program holds a reference
  notifiers,              \* the map: who is registered for a descriptor
  ready,                  \* external: the notifiers whose file has something
  timer,                  \* bActive, what it was started with, left
  m_timer_list,
  m_interrupt_requested,
  call,                   \* the time to the reactor's delayed call
  twisted,                \* m_twisted_timer
  queued, written,        \* m_queue and the count of the eventfd
  pushed,                 \* the threads between the two in send()
  pc, running,            \* where the loop is, and whose handler it has called
  calls,                  \* how many calls that handler has made
  now,                    \* the time processOneEvent took at its start
  wake, limited,          \* poll_timeout, and whether the reactor's time is nearer (return_reason)
  revents,                \* what poll reported: of whose file
  count,                  \* messages do_recv has still to take
  leave,                  \* iterate is to return
  aborted                 \* an ASSERT or eFatal ended the program

regVars == <<sn, notifiers>>
timerVars == <<timer, m_timer_list>>
pumpVars == <<queued, written, pushed>>
reactorVars == <<m_interrupt_requested, call>>
turnVars == <<now, twisted, wake, limited, revents, leave>>
vars == <<program, regVars, ready, timerVars, reactorVars, pumpVars, pc, running, calls,
          turnVars, count, aborted>>

-----------------------------------------------------------------------------
(* Socket notifiers *)

Gone == [fd |-> None, state |-> 0, held |-> FALSE]
Regs == [sn |-> sn, notifiers |-> notifiers, aborted |-> aborted]
Become(r) == sn' = r.sn /\ notifiers' = r.notifiers /\ aborted' = r.aborted

\* eSocketNotifier::stop, removeSocketNotifier
StopIn(r, n) ==
  IF r.sn[n].state = 0 THEN r
  ELSE [r EXCEPT !.sn[n].state = 0, !.notifiers[r.sn[n].fd] = None,
                 !.aborted = @ \/ r.notifiers[r.sn[n].fd] = None]

\* Mutant of DropsActive: its place is not given up.
KeepsActive(r) == r

\* addSocketNotifier. m_inActivate is the one whose handler runs; nobody else holds it if its
\* count is 1.
DropsActive(r) ==
  IF running \in Notifiers /\ ~r.sn[running].held THEN StopIn(r, running) ELSE r
AddSocketNotifier(r, n) ==
  LET d == DropsActive(r)
  IN  [d EXCEPT !.aborted = @ \/ d.notifiers[d.sn[n].fd] # None, !.notifiers[d.sn[n].fd] = n]

StartIn(r, n) == [AddSocketNotifier(StopIn(r, n), n) EXCEPT !.sn[n].state = 2]
Destroy(r, n) == [StopIn(r, n) EXCEPT !.sn[n] = Gone]

-----------------------------------------------------------------------------
(* What handlers do. Between two polls of the reactor its own handlers do the same. *)

MayCall(name) ==
  /\ ~aborted /\ name \in program /\ calls < MaxCalls
  /\ running # None \/ pc = "out"
  /\ calls' = calls + 1
  /\ UNCHANGED <<program, pc, running, turnVars, count>>

\* A file is opened, and gets a descriptor that no other file has.
Create(n) ==
  /\ MayCall("files") /\ sn[n] = Gone
  /\ \A fd \in Fds : revents[fd] # n      \* a name is not used again before it is forgotten
  /\ \E fd \in Fds :
       /\ \A m \in Notifiers : sn[m].held => sn[m].fd # fd
       /\ Become(StartIn([Regs EXCEPT !.sn[n] = [fd |-> fd, state |-> 0, held |-> TRUE]], n))
  /\ UNCHANGED <<ready, timerVars, reactorVars, pumpVars>>

Held(n) == n # Pump /\ sn[n].held

StartNotifier(n) ==
  /\ MayCall("files") /\ Held(n)
  /\ Become(StartIn(Regs, n))
  /\ UNCHANGED <<ready, timerVars, reactorVars, pumpVars>>

StopNotifier(n) ==
  /\ MayCall("files") /\ Held(n)
  /\ Become(StopIn(Regs, n))
  /\ UNCHANGED <<ready, timerVars, reactorVars, pumpVars>>

\* The last reference goes and the file is closed. One whose handler runs is still referenced.
Drop(n) ==
  /\ MayCall("files") /\ Held(n)
  /\ Become(IF running = n THEN [Regs EXCEPT !.sn[n].held = FALSE] ELSE Destroy(Regs, n))
  /\ ready' = ready \ {n}
  /\ UNCHANGED <<timerVars, reactorVars, pumpVars>>

Idle == [active |-> FALSE, kind |-> None, left |-> 0]
Others(t) == IF timer[t].active THEN Without(m_timer_list, t) ELSE m_timer_list

\* Mutant of InOrder: the list is not sorted.
AtEnd(tm, list, t) == {Append(list, t)}

\* insert_in_order: a binary search for the first that is not earlier.
LowerBounds(tm, list, t) ==
  {i \in 0 .. Len(list) : /\ i = 0 \/ tm[list[i]].left < tm[t].left
                          /\ i = Len(list) \/ tm[t].left <= tm[list[i + 1]].left}
InOrder(tm, list, t) == {InsertAt(list, k + 1, t) : k \in LowerBounds(tm, list, t)}

\* eTimer::start. Zero is one: the clock has gone on since `now` was taken.
StartTimer(t, k) ==
  /\ MayCall("timers")
  /\ timer' = [timer EXCEPT ![t] = [active |-> TRUE, kind |-> k, left |-> k.interval]]
  /\ m_timer_list' \in InOrder(timer', Others(t), t)
  /\ UNCHANGED <<regVars, aborted, ready, reactorVars, pumpVars>>

StopTimer(t) ==
  /\ MayCall("timers") /\ timer[t].active
  /\ timer' = [timer EXCEPT ![t] = Idle]
  /\ m_timer_list' = Others(t)
  /\ UNCHANGED <<regVars, aborted, ready, reactorVars, pumpVars>>

\* PollReactor.callLater; interruptPoll
CallLater ==
  /\ MayCall("calls") /\ call = None
  /\ call' \in Delays
  /\ m_interrupt_requested' = TRUE
  /\ UNCHANGED <<regVars, aborted, ready, timerVars, pumpVars>>

\* eFixedMessagePump::send in another thread: two steps.
Push(s) ==
  /\ ~aborted /\ "messages" \in program /\ s \notin pushed /\ queued < MaxQueue
  /\ queued' = queued + 1 /\ pushed' = pushed \cup {s}
  /\ UNCHANGED <<program, regVars, ready, timerVars, reactorVars, written, pc, running, calls,
                 turnVars, count, aborted>>

TriggerEvent(s) ==
  /\ ~aborted /\ s \in pushed
  /\ written' = written + 1 /\ pushed' = pushed \ {s}
  /\ UNCHANGED <<program, regVars, ready, timerVars, reactorVars, queued, pc, running, calls,
                 turnVars, count, aborted>>

-----------------------------------------------------------------------------
(* iterate, processOneEvent *)

Loop(at) == ~aborted /\ pc = at /\ running = None

\* The reactor makes the call that is due ...
RunDelayed ==
  /\ Loop("out") /\ call = 0
  /\ call' = None /\ calls' = 0
  /\ UNCHANGED <<program, regVars, ready, timerVars, m_interrupt_requested, pumpVars, pc,
                 running, turnVars, count, aborted>>

\* ... and polls, until the next is due: doPoll, eMainloop::poll.
DoPoll ==
  /\ Loop("out") /\ call # 0
  /\ pc' = "iterate" /\ twisted' = call
  /\ UNCHANGED <<program, regVars, ready, timerVars, reactorVars, pumpVars, running, calls,
                 now, wake, limited, revents, leave, count, aborted>>

Iterate ==
  /\ Loop("iterate")
  /\ m_interrupt_requested' = FALSE
  /\ IF m_interrupt_requested \/ twisted = 0
     THEN pc' = "out" /\ calls' = 0 /\ twisted' = None /\ UNCHANGED <<now, limited>>
     ELSE /\ pc' = "timers"
          /\ now' = IF m_timer_list = <<>> THEN None ELSE 0
          /\ UNCHANGED <<calls, twisted, limited>>
  /\ UNCHANGED <<program, regVars, ready, timerVars, call, pumpVars, running, wake, revents,
                 leave, count, aborted>>

\* Mutant of Due: the clock goes on while timers are served.
DueMeanwhile ==
  m_timer_list # <<>> /\ now # None /\ timer[Head(m_timer_list)].left <= 0

\* needsActivation(now)
Due == m_timer_list # <<>> /\ now # None /\ timer[Head(m_timer_list)].left <= now

\* eTimer::activate
ActivateTimer ==
  /\ Loop("timers") /\ Due
  /\ LET t == Head(m_timer_list)
         list == Tail(m_timer_list)
     IN  /\ running' = t
         /\ IF timer[t].kind.single
            THEN timer' = [timer EXCEPT ![t] = Idle] /\ m_timer_list' = list
            ELSE /\ timer' = [timer EXCEPT ![t].left = @ + timer[t].kind.interval]
                 /\ m_timer_list' \in InOrder(timer', list, t)
  /\ calls' = 0
  /\ UNCHANGED <<program, regVars, ready, reactorVars, pumpVars, pc, turnVars, count, aborted>>

\* A list that is empty from the start gives no time to poll; one that became empty gives 0.
PollTimeout ==
  IF now = None THEN Forever
  ELSE IF m_timer_list = <<>> \/ timer[Head(m_timer_list)].left < 0 THEN 0
  ELSE timer[Head(m_timer_list)].left
IsNearer(timeout) == twisted # None /\ twisted > 0 /\ timeout # Forever /\ timeout > twisted

EnterPoll ==
  /\ Loop("timers") /\ ~Due
  /\ pc' = "poll"
  /\ limited' = IsNearer(PollTimeout)
  /\ wake' = IF limited' THEN twisted ELSE PollTimeout
  /\ sn' = [n \in Notifiers |-> IF sn[n].fd # None /\ notifiers[sn[n].fd] = n
                                THEN [sn[n] EXCEPT !.state = 1] ELSE sn[n]]
  /\ now' = None
  /\ UNCHANGED <<program, notifiers, ready, timerVars, reactorVars, pumpVars, running, calls,
                 twisted, revents, leave, count, aborted>>

IsReady(n) == IF n = Pump THEN written > 0 ELSE n \in ready
Reported ==
  [fd \in Fds |-> IF notifiers[fd] # None /\ IsReady(notifiers[fd]) THEN notifiers[fd] ELSE None]
Nothing == [fd \in Fds |-> None]

\* `others`: a signal came, or a file that the reactor itself serves is ready.
PollReturns(others) ==
  /\ Loop("poll")
  /\ others \/ Reported # Nothing \/ wake = 0
  /\ pc' = "dispatch" /\ revents' = Reported
  /\ leave' = (others \/ (Reported = Nothing /\ limited))
  /\ wake' = Forever /\ limited' = FALSE
  /\ UNCHANGED <<program, regVars, ready, timerVars, reactorVars, pumpVars, running, calls,
                 now, twisted, count, aborted>>

\* Mutant of IsPolled: whoever has the descriptor now.
IsRegistered(n) == n # None

\* Added, and in poll.
IsPolled(n) == n # None /\ sn[n].state = 1

\* The next that was reported, if there is still one and it was polled.
Dispatch ==
  /\ Loop("dispatch")
  /\ \E fd \in Fds :
       LET n == notifiers[fd]
           activate == IsPolled(n)
       IN  /\ revents[fd] # None /\ \A other \in Fds : revents[other] # None => fd <= other
           /\ revents' = [revents EXCEPT ![fd] = None]
           /\ running' = IF activate THEN n ELSE None
           /\ calls' = IF activate THEN 0 ELSE calls
           /\ IF activate /\ n = Pump THEN count' = written /\ written' = 0
              ELSE UNCHANGED <<count, written>>
           /\ IF activate /\ n # Pump THEN ready' \in {ready, ready \ {n}} ELSE UNCHANGED ready
  /\ UNCHANGED <<program, regVars, timerVars, reactorVars, queued, pushed, pc, now, twisted,
                 wake, limited, leave, aborted>>

\* do_recv: one message, and its handler.
Receive ==
  /\ ~aborted /\ running = Pump /\ count > 0
  /\ IF queued = 0 THEN aborted' = TRUE /\ UNCHANGED <<queued, count, calls>>
     ELSE queued' = queued - 1 /\ count' = count - 1 /\ calls' = 0 /\ UNCHANGED aborted
  /\ UNCHANGED <<program, regVars, ready, timerVars, reactorVars, written, pushed, pc, running,
                 turnVars>>

\* The handler returns, and the loop's own reference goes.
Return ==
  /\ ~aborted /\ running # None /\ (running = Pump => count = 0)
  /\ running' = None /\ calls' = 0
  /\ Become(IF running \in Notifiers /\ ~sn[running].held THEN Destroy(Regs, running) ELSE Regs)
  /\ UNCHANGED <<program, ready, timerVars, reactorVars, pumpVars, pc, turnVars, count>>

EndOfTurn ==
  /\ Loop("dispatch") /\ revents = Nothing
  /\ pc' = IF leave THEN "out" ELSE "iterate"
  /\ twisted' = IF leave THEN None ELSE twisted
  /\ leave' = FALSE /\ calls' = 0
  /\ UNCHANGED <<program, regVars, ready, timerVars, reactorVars, pumpVars, running, now, wake,
                 limited, revents, count, aborted>>

-----------------------------------------------------------------------------
(* Surroundings *)

\* Something arrives at a file.
Arrive(n) ==
  /\ ~aborted /\ n # Pump /\ sn[n].held /\ n \notin ready
  /\ ready' = ready \cup {n}
  /\ UNCHANGED <<program, regVars, timerVars, reactorVars, pumpVars, pc, running, calls,
                 turnVars, count, aborted>>

Sooner(time) == IF time \in {None, Forever, 0} THEN time ELSE time - 1

Tick ==
  /\ ~aborted /\ \A t \in Timers : timer[t].active => timer[t].left > -Late
  /\ timer' = [t \in Timers |-> IF timer[t].active THEN [timer[t] EXCEPT !.left = @ - 1]
                              ELSE timer[t]]
  /\ call' = Sooner(call) /\ twisted' = Sooner(twisted) /\ wake' = Sooner(wake)
  /\ now' = IF now \in {None, -Late - 1} THEN now ELSE now - 1
  /\ UNCHANGED <<program, regVars, ready, m_timer_list, m_interrupt_requested, pumpVars, pc,
                 running, calls, limited, revents, leave, count, aborted>>

-----------------------------------------------------------------------------

\* The pump's notifier is started.
Init ==
  /\ program \in Programs
  /\ \E fd \in Fds :
       /\ sn = [n \in Notifiers |->
                  IF n = Pump THEN [fd |-> fd, state |-> 2, held |-> TRUE] ELSE Gone]
       /\ notifiers = [f \in Fds |-> IF f = fd THEN Pump ELSE None]
  /\ timer = [t \in Timers |-> Idle]
  /\ m_timer_list = <<>>
  /\ ready = {}
  /\ m_interrupt_requested = FALSE /\ call = None /\ twisted = None
  /\ queued = 0 /\ written = 0 /\ pushed = {}
  /\ pc = "out" /\ running = None /\ calls = 0
  /\ now = None /\ wake = Forever /\ limited = FALSE /\ revents = Nothing /\ leave = FALSE
  /\ count = 0 /\ aborted = FALSE

Calls ==
  \/ \E n \in Notifiers : Create(n) \/ StartNotifier(n) \/ StopNotifier(n) \/ Drop(n)
  \/ \E t \in Timers : StopTimer(t) \/ \E k \in Kinds : StartTimer(t, k)
  \/ CallLater

LoopStep ==
  \/ RunDelayed \/ DoPoll \/ Iterate \/ ActivateTimer \/ EnterPoll \/ PollReturns(FALSE)
  \/ Dispatch \/ Receive \/ Return \/ EndOfTurn

Next ==
  \/ Calls \/ LoopStep \/ PollReturns(TRUE)
  \/ \E s \in Senders : Push(s) \/ TriggerEvent(s)
  \/ \E n \in Notifiers : Arrive(n)
  \/ Tick

Spec == Init /\ [][Next]_vars

\* The threads run, handlers return and time goes on.
FairSpec ==
  /\ Spec
  /\ WF_vars(LoopStep) /\ WF_vars(Tick)
  /\ \A s \in Senders : WF_vars(TriggerEvent(s))

-----------------------------------------------------------------------------

Places == {"out", "iterate", "timers", "poll", "dispatch"}

TypeOK ==
  /\ program \in Programs
  /\ sn \in [Notifiers -> [fd : Fds \cup {None}, state : 0 .. 2, held : BOOLEAN]]
  /\ notifiers \in [Fds -> Notifiers \cup {None}]
  /\ ready \subseteq Notifiers
  /\ timer \in [Timers -> [active : BOOLEAN, kind : Kinds \cup {None}, left : Int]]
  /\ m_timer_list \in Seq(Timers)
  /\ m_interrupt_requested \in BOOLEAN
  /\ call \in Nat \cup {None} /\ twisted \in Nat \cup {None}
  /\ queued \in Nat /\ written \in Nat /\ pushed \subseteq Senders
  /\ pc \in Places /\ running \in Notifiers \cup Timers \cup {None} /\ calls \in Nat
  /\ now \in Int \cup {None} /\ wake \in Nat \cup {Forever} /\ limited \in BOOLEAN
  /\ revents \in [Fds -> Notifiers \cup {None}]
  /\ count \in Nat /\ leave \in BOOLEAN /\ aborted \in BOOLEAN

\* NoAbort: a notifier is never registered for a descriptor that has one, or unregistered when it
\* is not ("we don't get trouble with the next Assertion", ebase.cpp:150), and do_recv never gets
\* an event without a message (message.h:76).
NoAbort == ~aborted

\* OwnEvents: a handler is only called for what happened to its own notifier's file, though
\* descriptors are used again at once ("added and in poll", ebase.cpp:277).
OwnEvents ==
  [][running' # running /\ running' \in Notifiers => revents[sn[running'].fd] = running']_vars

\* SleepsInTime: poll never sleeps past a timer that runs (ebase.cpp:205).
SleepsInTime ==
  pc = "poll" => \A t \in Timers : timer[t].active =>
                   wake # Forever /\ (wake <= timer[t].left \/ wake = 0)

\* EventsAreServed: whatever a timer, a file or a message waits for comes in the end, however long
\* the handlers of the others take; and so does the reactor's call, if a timer runs (ebase.cpp:213).
TimersAreServed ==
  \A t \in Timers : []<>(running = t \/ ~(timer[t].active /\ timer[t].left <= 0))
FilesAreServed ==
  \A n \in Notifiers \ {Pump} : []<>(running = n \/ n \notin ready \/ sn[n].state # 1)
MessagesAreDelivered == []<>(queued = 0) \/ []<><<queued' < queued>>_queued
CallsAreMade == []<>(call # 0 \/ m_timer_list = <<>>)
EventsAreServed == TimersAreServed /\ FilesAreServed /\ MessagesAreDelivered /\ CallsAreMade

\* TimeoutReturns ("a user supplied timeout. enter_loop will return with ... 1 - timeout",
\* ebase.h:225-229): a poll with a timeout returns. It does not if no timer runs, and no run checks
\* it; see the README.
TimeoutReturns == []<>(twisted # 0)
=============================================================================
