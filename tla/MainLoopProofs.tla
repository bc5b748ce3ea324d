--------------------------- MODULE MainLoopProofs ---------------------------
(***************************************************************************)
(* What holds of the main loop for any number of notifiers, descriptors,   *)
(* timers and senders, whatever handlers do.                               *)
(***************************************************************************)
EXTENDS MainLoop, TimerListsProofs, FiniteSetTheorems

-----------------------------------------------------------------------------
(* The inductive invariant *)

Notifier == [fd : Fds \cup {None}, state : 0 .. 2, held : BOOLEAN]
RegsType == [sn : [Notifiers -> Notifier], notifiers : [Fds -> Notifiers \cup {None}],
             aborted : BOOLEAN]

\* Started notifiers are registered, registered ones are started.
Registered(r) ==
  /\ \A fd \in Fds : r.notifiers[fd] # None =>
       r.sn[r.notifiers[fd]].fd = fd /\ r.sn[r.notifiers[fd]].state # 0
  /\ \A n \in Notifiers : r.sn[n].state # 0 =>
       r.sn[n].fd \in Fds /\ r.notifiers[r.sn[n].fd] = n

\* Those that are held have open files, with descriptors of their own.
FilesDiffer(r) ==
  /\ \A n \in Notifiers : r.sn[n].held => r.sn[n].fd \in Fds
  /\ \A n, m \in Notifiers :
       r.sn[n].held /\ r.sn[m].held /\ r.sn[n].fd = r.sn[m].fd => n = m

\* Of the others only the one whose handler runs still exists.
OthersAreGone(r, who) == \A n \in Notifiers : ~r.sn[n].held => r.sn[n] = Gone \/ n = who

RegsOK(r, who) ==
  /\ r \in RegsType /\ Registered(r) /\ FilesDiffer(r) /\ OthersAreGone(r, who)
  /\ r.sn[Pump].held /\ ~r.aborted

\* What poll reports of the file of a notifier that was polled is that notifier's.
Reports == \A n \in Notifiers : sn[n].state = 1 /\ revents[sn[n].fd] # None => revents[sn[n].fd] = n

\* Each message has its event, at the sender, in the eventfd or in do_recv.
Counted ==
  /\ IsFiniteSet(pushed) /\ queued = written + count + Cardinality(pushed)
  /\ count # 0 => running = Pump

\* The timers that are active, in the order of their activations.
Left(tm) == [t \in Timers |-> tm[t].left]
Listed(tm, list) ==
  /\ list \in Seq(Timers) /\ Distinct(list) /\ Ordered(Left(tm), list)
  /\ \A t \in Timers : tm[t].active <=> t \in Range(list)
  /\ \A t \in Timers : tm[t].active => tm[t].kind \in Kinds

\* What cannot be while the loop is there.
PlaceOK ==
  /\ pc \in {"iterate", "poll"} => running = None
  /\ pc = "timers" /\ now = None => running = None /\ m_timer_list = <<>>
  /\ pc # "dispatch" => revents = Nothing

IInv ==
  /\ TypeOK /\ RegsOK(Regs, running) /\ Reports /\ Counted /\ Listed(timer, m_timer_list) /\ PlaceOK
  /\ SleepsInTime

-----------------------------------------------------------------------------
(* Registration *)

\* StopIn when there is something to stop.
LEMMA StopFields ==
  ASSUME NEW r \in RegsType, NEW n \in Notifiers, r.sn[n].state # 0, r.sn[n].fd \in Fds,
         r.notifiers[r.sn[n].fd] # None
  PROVE  /\ StopIn(r, n) \in RegsType
         /\ StopIn(r, n).sn = [r.sn EXCEPT ![n].state = 0]
         /\ StopIn(r, n).notifiers = [r.notifiers EXCEPT ![r.sn[n].fd] = None]
         /\ StopIn(r, n).aborted = r.aborted
<1> DEFINE fd == r.sn[n].fd
<1>1. StopIn(r, n) = [r EXCEPT !.sn = [@ EXCEPT ![n].state = 0],
                               !.notifiers = [@ EXCEPT ![fd] = None],
                               !.aborted = @ \/ r.notifiers[fd] = None]
  BY DEF StopIn
<1>2. /\ StopIn(r, n).sn = [r.sn EXCEPT ![n].state = 0]
      /\ StopIn(r, n).notifiers = [r.notifiers EXCEPT ![fd] = None]
  BY <1>1 DEF RegsType
<1>3. StopIn(r, n).aborted = r.aborted
  BY <1>1 DEF RegsType
<1>4. [r.sn EXCEPT ![n].state = 0] \in [Notifiers -> Notifier]
  BY DEF RegsType, Notifier
<1>5. [r.notifiers EXCEPT ![fd] = None] \in [Fds -> Notifiers \cup {None}]
  BY DEF RegsType
<1>6. StopIn(r, n) = [sn |-> [r.sn EXCEPT ![n].state = 0],
                      notifiers |-> [r.notifiers EXCEPT ![fd] = None], aborted |-> r.aborted]
  BY <1>1, <1>3 DEF RegsType
<1> QED BY <1>2, <1>3, <1>4, <1>5, <1>6 DEF RegsType

\* stop leaves the notifier unregistered, and everything else as it was.
LEMMA StopKeeps ==
  ASSUME NEW r, NEW who, RegsOK(r, who), NEW n \in Notifiers
  PROVE  /\ RegsOK(StopIn(r, n), who)
         /\ StopIn(r, n).sn[n].state = 0
         /\ \A m \in Notifiers : m # n => StopIn(r, n).sn[m] = r.sn[m]
         /\ StopIn(r, n).sn[n].fd = r.sn[n].fd /\ StopIn(r, n).sn[n].held = r.sn[n].held
<1> DEFINE q == StopIn(r, n)
<1>1. CASE r.sn[n].state = 0
  BY <1>1 DEF StopIn
<1>2. CASE r.sn[n].state # 0
  <2>1. r \in RegsType /\ r.sn[n].fd \in Fds /\ r.notifiers[r.sn[n].fd] = n /\ n # None
    BY <1>2, MainLoopAssumption DEF RegsOK, Registered
  <2>2. /\ q \in RegsType
        /\ q.sn = [r.sn EXCEPT ![n].state = 0]
        /\ q.notifiers = [r.notifiers EXCEPT ![r.sn[n].fd] = None]
        /\ q.aborted = r.aborted
    BY <2>1, <1>2, StopFields
  <2> HIDE DEF q
  <2>3. /\ q.sn[n].state = 0 /\ q.sn[n].fd = r.sn[n].fd /\ q.sn[n].held = r.sn[n].held
        /\ \A m \in Notifiers : m # n => q.sn[m] = r.sn[m]
    BY <2>1, <2>2 DEF RegsType, Notifier
  <2>4. \A m \in Notifiers : q.sn[m].fd = r.sn[m].fd /\ q.sn[m].held = r.sn[m].held
    BY <2>3
  <2>5. \A fd \in Fds : q.notifiers[fd] = IF fd = r.sn[n].fd THEN None ELSE r.notifiers[fd]
    BY <2>1, <2>2 DEF RegsType
  <2>6. Registered(q)
    <3>1. ASSUME NEW f \in Fds, q.notifiers[f] # None
          PROVE  q.sn[q.notifiers[f]].fd = f /\ q.sn[q.notifiers[f]].state # 0
      <4>1. f # r.sn[n].fd /\ q.notifiers[f] = r.notifiers[f]
        BY <3>1, <2>5
      <4>2. r.notifiers[f] \in Notifiers /\ r.sn[r.notifiers[f]].fd = f
            /\ r.sn[r.notifiers[f]].state # 0
        BY <4>1, <3>1 DEF RegsOK, Registered, RegsType
      <4> QED BY <4>1, <4>2, <2>3
    <3>2. ASSUME NEW m \in Notifiers, q.sn[m].state # 0
          PROVE  q.sn[m].fd \in Fds /\ q.notifiers[q.sn[m].fd] = m
      <4>1. m # n /\ q.sn[m] = r.sn[m]
        BY <3>2, <2>3
      <4>2. r.sn[m].fd \in Fds /\ r.notifiers[r.sn[m].fd] = m
        BY <4>1, <3>2 DEF RegsOK, Registered
      <4> QED BY <4>1, <4>2, <2>1, <2>5
    <3> QED BY <3>1, <3>2 DEF Registered
  <2>7. FilesDiffer(q)
    BY <2>4 DEF RegsOK, FilesDiffer
  <2>8. OthersAreGone(q, who)
    <3>1. OthersAreGone(r, who) /\ r.sn[n] # Gone
      BY <1>2 DEF RegsOK, Gone
    <3>2. ASSUME NEW m \in Notifiers, ~q.sn[m].held PROVE q.sn[m] = Gone \/ m = who
      <4>1. ~r.sn[m].held
        BY <2>4, <3>2
      <4> QED BY <4>1, <3>1, <2>3 DEF OthersAreGone
    <3> QED BY <3>2 DEF OthersAreGone
  <2>9. q.sn[Pump].held /\ ~q.aborted
    BY <2>2, <2>4, MainLoopAssumption DEF RegsOK
  <2> QED BY <2>2, <2>3, <2>6, <2>7, <2>8, <2>9 DEF RegsOK, q
<1> QED BY <1>1, <1>2

\* addSocketNotifier finds the descriptor free: whoever could have it is the notifier whose
\* handler runs and which nobody holds, and that one gives it up. So start does not abort.
LEMMA StartKeeps ==
  ASSUME NEW r, RegsOK(r, running), NEW n \in Notifiers, r.sn[n].held
  PROVE  /\ RegsOK(StartIn(r, n), running)
         /\ StartIn(r, n).sn[n].state = 2
         /\ \A m \in Notifiers : m # n => \/ StartIn(r, n).sn[m] = r.sn[m]
                                          \/ StartIn(r, n).sn[m].state = 0
<1> DEFINE s == StopIn(r, n)
           d == DropsActive(s)
           a == AddSocketNotifier(s, n)
           q == StartIn(r, n)
           fd == r.sn[n].fd
<1>1. /\ RegsOK(s, running) /\ s.sn[n].state = 0 /\ s.sn[n].fd = fd /\ s.sn[n].held
      /\ \A m \in Notifiers : m # n => s.sn[m] = r.sn[m]
  BY StopKeeps
<1>2. /\ RegsOK(d, running) /\ d.sn[n] = s.sn[n]
      /\ \A m \in Notifiers : m # n => d.sn[m] = s.sn[m] \/ d.sn[m].state = 0
      /\ running \in Notifiers /\ ~d.sn[running].held => d.sn[running].state = 0
  <2> HIDE DEF s
  <2>1. CASE running \in Notifiers /\ ~s.sn[running].held
    <3>1. running # n /\ d = StopIn(s, running)
      BY <2>1, <1>1 DEF DropsActive
    <3>2. /\ RegsOK(d, running) /\ d.sn[running].state = 0
          /\ \A m \in Notifiers : m # running => d.sn[m] = s.sn[m]
      <4> DEFINE p == running
      <4>1. p \in Notifiers /\ RegsOK(s, running)
        BY <2>1, <1>1
      <4> HIDE DEF p
      <4>2. /\ RegsOK(StopIn(s, p), running) /\ StopIn(s, p).sn[p].state = 0
            /\ \A m \in Notifiers : m # p => StopIn(s, p).sn[m] = s.sn[m]
        BY ONLY <4>1, StopKeeps
      <4> QED BY <3>1, <4>2 DEF p
    <3> QED BY <2>1, <3>1, <3>2
  <2>2. CASE ~(running \in Notifiers /\ ~s.sn[running].held)
    <3>1. d = s
      BY <2>2 DEF DropsActive
    <3> QED BY <2>2, <3>1, <1>1
  <2> QED BY <2>1, <2>2
<1> HIDE DEF s, d
<1>3. fd \in Fds /\ d.sn[n].fd = fd /\ d.sn[n].held /\ d.sn[n].state = 0
  BY <1>1, <1>2 DEF RegsOK, FilesDiffer
<1>4. d.notifiers[fd] = None
  <2> SUFFICES ASSUME d.notifiers[fd] # None PROVE FALSE
    OBVIOUS
  <2> DEFINE m == d.notifiers[fd]
  <2>1. m \in Notifiers /\ d.sn[m].fd = fd /\ d.sn[m].state # 0
    BY <1>2, <1>3 DEF RegsOK, Registered, RegsType
  <2> HIDE DEF m
  <2>2. CASE d.sn[m].held
    BY <2>1, <2>2, <1>2, <1>3 DEF RegsOK, FilesDiffer
  <2>3. CASE ~d.sn[m].held
    BY <2>1, <2>3, <1>2 DEF RegsOK, OthersAreGone, Gone
  <2> QED BY <2>2, <2>3
<1>5. d \in RegsType /\ ~d.aborted
  BY <1>2 DEF RegsOK
<1>6. /\ a \in RegsType /\ a.sn = d.sn /\ ~a.aborted
      /\ a.notifiers = [d.notifiers EXCEPT ![fd] = n]
  BY <1>3, <1>4, <1>5 DEF AddSocketNotifier, RegsType, d
<1> HIDE DEF a
<1>7. /\ q \in RegsType /\ q.sn = [d.sn EXCEPT ![n].state = 2] /\ ~q.aborted
      /\ q.notifiers = [d.notifiers EXCEPT ![fd] = n]
  BY <1>6 DEF StartIn, RegsType, Notifier, a, s
<1> HIDE DEF q
<1>8. /\ q.sn[n].state = 2 /\ q.sn[n].fd = fd /\ q.sn[n].held
      /\ \A m \in Notifiers : m # n => q.sn[m] = d.sn[m]
      /\ q.notifiers[fd] = n
      /\ \A f \in Fds : f # fd => q.notifiers[f] = d.notifiers[f]
  BY <1>3, <1>5, <1>7 DEF RegsType, Notifier
<1>9. Registered(q)
  <2>0. Registered(d) /\ d \in RegsType
    BY <1>2 DEF RegsOK
  <2>1. ASSUME NEW f \in Fds, q.notifiers[f] # None
        PROVE  q.sn[q.notifiers[f]].fd = f /\ q.sn[q.notifiers[f]].state # 0
    <3>1. CASE f = fd
      BY <3>1, <1>8
    <3>2. CASE f # fd
      <4>1. q.notifiers[f] = d.notifiers[f]
        BY <3>2, <1>8
      <4>2. d.notifiers[f] \in Notifiers /\ d.sn[d.notifiers[f]].fd = f
            /\ d.sn[d.notifiers[f]].state # 0
        BY <4>1, <2>1, <2>0 DEF Registered, RegsType
      <4>3. d.notifiers[f] # n
        BY <4>2, <1>3
      <4> QED BY <4>1, <4>2, <4>3, <1>8
    <3> QED BY <3>1, <3>2
  <2>2. ASSUME NEW m \in Notifiers, q.sn[m].state # 0
        PROVE  q.sn[m].fd \in Fds /\ q.notifiers[q.sn[m].fd] = m
    <3>1. CASE m = n
      BY <3>1, <1>8, <1>3
    <3>2. CASE m # n
      <4>1. q.sn[m] = d.sn[m]
        BY <3>2, <1>8
      <4>2. d.sn[m].fd \in Fds /\ d.notifiers[d.sn[m].fd] = m
        BY <4>1, <2>2, <2>0 DEF Registered
      <4>3. d.sn[m].fd # fd
        BY <4>2, <1>4, MainLoopAssumption
      <4> QED BY <4>1, <4>2, <4>3, <1>8
    <3> QED BY <3>1, <3>2
  <2> QED BY <2>1, <2>2 DEF Registered
<1>10. FilesDiffer(q) /\ OthersAreGone(q, running) /\ q.sn[Pump].held
  BY <1>2, <1>3, <1>8, MainLoopAssumption DEF RegsOK, FilesDiffer, OthersAreGone
<1> QED BY <1>1, <1>2, <1>7, <1>8, <1>9, <1>10 DEF RegsOK, q

\* The object is deleted.
LEMMA DestroyKeeps ==
  ASSUME NEW r, NEW who, RegsOK(r, who), NEW n \in Notifiers \ {Pump}
  PROVE  /\ RegsOK(Destroy(r, n), who)
         /\ Destroy(r, n).sn[n] = Gone
         /\ \A m \in Notifiers : m # n => Destroy(r, n).sn[m] = r.sn[m]
<1> DEFINE s == StopIn(r, n)
           q == Destroy(r, n)
<1>1. /\ RegsOK(s, who) /\ s.sn[n].state = 0
      /\ \A m \in Notifiers : m # n => s.sn[m] = r.sn[m]
  BY StopKeeps
<1>2. q = [s EXCEPT !.sn[n] = Gone]
  BY DEF Destroy
<1> HIDE DEF s, q
<1>3. s \in RegsType /\ Gone \in Notifier
  BY <1>1 DEF RegsOK, Gone, Notifier
<1>4. /\ q \in RegsType /\ q.sn[n] = Gone /\ q.notifiers = s.notifiers /\ q.aborted = s.aborted
      /\ \A m \in Notifiers : m # n => q.sn[m] = s.sn[m]
  BY <1>2, <1>3 DEF RegsType
<1>5. Gone.state = 0 /\ ~Gone.held /\ Gone.fd = None
  BY DEF Gone
<1>6. Registered(q)
  BY <1>1, <1>4, <1>5 DEF RegsOK, Registered, RegsType
<1>7. FilesDiffer(q) /\ OthersAreGone(q, who) /\ q.sn[Pump].held /\ ~q.aborted
  BY <1>1, <1>4, <1>5, MainLoopAssumption DEF RegsOK, FilesDiffer, OthersAreGone
<1> QED BY <1>1, <1>4, <1>6, <1>7 DEF RegsOK, q, s

LEMMA RegsTyped ==
  ASSUME TypeOK
  PROVE  Regs \in RegsType
BY DEF TypeOK, Regs, RegsType, Notifier

LEMMA BecomeIs ==
  ASSUME NEW r \in RegsType, Become(r)
  PROVE  Regs' = r
BY DEF Become, Regs, RegsType

\* A call that changes registrations: r is what it makes of them. None is in poll that was not.
LEMMA BecomeKeeps ==
  ASSUME IInv, NEW r, RegsOK(r, running), Become(r), UNCHANGED <<running, revents>>,
         \A m \in Notifiers : r.sn[m].state = 1 => r.sn[m] = [sn[m] EXCEPT !.held = r.sn[m].held]
  PROVE  RegsOK(Regs, running)' /\ Reports'
<1>1. Regs' = r
  BY BecomeIs DEF RegsOK
<1>2. sn' = r.sn
  BY DEF Become
<1>3. ASSUME NEW m \in Notifiers, sn'[m].state = 1
      PROVE  sn[m].state = 1 /\ sn'[m].fd = sn[m].fd
  <2>1. sn'[m] = [sn[m] EXCEPT !.held = r.sn[m].held]
    BY <1>2, <1>3
  <2> QED BY <1>3, <2>1 DEF IInv, TypeOK
<1>4. Reports'
  BY <1>3 DEF IInv, Reports
<1> QED BY <1>1, <1>4

LEMMA RegsStep ==
  ASSUME IInv, [Next]_vars
  PROVE  RegsOK(Regs, running)' /\ Reports'
<1> USE DEF IInv
<1>0. Regs \in RegsType /\ Regs.sn = sn /\ Regs.notifiers = notifiers /\ Regs.aborted = aborted
  BY RegsTyped DEF Regs
<1>0a. \A m \in Notifiers : sn[m] = [sn[m] EXCEPT !.held = sn[m].held]
  BY DEF TypeOK
<1>1. ASSUME NEW n \in Notifiers, Create(n) PROVE RegsOK(Regs, running)' /\ Reports'
  <2>1. PICK fd \in Fds :
          /\ \A m \in Notifiers : sn[m].held => sn[m].fd # fd
          /\ Become(StartIn([Regs EXCEPT !.sn[n] = [fd |-> fd, state |-> 0, held |-> TRUE]], n))
    BY <1>1 DEF Create
  <2> DEFINE r == [Regs EXCEPT !.sn[n] = [fd |-> fd, state |-> 0, held |-> TRUE]]
             q == StartIn(r, n)
  <2>2. sn[n] = Gone /\ Gone.state = 0 /\ ~Gone.held /\ n # Pump
    BY <1>1 DEF Create, Gone, RegsOK, Regs
  <2>3. /\ r \in RegsType /\ r.notifiers = notifiers /\ r.aborted = aborted
        /\ r.sn[n] = [fd |-> fd, state |-> 0, held |-> TRUE]
        /\ \A m \in Notifiers : m # n => r.sn[m] = sn[m]
    <3> DEFINE new == [fd |-> fd, state |-> 0, held |-> TRUE]
    <3>1. new \in Notifier
      BY DEF Notifier
    <3> HIDE DEF new
    <3>2. sn \in [Notifiers -> Notifier]
      BY DEF TypeOK, Notifier
    <3>3. r = [sn |-> [sn EXCEPT ![n] = new], notifiers |-> notifiers, aborted |-> aborted]
      <4>1. r = [Regs EXCEPT !.sn = [@ EXCEPT ![n] = new]]
        BY DEF new
      <4> HIDE DEF r
      <4> QED BY ONLY <4>1 DEF Regs
    <3>4. r.sn = [sn EXCEPT ![n] = new] /\ r.notifiers = notifiers /\ r.aborted = aborted
      BY ONLY <3>3
    <3>5. [sn EXCEPT ![n] = new] \in [Notifiers -> Notifier]
      BY <3>1, <3>2
    <3>6. r \in RegsType
      BY ONLY <3>3, <3>5, TypeOK DEF RegsType, TypeOK
    <3> HIDE DEF r
    <3> QED BY <3>2, <3>4, <3>6 DEF new
  <2> HIDE DEF r
  <2>4. Registered(r)
    BY <1>0, <2>2, <2>3 DEF RegsOK, Registered, RegsType
  <2>5. FilesDiffer(r) /\ OthersAreGone(r, running) /\ r.sn[Pump].held /\ ~r.aborted
    BY <1>0, <2>1, <2>2, <2>3, MainLoopAssumption DEF RegsOK, FilesDiffer, OthersAreGone
  <2>6. RegsOK(r, running) /\ r.sn[n].held
    BY <2>3, <2>4, <2>5 DEF RegsOK
  <2>7. /\ RegsOK(q, running) /\ q.sn[n].state = 2
        /\ \A m \in Notifiers : m # n => q.sn[m] = r.sn[m] \/ q.sn[m].state = 0
    BY <2>6, StartKeeps
  <2>8. Become(q)
    BY <2>1 DEF r
  <2> HIDE DEF q
  <2>9. \A m \in Notifiers : q.sn[m].state = 1 => q.sn[m] = [sn[m] EXCEPT !.held = q.sn[m].held]
    BY <1>0a, <2>3, <2>7
  <2> QED BY <1>1, <2>7, <2>8, <2>9, BecomeKeeps DEF Create, MayCall, turnVars
<1>2. ASSUME NEW n \in Notifiers, StartNotifier(n) PROVE RegsOK(Regs, running)' /\ Reports'
  <2> DEFINE q == StartIn(Regs, n)
  <2>1. Regs.sn[n].held
    BY <1>2, <1>0 DEF StartNotifier, Held
  <2>2. /\ RegsOK(q, running) /\ q.sn[n].state = 2
        /\ \A m \in Notifiers : m # n => q.sn[m] = sn[m] \/ q.sn[m].state = 0
    BY <2>1, <1>0, StartKeeps
  <2>3. Become(q)
    BY <1>2 DEF StartNotifier
  <2> HIDE DEF q
  <2>4. \A m \in Notifiers : q.sn[m].state = 1 => q.sn[m] = [sn[m] EXCEPT !.held = q.sn[m].held]
    BY <1>0a, <2>2
  <2> QED BY <1>2, <2>2, <2>3, <2>4, BecomeKeeps DEF StartNotifier, MayCall, turnVars
<1>3. ASSUME NEW n \in Notifiers, StopNotifier(n) PROVE RegsOK(Regs, running)' /\ Reports'
  <2> DEFINE q == StopIn(Regs, n)
  <2>1. /\ RegsOK(q, running) /\ q.sn[n].state = 0
        /\ \A m \in Notifiers : m # n => q.sn[m] = sn[m]
    BY <1>0, StopKeeps
  <2>2. Become(q)
    BY <1>3 DEF StopNotifier
  <2> HIDE DEF q
  <2>3. \A m \in Notifiers : q.sn[m].state = 1 => q.sn[m] = [sn[m] EXCEPT !.held = q.sn[m].held]
    BY <1>0a, <2>1
  <2> QED BY <1>3, <2>1, <2>2, <2>3, BecomeKeeps DEF StopNotifier, MayCall, turnVars
<1>4. ASSUME NEW n \in Notifiers, Drop(n) PROVE RegsOK(Regs, running)' /\ Reports'
  <2>1. n # Pump
    BY <1>4 DEF Drop, Held
  <2>2. CASE running = n
    <3> DEFINE q == [Regs EXCEPT !.sn[n].held = FALSE]
    <3>1. Become(q)
      BY <1>4, <2>2 DEF Drop
    <3>2. /\ q \in RegsType /\ q.notifiers = notifiers /\ q.aborted = aborted
          /\ q.sn[n] = [sn[n] EXCEPT !.held = FALSE]
          /\ \A m \in Notifiers : m # n => q.sn[m] = sn[m]
      BY <1>0 DEF RegsType, Notifier
    <3> HIDE DEF q
    <3>3. q.sn[n].fd = sn[n].fd /\ q.sn[n].state = sn[n].state /\ ~q.sn[n].held
      BY <3>2 DEF TypeOK
    <3>4. Registered(q)
      <4>0. \A m \in Notifiers : q.sn[m].fd = sn[m].fd /\ q.sn[m].state = sn[m].state
        BY <3>2, <3>3
      <4>1. Registered(Regs) /\ notifiers \in [Fds -> Notifiers \cup {None}]
        BY DEF RegsOK, TypeOK
      <4>2. ASSUME NEW f \in Fds, q.notifiers[f] # None
            PROVE  q.sn[q.notifiers[f]].fd = f /\ q.sn[q.notifiers[f]].state # 0
        BY <4>0, <4>1, <4>2, <3>2, <1>0 DEF Registered
      <4>3. ASSUME NEW m \in Notifiers, q.sn[m].state # 0
            PROVE  q.sn[m].fd \in Fds /\ q.notifiers[q.sn[m].fd] = m
        BY <4>0, <4>1, <4>3, <3>2, <1>0 DEF Registered
      <4> QED BY <4>2, <4>3 DEF Registered
    <3>5. FilesDiffer(q) /\ OthersAreGone(q, running) /\ q.sn[Pump].held /\ ~q.aborted
      BY <1>0, <2>1, <2>2, <3>2, <3>3, MainLoopAssumption DEF RegsOK, FilesDiffer, OthersAreGone
    <3>6. RegsOK(q, running)
      BY <3>2, <3>4, <3>5 DEF RegsOK
    <3>7. \A m \in Notifiers : q.sn[m].state = 1 => q.sn[m] = [sn[m] EXCEPT !.held = q.sn[m].held]
      BY <1>0a, <3>2, <3>3
    <3> QED BY <1>4, <3>1, <3>6, <3>7, BecomeKeeps DEF Drop, MayCall, turnVars
  <2>3. CASE running # n
    <3> DEFINE q == Destroy(Regs, n)
    <3>1. Become(q)
      BY <1>4, <2>3 DEF Drop
    <3>2. /\ RegsOK(q, running) /\ q.sn[n] = Gone
          /\ \A m \in Notifiers : m # n => q.sn[m] = sn[m]
      BY <1>0, <2>1, DestroyKeeps
    <3> HIDE DEF q
    <3>3. \A m \in Notifiers : q.sn[m].state = 1 => q.sn[m] = [sn[m] EXCEPT !.held = q.sn[m].held]
      BY <1>0a, <3>2 DEF Gone
    <3> QED BY <1>4, <3>1, <3>2, <3>3, BecomeKeeps DEF Drop, MayCall, turnVars
  <2> QED BY <2>2, <2>3
<1>5. CASE EnterPoll
  <2>1. /\ revents = Nothing /\ running = None /\ UNCHANGED <<notifiers, running, revents, aborted>>
    BY <1>5 DEF EnterPoll, Loop, PlaceOK
  <2>2. ASSUME NEW m \in Notifiers
        PROVE  /\ sn'[m] = IF sn[m].state # 0 THEN [sn[m] EXCEPT !.state = 1] ELSE sn[m]
               /\ sn'[m].fd = sn[m].fd /\ sn'[m].held = sn[m].held
               /\ sn'[m].state = 0 <=> sn[m].state = 0
               /\ sn'[m] \in Notifier
    <3>1. sn[m].state # 0 <=> sn[m].fd # None /\ notifiers[sn[m].fd] = m
      <4>1. sn[m].fd \in Fds \cup {None} /\ Registered(Regs) /\ None \notin Fds /\ m # None
        BY MainLoopAssumption DEF TypeOK, RegsOK
      <4>2. ASSUME sn[m].state # 0 PROVE sn[m].fd # None /\ notifiers[sn[m].fd] = m
        BY <4>1, <4>2, <1>0 DEF Registered
      <4>3. ASSUME sn[m].fd # None, notifiers[sn[m].fd] = m PROVE sn[m].state # 0
        <5>1. sn[m].fd \in Fds
          BY <4>1, <4>3
        <5> QED BY <5>1, <4>1, <4>3, <1>0 DEF Registered
      <4> QED BY <4>2, <4>3
    <3>2. sn'[m] = IF sn[m].fd # None /\ notifiers[sn[m].fd] = m
                   THEN [sn[m] EXCEPT !.state = 1] ELSE sn[m]
      BY <1>5 DEF EnterPoll
    <3>3. sn[m] \in Notifier
      BY DEF TypeOK, Notifier
    <3> QED BY <3>1, <3>2, <3>3 DEF Notifier
  <2> DEFINE q == Regs'
  <2>3. q.sn = sn' /\ q.notifiers = notifiers /\ q.aborted = aborted
        /\ q \in RegsType
    <3>1. sn' \in [Notifiers -> Notifier]
      BY <1>5, <2>2 DEF EnterPoll
    <3> QED BY <1>0, <2>1, <3>1 DEF Regs, RegsType
  <2> HIDE DEF q
  <2>3a. \A m \in Notifiers : /\ q.sn[m].fd = sn[m].fd /\ q.sn[m].held = sn[m].held
                              /\ q.sn[m].state = 0 <=> sn[m].state = 0
    BY <2>2, <2>3
  <2>3b. Registered(Regs) /\ FilesDiffer(Regs) /\ OthersAreGone(Regs, None) /\ sn[Pump].held
         /\ ~aborted /\ notifiers \in [Fds -> Notifiers \cup {None}] /\ Pump \in Notifiers
    BY <1>0, <2>1, MainLoopAssumption DEF RegsOK, TypeOK
  <2>4. Registered(q)
    <3>1. ASSUME NEW f \in Fds, q.notifiers[f] # None
          PROVE  q.sn[q.notifiers[f]].fd = f /\ q.sn[q.notifiers[f]].state # 0
      <4>1. notifiers[f] # None /\ notifiers[f] \in Notifiers
        BY <3>1, <2>3, <2>3b
      <4>2. sn[notifiers[f]].fd = f /\ sn[notifiers[f]].state # 0
        BY <4>1, <2>3b, <1>0 DEF Registered
      <4> QED BY <4>1, <4>2, <2>3, <2>3a
    <3>2. ASSUME NEW m \in Notifiers, q.sn[m].state # 0
          PROVE  q.sn[m].fd \in Fds /\ q.notifiers[q.sn[m].fd] = m
      <4>1. sn[m].state # 0 /\ q.sn[m].fd = sn[m].fd
        BY <3>2, <2>3a
      <4>2. sn[m].fd \in Fds /\ notifiers[sn[m].fd] = m
        BY <4>1, <2>3b, <1>0 DEF Registered
      <4> QED BY <4>1, <4>2, <2>3
    <3> QED BY <3>1, <3>2 DEF Registered
  <2>5. FilesDiffer(q) /\ q.sn[Pump].held /\ ~q.aborted
    BY <1>0, <2>3, <2>3a, <2>3b DEF FilesDiffer
  <2>6. OthersAreGone(q, None)
    <3>1. ASSUME NEW m \in Notifiers, ~q.sn[m].held PROVE q.sn[m] = Gone \/ m = None
      <4>1. sn[m] = Gone \/ m = None
        BY <3>1, <2>3a, <2>3b, <1>0 DEF OthersAreGone
      <4>2. sn[m] = Gone => q.sn[m] = Gone
        <5>1. Gone.state = 0
          BY DEF Gone
        <5> QED BY <5>1, <2>2, <2>3
      <4> QED BY <4>1, <4>2
    <3> QED BY <3>1 DEF OthersAreGone
  <2>7. Reports'
    <3>1. ASSUME NEW m \in Notifiers, sn'[m].state = 1 PROVE revents'[sn'[m].fd] = None
      <4>1. sn[m].state # 0 /\ sn'[m].fd = sn[m].fd
        <5>1. sn'[m].state # 0
          BY <3>1
        <5> QED BY <5>1, <2>2
      <4>2. sn'[m].fd \in Fds
        BY <4>1, <2>3b, <1>0 DEF Registered
      <4> QED BY <4>2, <2>1 DEF Nothing
    <3> QED BY <3>1 DEF Reports
  <2> QED BY <2>1, <2>3, <2>4, <2>5, <2>6, <2>7 DEF RegsOK, q
<1>6. ASSUME NEW o \in BOOLEAN, PollReturns(o) PROVE RegsOK(Regs, running)' /\ Reports'
  <2>1. UNCHANGED <<sn, notifiers, aborted, running>> /\ revents' = Reported
    BY <1>6 DEF PollReturns, regVars
  <2>2. RegsOK(Regs, running)'
    BY <2>1 DEF Regs
  <2>3. Reports'
    BY <1>0, <2>1 DEF Reports, Reported, RegsOK, Registered
  <2> QED BY <2>2, <2>3
<1>7. CASE Dispatch
  <2>1. UNCHANGED <<sn, notifiers, aborted>> /\ running = None
    BY <1>7 DEF Dispatch, Loop, regVars
  <2>2. PICK fd \in Fds : revents' = [revents EXCEPT ![fd] = None]
    BY <1>7 DEF Dispatch
  <2>3. OthersAreGone(Regs, running)'
    BY <1>0, <2>1, MainLoopAssumption DEF RegsOK, OthersAreGone, Regs
  <2>4. RegsOK(Regs, running)'
    BY <2>1, <2>3 DEF RegsOK, Regs
  <2>5. Reports'
    BY <1>0, <2>1, <2>2 DEF Reports, RegsOK, Registered, TypeOK
  <2> QED BY <2>4, <2>5
<1>8. CASE Return
  <2>1. running' = None /\ UNCHANGED revents
    BY <1>8 DEF Return, turnVars
  <2>2. CASE running \in Notifiers /\ ~sn[running].held
    <3> DEFINE n == running
               q == Destroy(Regs, n)
    <3>1. Become(q) /\ n \in Notifiers \ {Pump}
      BY <1>0, <1>8, <2>2 DEF Return, RegsOK
    <3> HIDE DEF n
    <3>2. /\ RegsOK(q, n) /\ q.sn[n] = Gone
          /\ \A m \in Notifiers : m # n => q.sn[m] = sn[m]
      BY <1>0, <3>1, DestroyKeeps DEF n
    <3> HIDE DEF q
    <3>3. Regs' = q /\ sn' = q.sn
      BY <3>1, <3>2, BecomeIs DEF RegsOK, Become
    <3>4. OthersAreGone(q, None)
      BY <3>2 DEF RegsOK, OthersAreGone
    <3>5. RegsOK(q, None)
      BY <3>2, <3>4 DEF RegsOK
    <3>6. Reports'
      BY <2>1, <3>2, <3>3 DEF Reports, Gone
    <3> QED BY <2>1, <3>3, <3>5, <3>6
  <2>3. CASE ~(running \in Notifiers /\ ~sn[running].held)
    <3>1. Become(Regs)
      BY <1>8, <2>3 DEF Return
    <3>2. Regs' = Regs /\ sn' = sn
      BY <1>0, <3>1, BecomeIs DEF Become
    <3>3. OthersAreGone(Regs, None)
      BY <1>0, <2>3 DEF RegsOK, OthersAreGone
    <3> QED BY <2>1, <3>2, <3>3 DEF RegsOK, Reports
  <2> QED BY <2>2, <2>3
<1>9. CASE Receive
  <2>1. queued # 0
    <3>1. count \in Nat /\ count > 0 /\ written \in Nat /\ Cardinality(pushed) \in Nat
      BY <1>9, FS_CardinalityType DEF Receive, Counted, TypeOK
    <3> QED BY <3>1 DEF Counted
  <2>2. UNCHANGED <<sn, notifiers, aborted, running, revents>>
    BY <1>9, <2>1 DEF Receive, regVars, turnVars
  <2> QED BY <2>2 DEF Regs, Reports
<1>10. CASE ActivateTimer
  <2>1. UNCHANGED <<sn, notifiers, aborted, revents>> /\ running = None
    BY <1>10 DEF ActivateTimer, Loop, regVars, turnVars
  <2>2. OthersAreGone(Regs, running)'
    BY <1>0, <2>1, MainLoopAssumption DEF RegsOK, OthersAreGone, Regs
  <2> QED BY <2>1, <2>2 DEF RegsOK, Regs, Reports
<1>11. ASSUME UNCHANGED <<sn, notifiers, aborted, running, revents>>
       PROVE  RegsOK(Regs, running)' /\ Reports'
  BY <1>11 DEF Regs, Reports
<1>12. ASSUME NEW t \in Timers, StopTimer(t) \/ \E k \in Kinds : StartTimer(t, k)
       PROVE  UNCHANGED <<sn, notifiers, aborted, running, revents>>
  BY <1>12 DEF StopTimer, StartTimer, MayCall, regVars, turnVars
<1>13. CASE CallLater \/ RunDelayed \/ DoPoll \/ Iterate \/ EndOfTurn \/ Tick
  <2>1. CASE CallLater
    BY <2>1, <1>11 DEF CallLater, MayCall, regVars, turnVars
  <2>2. CASE RunDelayed
    BY <2>2, <1>11 DEF RunDelayed, regVars, turnVars
  <2>3. CASE DoPoll
    BY <2>3, <1>11 DEF DoPoll, regVars
  <2>4. CASE Iterate
    BY <2>4, <1>11 DEF Iterate, regVars
  <2>5. CASE EndOfTurn
    BY <2>5, <1>11 DEF EndOfTurn, regVars
  <2>6. CASE Tick
    BY <2>6, <1>11 DEF Tick, regVars
  <2> QED BY <1>13, <2>1, <2>2, <2>3, <2>4, <2>5, <2>6
<1>14. ASSUME NEW x \in Senders, Push(x) \/ TriggerEvent(x)
       PROVE  UNCHANGED <<sn, notifiers, aborted, running, revents>>
  BY <1>14 DEF Push, TriggerEvent, regVars, turnVars
<1>15. ASSUME NEW n \in Notifiers, Arrive(n)
       PROVE  UNCHANGED <<sn, notifiers, aborted, running, revents>>
  BY <1>15 DEF Arrive, regVars, turnVars
<1>16. CASE UNCHANGED vars
  BY <1>16, <1>11 DEF vars, regVars, turnVars
<1> QED
  BY <1>1, <1>2, <1>3, <1>4, <1>5, <1>6, <1>7, <1>8, <1>9, <1>10, <1>11, <1>12, <1>13, <1>14, <1>15, <1>16
     DEF Next, Calls, LoopStep
-----------------------------------------------------------------------------
(* Timers *)

LEMMA LeftTypes ==
  ASSUME NEW tm \in [Timers -> [active : BOOLEAN, kind : Kinds \cup {None}, left : Int]]
  PROVE  Left(tm) \in [Timers -> Int] /\ \A t \in Timers : Left(tm)[t] = tm[t].left
BY DEF Left

\* insert_in_order keeps the list in order.
LEMMA InOrderKeeps ==
  ASSUME NEW tm \in [Timers -> [active : BOOLEAN, kind : Kinds \cup {None}, left : Int]],
         NEW list \in Seq(Timers), Distinct(list), Ordered(Left(tm), list),
         NEW t \in Timers, t \notin Range(list), NEW new \in InOrder(tm, list, t)
  PROVE  /\ new \in Seq(Timers) /\ Distinct(new) /\ Ordered(Left(tm), new)
         /\ Range(new) = Range(list) \cup {t}
<1> DEFINE key == Left(tm)
<1>0. key \in [Timers -> Int] /\ \A u \in Timers : key[u] = tm[u].left
  BY LeftTypes
<1>1. PICK k \in LowerBounds(tm, list, t) : new = InsertAt(list, k + 1, t)
  BY DEF InOrder
<1>2. /\ k \in 0 .. Len(list)
      /\ k = 0 \/ tm[list[k]].left < tm[t].left
      /\ k = Len(list) \/ tm[t].left <= tm[list[k + 1]].left
  BY <1>1 DEF LowerBounds
<1> HIDE DEF key
<1>3. Fits(key, list, t, k)
  <2>1. k # 0 => key[list[k]] <= key[t]
    <3>1. k # 0 => list[k] \in Timers
      BY <1>2
    <3> QED BY <1>0, <1>2, <3>1
  <2>2. k # Len(list) => key[t] <= key[list[k + 1]]
    <3>1. k # Len(list) => list[k + 1] \in Timers
      <4>1. k # Len(list) => k + 1 \in 1 .. Len(list)
        BY <1>2
      <4> QED BY <4>1
    <3> QED BY <1>0, <1>2, <3>1
  <2> QED BY <2>1, <2>2 DEF Fits
<1>4. Adds(Timers, InsertAt(list, k + 1, t), list, t)
  BY <1>2, InsertedEntry
<1>5. Ordered(key, list)
  BY DEF key
<1>6. Ordered(key, InsertAt(list, k + 1, t))
  BY <1>0, <1>2, <1>3, <1>5, InsertionOrder
<1> QED BY <1>1, <1>4, <1>6 DEF Adds, key

LEMMA RangeOfHead ==
  ASSUME NEW T, NEW s \in Seq(T), s # <<>>
  PROVE  Head(s) \in T /\ Head(s) \in Range(s)
<1>1. Len(s) \in Nat /\ Len(s) # 0 /\ Head(s) = s[1]
  OBVIOUS
<1>2. 1 \in DOMAIN s
  BY <1>1
<1> QED BY <1>1, <1>2 DEF Range

\* Without the timer that is started again.
LEMMA OthersKeep ==
  ASSUME TypeOK, Listed(timer, m_timer_list), NEW t \in Timers
  PROVE  /\ Others(t) \in Seq(Timers) /\ Distinct(Others(t)) /\ Ordered(Left(timer), Others(t))
         /\ Range(Others(t)) = Range(m_timer_list) \ {t}
<1>1. /\ m_timer_list \in Seq(Timers) /\ Distinct(m_timer_list)
      /\ Ordered(Left(timer), m_timer_list)
      /\ timer[t].active <=> t \in Range(m_timer_list)
  BY DEF Listed
<1>2. CASE timer[t].active
  <2>1. Others(t) = Without(m_timer_list, t) /\ t \in Range(m_timer_list)
    BY <1>1, <1>2 DEF Others
  <2>2. /\ Without(m_timer_list, t) \in Seq(Timers) /\ Distinct(Without(m_timer_list, t))
        /\ Range(Without(m_timer_list, t)) = Range(m_timer_list) \ {t}
    BY <1>1, <2>1, WithoutEntry
  <2>3. IndexOf(m_timer_list, t) \in 1 .. Len(m_timer_list)
    BY <1>1, <2>1, IndexOfEntry
  <2>4. Ordered(Left(timer), Without(m_timer_list, t))
    BY <1>1, <2>3, RemovalOrder DEF Without
  <2> QED BY <2>1, <2>2, <2>4
<1>3. CASE ~timer[t].active
  BY <1>1, <1>3 DEF Others
<1> QED BY <1>2, <1>3

\* A timer is put into the list.
LEMMA ListedAnew ==
  ASSUME NEW tm \in [Timers -> [active : BOOLEAN, kind : Kinds \cup {None}, left : Int]],
         NEW list \in Seq(Timers), Distinct(list), Ordered(Left(timer), list),
         NEW t \in Timers, t \notin Range(list),
         Left(timer) \in [Timers -> Int],
         \A u \in Timers : timer[u].active /\ u # t <=> u \in Range(list),
         \A u \in Timers : timer[u].active => timer[u].kind \in Kinds,
         \A u \in Timers \ {t} : tm[u] = timer[u],
         tm[t].active, tm[t].kind \in Kinds,
         NEW new \in InOrder(tm, list, t)
  PROVE  Listed(tm, new)
<1>1. \A u \in Range(list) : Left(tm)[u] = Left(timer)[u]
  <2>1. Range(list) \subseteq Timers
    BY DEF Range
  <2> QED BY <2>1 DEF Left
<1>2. Ordered(Left(tm), list)
  BY <1>1, SameOrder
<1>3. /\ new \in Seq(Timers) /\ Distinct(new) /\ Ordered(Left(tm), new)
      /\ Range(new) = Range(list) \cup {t}
  BY <1>2, InOrderKeeps
<1> QED BY <1>3 DEF Listed

LEMMA InOrderTypes ==
  ASSUME NEW tm, NEW list \in Seq(Timers), NEW t \in Timers, NEW new \in InOrder(tm, list, t)
  PROVE  new \in Seq(Timers)
<1>1. PICK k \in 0 .. Len(list) : new = InsertAt(list, k + 1, t)
  BY DEF InOrder, LowerBounds
<1> QED BY <1>1, InsertedEntry DEF Adds

\* The steps that change timers.
LEMMA TimerChanges ==
  ASSUME [Next]_vars
  PROVE  \/ \E t \in Timers : StopTimer(t) \/ \E k \in Kinds : StartTimer(t, k)
         \/ ActivateTimer \/ Tick \/ UNCHANGED timerVars
<1>1. ASSUME NEW n \in Notifiers, Create(n) \/ StartNotifier(n) \/ StopNotifier(n) \/ Drop(n) \/ Arrive(n)
      PROVE  UNCHANGED timerVars
  BY <1>1 DEF Create, StartNotifier, StopNotifier, Drop, Arrive
<1>2. ASSUME NEW x \in Senders, Push(x) \/ TriggerEvent(x)
      PROVE  UNCHANGED timerVars
  BY <1>2 DEF Push, TriggerEvent
<1>3. ASSUME NEW o \in BOOLEAN, PollReturns(o) PROVE UNCHANGED timerVars
  BY <1>3 DEF PollReturns
<1>4. CASE \/ CallLater \/ RunDelayed \/ DoPoll \/ Iterate \/ EnterPoll \/ Dispatch \/ Receive
           \/ Return \/ EndOfTurn
  BY <1>4
     DEF CallLater, RunDelayed, DoPoll, Iterate, EnterPoll, Dispatch, Receive, Return, EndOfTurn
<1>5. CASE UNCHANGED vars
  BY <1>5 DEF vars
<1> QED BY <1>1, <1>2, <1>3, <1>4, <1>5 DEF Next, Calls, LoopStep

LEMMA ListedStep ==
  ASSUME IInv, [Next]_vars, TypeOK'
  PROVE  Listed(timer, m_timer_list)'
<1> DEFINE TimerType == [Timers -> [active : BOOLEAN, kind : Kinds \cup {None}, left : Int]]
<1>0. /\ timer \in TimerType /\ timer' \in TimerType /\ Left(timer) \in [Timers -> Int]
      /\ Listed(timer, m_timer_list) /\ TypeOK
  BY LeftTypes DEF IInv, TypeOK
<1>1. ASSUME NEW t \in Timers, NEW k \in Kinds, StartTimer(t, k)
      PROVE  Listed(timer', m_timer_list')
  <2>1. /\ timer' = [timer EXCEPT ![t] = [active |-> TRUE, kind |-> k, left |-> k.interval]]
        /\ m_timer_list' \in InOrder(timer', Others(t), t)
    BY <1>1 DEF StartTimer
  <2>2. /\ Others(t) \in Seq(Timers) /\ Distinct(Others(t)) /\ Ordered(Left(timer), Others(t))
        /\ Range(Others(t)) = Range(m_timer_list) \ {t}
    BY <1>0, OthersKeep
  <2>3. t \notin Range(Others(t))
        /\ \A u \in Timers : timer[u].active /\ u # t <=> u \in Range(Others(t))
    BY <1>0, <2>2 DEF Listed
  <2>4. /\ \A u \in Timers \ {t} : timer'[u] = timer[u]
        /\ timer'[t].active /\ timer'[t].kind \in Kinds
    BY <1>0, <2>1
  <2>5. \A u \in Timers : timer[u].active => timer[u].kind \in Kinds
    BY <1>0 DEF Listed
  <2> QED BY <1>0, <2>1, <2>2, <2>3, <2>4, <2>5, ListedAnew
<1>2. ASSUME NEW t \in Timers, StopTimer(t) PROVE Listed(timer', m_timer_list')
  <2>1. timer' = [timer EXCEPT ![t] = Idle] /\ m_timer_list' = Others(t)
    BY <1>2 DEF StopTimer
  <2>2. /\ Others(t) \in Seq(Timers) /\ Distinct(Others(t)) /\ Ordered(Left(timer), Others(t))
        /\ Range(Others(t)) = Range(m_timer_list) \ {t}
    BY <1>0, OthersKeep
  <2>3. \A u \in Timers \ {t} : timer'[u] = timer[u]
    BY <1>0, <2>1
  <2>4. ~timer'[t].active
    BY <1>0, <2>1 DEF Idle
  <2>5. Range(Others(t)) \subseteq Timers \ {t}
    BY <2>2 DEF Range
  <2>6. Ordered(Left(timer'), Others(t))
    <3>1. \A u \in Range(Others(t)) : Left(timer')[u] = Left(timer)[u]
      BY <2>3, <2>5 DEF Left
    <3> QED BY <2>2, <3>1, SameOrder
  <2> QED BY <1>0, <2>1, <2>2, <2>3, <2>4, <2>6 DEF Listed
<1>3. CASE ActivateTimer
  <2> DEFINE t == Head(m_timer_list)
             list == Tail(m_timer_list)
  <2>1. m_timer_list # <<>>
    BY <1>3 DEF ActivateTimer, Due
  <2>2. /\ t \in Timers /\ list \in Seq(Timers) /\ Distinct(list) /\ Ordered(Left(timer), list)
        /\ Range(list) = Range(m_timer_list) \ {t} /\ t \in Range(m_timer_list)
    <3>1. m_timer_list \in Seq(Timers) /\ Distinct(m_timer_list) /\ Ordered(Left(timer), m_timer_list)
      BY <1>0 DEF Listed
    <3>2. /\ Tail(m_timer_list) \in Seq(Timers) /\ Distinct(Tail(m_timer_list))
          /\ Range(Tail(m_timer_list)) = Range(m_timer_list) \ {Head(m_timer_list)}
          /\ Ordered(Left(timer), Tail(m_timer_list))
      BY <2>1, <3>1, TailEntries
    <3>3. t \in Timers /\ t \in Range(m_timer_list)
      BY <2>1, <3>1, RangeOfHead
    <3> QED BY <3>2, <3>3
  <2>3. IF timer[t].kind.single
        THEN timer' = [timer EXCEPT ![t] = Idle] /\ m_timer_list' = list
        ELSE /\ timer' = [timer EXCEPT ![t].left = @ + timer[t].kind.interval]
             /\ m_timer_list' \in InOrder(timer', list, t)
    BY <1>3 DEF ActivateTimer
  <2> HIDE DEF t, list
  <2>4. /\ t \notin Range(list) /\ timer[t].active /\ timer[t].kind \in Kinds
        /\ \A u \in Timers : timer[u].active /\ u # t <=> u \in Range(list)
        /\ \A u \in Timers : timer[u].active => timer[u].kind \in Kinds
    BY <1>0, <2>2 DEF Listed
  <2>5. CASE timer[t].kind.single
    <3>1. timer' = [timer EXCEPT ![t] = Idle] /\ m_timer_list' = list
      BY <2>3, <2>5
    <3>2. /\ \A u \in Timers \ {t} : timer'[u] = timer[u]
          /\ ~timer'[t].active
      BY <1>0, <2>2, <3>1 DEF Idle
    <3>3. Ordered(Left(timer'), list)
      <4>1. Range(list) \subseteq Timers \ {t}
        BY <2>2, <2>4 DEF Range
      <4>2. \A u \in Range(list) : Left(timer')[u] = Left(timer)[u]
        BY <3>2, <4>1 DEF Left
      <4> QED BY <2>2, <4>2, SameOrder
    <3> QED BY <2>2, <2>4, <3>1, <3>2, <3>3 DEF Listed
  <2>6. CASE ~timer[t].kind.single
    <3>1. /\ timer' = [timer EXCEPT ![t].left = @ + timer[t].kind.interval]
          /\ m_timer_list' \in InOrder(timer', list, t)
      BY <2>3, <2>6
    <3>2. /\ \A u \in Timers \ {t} : timer'[u] = timer[u]
          /\ timer'[t].active /\ timer'[t].kind \in Kinds
      BY <1>0, <2>2, <2>4, <3>1
    <3> QED BY <1>0, <2>2, <2>4, <3>1, <3>2, ListedAnew
  <2> QED BY <2>5, <2>6
<1>4. CASE Tick
  <2>1. /\ timer' = [t \in Timers |-> IF timer[t].active THEN [timer[t] EXCEPT !.left = @ - 1]
                                      ELSE timer[t]]
        /\ m_timer_list' = m_timer_list
    BY <1>4 DEF Tick
  <2>2. \A t \in Timers : /\ timer'[t].active = timer[t].active
                          /\ timer'[t].kind = timer[t].kind
                          /\ timer[t].active => timer'[t].left = timer[t].left - 1
    BY <1>0, <2>1
  <2>3. Ordered(Left(timer'), m_timer_list)
    <3> SUFFICES ASSUME NEW i \in DOMAIN m_timer_list, NEW j \in DOMAIN m_timer_list, i < j
                 PROVE  Left(timer')[m_timer_list[i]] <= Left(timer')[m_timer_list[j]]
      BY DEF Ordered
    <3> DEFINE a == m_timer_list[i]
               b == m_timer_list[j]
    <3>1. a \in Timers /\ b \in Timers /\ timer[a].active /\ timer[b].active
      BY <1>0 DEF Listed, Range
    <3>2. Left(timer)[a] <= Left(timer)[b]
      BY <1>0 DEF Listed, Ordered
    <3> HIDE DEF a, b
    <3>3. timer[a].left <= timer[b].left /\ timer[a].left \in Int /\ timer[b].left \in Int
      BY <1>0, <3>1, <3>2 DEF Left
    <3>4. timer'[a].left <= timer'[b].left
      BY <2>2, <3>1, <3>3
    <3> QED BY <3>1, <3>4 DEF Left, a, b
  <2> QED BY <1>0, <2>1, <2>2, <2>3 DEF Listed
<1>5. ASSUME UNCHANGED timerVars PROVE Listed(timer', m_timer_list')
  BY <1>0, <1>5 DEF timerVars
<1> QED BY <1>1, <1>2, <1>3, <1>4, <1>5, TimerChanges

-----------------------------------------------------------------------------
(* The rest of the invariant *)

TimerType == [Timers -> [active : BOOLEAN, kind : Kinds \cup {None}, left : Int]]

LEMMA TimersTyped ==
  ASSUME IInv, [Next]_vars
  PROVE  timer' \in TimerType /\ m_timer_list' \in Seq(Timers)
<1>0. /\ timer \in TimerType /\ m_timer_list \in Seq(Timers) /\ TypeOK
      /\ Listed(timer, m_timer_list)
  BY DEF IInv, TypeOK, TimerType
<1>1. ASSUME NEW t \in Timers, NEW k \in Kinds, StartTimer(t, k)
      PROVE  timer' \in TimerType /\ m_timer_list' \in Seq(Timers)
  <2>1. k.interval \in Int
    BY MainLoopAssumption
  <2>2. timer' \in TimerType
    BY <1>0, <1>1, <2>1 DEF StartTimer, TimerType
  <2>3. /\ Others(t) \in Seq(Timers)
        /\ m_timer_list' \in InOrder(timer', Others(t), t)
    BY <1>0, <1>1, OthersKeep DEF StartTimer
  <2> QED BY <2>2, <2>3, InOrderTypes DEF TimerType
<1>2. ASSUME NEW t \in Timers, StopTimer(t)
      PROVE  timer' \in TimerType /\ m_timer_list' \in Seq(Timers)
  <2>1. Others(t) \in Seq(Timers)
    BY <1>0, OthersKeep
  <2> QED BY <1>0, <1>2, <2>1 DEF StopTimer, TimerType, Idle
<1>3. CASE ActivateTimer
  <2> DEFINE t == Head(m_timer_list)
             list == Tail(m_timer_list)
  <2>1. m_timer_list # <<>>
    BY <1>3 DEF ActivateTimer, Due
  <2>2. t \in Timers /\ list \in Seq(Timers) /\ t \in Range(m_timer_list)
    BY <1>0, <2>1, RangeOfHead
  <2>3. IF timer[t].kind.single
        THEN timer' = [timer EXCEPT ![t] = Idle] /\ m_timer_list' = list
        ELSE /\ timer' = [timer EXCEPT ![t].left = @ + timer[t].kind.interval]
             /\ m_timer_list' \in InOrder(timer', list, t)
    BY <1>3 DEF ActivateTimer
  <2> HIDE DEF t, list
  <2>4. timer[t].kind.interval \in Int
    BY <1>0, <2>2, MainLoopAssumption DEF Listed
  <2>5. timer' \in TimerType
    <3>1. Idle \in [active : BOOLEAN, kind : Kinds \cup {None}, left : Int]
      BY DEF Idle
    <3>2. timer[t].left + timer[t].kind.interval \in Int
      BY <1>0, <2>2, <2>4 DEF TimerType
    <3>3. CASE timer[t].kind.single
      BY <1>0, <2>2, <2>3, <3>1, <3>3 DEF TimerType
    <3>4. CASE ~timer[t].kind.single
      BY <1>0, <2>2, <2>3, <3>2, <3>4 DEF TimerType
    <3> QED BY <3>3, <3>4
  <2>6. m_timer_list' \in Seq(Timers)
    <3>1. CASE timer[t].kind.single
      BY <2>2, <2>3, <3>1
    <3>2. CASE ~timer[t].kind.single
      BY <2>2, <2>3, <2>5, <3>2, InOrderTypes DEF TimerType
    <3> QED BY <3>1, <3>2
  <2> QED BY <2>5, <2>6
<1>4. CASE Tick
  <2>1. /\ timer' = [t \in Timers |-> IF timer[t].active THEN [timer[t] EXCEPT !.left = @ - 1]
                                      ELSE timer[t]]
        /\ m_timer_list' = m_timer_list
    BY <1>4 DEF Tick
  <2>2. \A t \in Timers : timer[t].left - 1 \in Int
    BY <1>0 DEF TimerType
  <2> QED BY <1>0, <2>1, <2>2 DEF TimerType
<1>5. ASSUME UNCHANGED timerVars PROVE timer' \in TimerType /\ m_timer_list' \in Seq(Timers)
  BY <1>0, <1>5 DEF timerVars
<1>6. [Next]_vars =>
        \/ \E t \in Timers : StopTimer(t) \/ \E k \in Kinds : StartTimer(t, k)
        \/ ActivateTimer \/ Tick \/ UNCHANGED timerVars
  BY TimerChanges
<1> QED BY <1>1, <1>2, <1>3, <1>4, <1>5, <1>6

\* What depends on neither registrations nor the list.
RestTyped ==
  /\ ready \subseteq Notifiers
  /\ program \in Programs /\ m_interrupt_requested \in BOOLEAN
  /\ call \in Nat \cup {None} /\ twisted \in Nat \cup {None}
  /\ queued \in Nat /\ written \in Nat /\ pushed \subseteq Senders /\ count \in Nat
  /\ pc \in Places /\ running \in Notifiers \cup Timers \cup {None} /\ calls \in Nat
  /\ now \in Int \cup {None} /\ wake \in Nat \cup {Forever} /\ limited \in BOOLEAN
  /\ revents \in [Fds -> Notifiers \cup {None}] /\ leave \in BOOLEAN

LEMMA RestStep ==
  ASSUME IInv, [Next]_vars
  PROVE  RestTyped'
<1>0. RestTyped /\ TypeOK /\ None \notin Int /\ Forever \notin Int
  BY MainLoopAssumption DEF IInv, TypeOK, RestTyped
<1> USE DEF turnVars, pumpVars, reactorVars
<1>1. ASSUME NEW n \in Notifiers, Create(n) \/ StartNotifier(n) \/ StopNotifier(n) \/ Drop(n)
      PROVE  RestTyped'
  BY <1>0, <1>1 DEF RestTyped, Create, StartNotifier, StopNotifier, Drop, MayCall
<1>2. ASSUME NEW t \in Timers, StopTimer(t) \/ \E k \in Kinds : StartTimer(t, k)
      PROVE  RestTyped'
  BY <1>0, <1>2 DEF RestTyped, StopTimer, StartTimer, MayCall
<1>3. CASE CallLater
  BY <1>0, <1>3, MainLoopAssumption DEF RestTyped, CallLater, MayCall
<1>4. CASE RunDelayed
  BY <1>0, <1>4 DEF RestTyped, RunDelayed
<1>5. CASE DoPoll
  BY <1>0, <1>5 DEF RestTyped, DoPoll, Places
<1>6. CASE Iterate
  <2>1. CASE m_interrupt_requested \/ twisted = 0
    <3>1. /\ m_interrupt_requested' = FALSE /\ pc' = "out" /\ calls' = 0 /\ twisted' = None
          /\ UNCHANGED <<now, limited>>
      BY <1>6, <2>1 DEF Iterate
    <3> QED BY <1>0, <1>6, <3>1 DEF RestTyped, Iterate, Places
  <2>2. CASE ~(m_interrupt_requested \/ twisted = 0)
    <3>1. /\ m_interrupt_requested' = FALSE /\ pc' = "timers" /\ UNCHANGED <<calls, twisted, limited>>
          /\ now' = IF m_timer_list = <<>> THEN None ELSE 0
      BY <1>6, <2>2 DEF Iterate
    <3>2. now' \in Int \cup {None}
      BY <3>1
    <3>3. calls' \in Nat /\ twisted' \in Nat \cup {None} /\ limited' \in BOOLEAN
      BY <1>0, <3>1 DEF RestTyped
    <3> QED BY <1>0, <1>6, <3>1, <3>2, <3>3 DEF RestTyped, Iterate, Places
  <2> QED BY <2>1, <2>2
<1>7. CASE ActivateTimer
  <2>1. running' \in Timers
    <3>1. m_timer_list # <<>> /\ running' = Head(m_timer_list)
      BY <1>7 DEF ActivateTimer, Due
    <3> QED BY <1>0, <3>1, RangeOfHead DEF TypeOK
  <2> QED BY <1>0, <1>7, <2>1 DEF RestTyped, ActivateTimer
<1>8. CASE EnterPoll
  <2>1. limited' \in BOOLEAN /\ wake' \in Nat \cup {Forever}
    <3>1. PollTimeout \in Nat \cup {Forever}
      <4>1. m_timer_list # <<>> => timer[Head(m_timer_list)].left \in Int
        BY <1>0, RangeOfHead DEF TypeOK
      <4> QED BY <4>1 DEF PollTimeout
    <3>2. limited' = IsNearer(PollTimeout) /\ wake' = IF limited' THEN twisted ELSE PollTimeout
      BY <1>8 DEF EnterPoll
    <3>3. IsNearer(PollTimeout) \in BOOLEAN /\ (IsNearer(PollTimeout) => twisted # None)
      BY DEF IsNearer
    <3> QED BY <1>0, <3>1, <3>2, <3>3 DEF RestTyped
  <2> QED BY <1>0, <1>8, <2>1 DEF RestTyped, EnterPoll, Places
<1>9. ASSUME NEW o \in BOOLEAN, PollReturns(o) PROVE RestTyped'
  <2>1. Reported \in [Fds -> Notifiers \cup {None}]
    BY <1>0 DEF Reported, TypeOK
  <2> QED BY <1>0, <1>9, <2>1 DEF RestTyped, PollReturns, Places
<1>10. CASE Dispatch
  <2>1. PICK fd \in Fds :
          LET n == notifiers[fd]
              activate == IsPolled(n)
          IN  /\ revents' = [revents EXCEPT ![fd] = None]
              /\ running' = IF activate THEN n ELSE None
              /\ calls' = IF activate THEN 0 ELSE calls
              /\ IF activate /\ n = Pump THEN count' = written /\ written' = 0
                 ELSE UNCHANGED <<count, written>>
              /\ IF activate /\ n # Pump THEN ready' \in {ready, ready \ {n}} ELSE UNCHANGED ready
    BY <1>10 DEF Dispatch
  <2>2. notifiers[fd] \in Notifiers \cup {None}
    BY <1>0 DEF TypeOK
  <2>3. /\ revents' \in [Fds -> Notifiers \cup {None}]
        /\ running' \in Notifiers \cup Timers \cup {None} /\ calls' \in Nat
        /\ count' \in Nat /\ written' \in Nat /\ ready' \subseteq Notifiers
    BY <1>0, <2>1, <2>2 DEF RestTyped
  <2> QED BY <1>0, <1>10, <2>3 DEF RestTyped, Dispatch
<1>11. CASE Receive
  BY <1>0, <1>11 DEF RestTyped, Receive
<1>12. CASE Return
  BY <1>0, <1>12 DEF RestTyped, Return
<1>13. CASE EndOfTurn
  BY <1>0, <1>13 DEF RestTyped, EndOfTurn, Places
<1>14. ASSUME NEW x \in Senders, Push(x) \/ TriggerEvent(x) PROVE RestTyped'
  BY <1>0, <1>14 DEF RestTyped, Push, TriggerEvent
<1>15. ASSUME NEW n \in Notifiers, Arrive(n) PROVE RestTyped'
  BY <1>0, <1>15 DEF RestTyped, Arrive
<1>16. CASE Tick
  <2>1. /\ call' = Sooner(call) /\ twisted' = Sooner(twisted) /\ wake' = Sooner(wake)
        /\ now' = IF now \in {None, -Late - 1} THEN now ELSE now - 1
    BY <1>16 DEF Tick
  <2>2. /\ call' \in Nat \cup {None} /\ twisted' \in Nat \cup {None}
        /\ wake' \in Nat \cup {Forever} /\ now' \in Int \cup {None}
    BY <1>0, <2>1 DEF RestTyped, Sooner
  <2> QED BY <1>0, <1>16, <2>2 DEF RestTyped, Tick
<1>17. CASE UNCHANGED vars
  BY <1>0, <1>17 DEF RestTyped, vars
<1> QED
  BY <1>1, <1>2, <1>3, <1>4, <1>5, <1>6, <1>7, <1>8, <1>9, <1>10, <1>11, <1>12, <1>13, <1>14, <1>15, <1>16, <1>17
     DEF Next, Calls, LoopStep

LEMMA TypesStep ==
  ASSUME IInv, [Next]_vars
  PROVE  TypeOK'
<1>1. /\ sn' \in [Notifiers -> [fd : Fds \cup {None}, state : 0 .. 2, held : BOOLEAN]]
      /\ notifiers' \in [Fds -> Notifiers \cup {None}] /\ aborted' = FALSE
  BY RegsStep DEF RegsOK, Regs, RegsType, Notifier
<1> QED BY <1>1, TimersTyped, RestStep DEF TypeOK, RestTyped, TimerType

\* A message is under way in three places, one after the other; do_recv takes as many as there were
\* events.
LEMMA CountedStep ==
  ASSUME IInv, [Next]_vars, TypeOK'
  PROVE  Counted'
<1>0. /\ Counted /\ queued \in Nat /\ written \in Nat /\ count \in Nat
      /\ Cardinality(pushed) \in Nat /\ aborted' = FALSE
  BY RegsStep, FS_CardinalityType DEF IInv, TypeOK, Counted, RegsOK, Regs
<1>1. ASSUME NEW s \in Senders, Push(s) PROVE Counted'
  <2>1. s \notin pushed /\ queued' = queued + 1 /\ pushed' = pushed \cup {s}
        /\ UNCHANGED <<written, count, running>>
    BY <1>1 DEF Push, turnVars
  <2>2. IsFiniteSet(pushed') /\ Cardinality(pushed') = Cardinality(pushed) + 1
    BY <1>0, <2>1, FS_AddElement DEF Counted
  <2> QED BY <1>0, <2>1, <2>2 DEF Counted
<1>2. ASSUME NEW s \in Senders, TriggerEvent(s) PROVE Counted'
  <2>1. s \in pushed /\ written' = written + 1 /\ pushed' = pushed \ {s}
        /\ UNCHANGED <<queued, count, running>>
    BY <1>2 DEF TriggerEvent, turnVars
  <2>2. IsFiniteSet(pushed') /\ Cardinality(pushed') = Cardinality(pushed) - 1
    BY <1>0, <2>1, FS_RemoveElement DEF Counted
  <2> QED BY <1>0, <2>1, <2>2 DEF Counted
<1>3. CASE Dispatch
  <2>1. running = None /\ UNCHANGED <<queued, pushed>>
    BY <1>3 DEF Dispatch, Loop
  <2>2. count = 0
    BY <1>0, <2>1, MainLoopAssumption DEF Counted
  <2>3. \/ running' = Pump /\ count' = written /\ written' = 0
        \/ UNCHANGED <<count, written>>
    BY <1>3 DEF Dispatch
  <2> QED BY <1>0, <2>1, <2>2, <2>3 DEF Counted
<1>4. CASE Receive
  <2>1. running = Pump /\ count > 0 /\ UNCHANGED <<written, pushed, running>>
    BY <1>4 DEF Receive
  <2>2. queued' = queued - 1 /\ count' = count - 1
    BY <1>0, <1>4 DEF Receive
  <2> QED BY <1>0, <2>1, <2>2 DEF Counted
<1>5. CASE Return
  <2>1. (running = Pump => count = 0) /\ UNCHANGED <<queued, written, pushed, count>>
    BY <1>5 DEF Return, pumpVars
  <2>2. count = 0
    BY <1>0, <2>1 DEF Counted
  <2> QED BY <1>0, <2>1, <2>2 DEF Counted
<1>6. CASE ActivateTimer
  <2>1. running = None /\ UNCHANGED <<queued, written, pushed, count>>
    BY <1>6 DEF ActivateTimer, Loop, pumpVars
  <2>2. count = 0
    BY <1>0, <2>1, MainLoopAssumption DEF Counted
  <2> QED BY <1>0, <2>1, <2>2 DEF Counted
<1>7. ASSUME UNCHANGED <<pumpVars, count, running>> PROVE Counted'
  BY <1>0, <1>7 DEF Counted, pumpVars
<1>8. ASSUME NEW n \in Notifiers,
             Create(n) \/ StartNotifier(n) \/ StopNotifier(n) \/ Drop(n) \/ Arrive(n)
      PROVE  UNCHANGED <<pumpVars, count, running>>
  BY <1>8 DEF Create, StartNotifier, StopNotifier, Drop, Arrive, MayCall
<1>9. ASSUME NEW t \in Timers, StopTimer(t) \/ \E k \in Kinds : StartTimer(t, k)
      PROVE  UNCHANGED <<pumpVars, count, running>>
  BY <1>9 DEF StopTimer, StartTimer, MayCall
<1>10. ASSUME NEW o \in BOOLEAN, PollReturns(o) PROVE UNCHANGED <<pumpVars, count, running>>
  BY <1>10 DEF PollReturns
<1>11. CASE CallLater \/ RunDelayed \/ DoPoll \/ Iterate \/ EnterPoll \/ EndOfTurn \/ Tick
  BY <1>11, <1>7 DEF CallLater, MayCall, RunDelayed, DoPoll, Iterate, EnterPoll, EndOfTurn, Tick
<1>12. CASE UNCHANGED vars
  BY <1>12, <1>7 DEF vars
<1> QED
  BY <1>1, <1>2, <1>3, <1>4, <1>5, <1>6, <1>7, <1>8, <1>9, <1>10, <1>11, <1>12
     DEF Next, Calls, LoopStep

\* No handler runs where only the loop is, so calls do not disturb what it has just found there.
LEMMA PlaceStep ==
  ASSUME IInv, [Next]_vars
  PROVE  PlaceOK'
<1>0. PlaceOK /\ TypeOK /\ None \notin Int
  BY MainLoopAssumption DEF IInv
<1> USE DEF turnVars
<1>1. ASSUME MayCall("files") \/ MayCall("timers") \/ MayCall("calls") PROVE PlaceOK'
  BY <1>0, <1>1 DEF PlaceOK, MayCall
<1>2. ASSUME NEW n \in Notifiers, Create(n) \/ StartNotifier(n) \/ StopNotifier(n) \/ Drop(n)
      PROVE  PlaceOK'
  BY <1>2, <1>1 DEF Create, StartNotifier, StopNotifier, Drop
<1>3. ASSUME NEW t \in Timers, StopTimer(t) \/ \E k \in Kinds : StartTimer(t, k)
      PROVE  PlaceOK'
  BY <1>3, <1>1 DEF StopTimer, StartTimer
<1>4. CASE CallLater
  BY <1>4, <1>1 DEF CallLater
<1>5. ASSUME UNCHANGED <<pc, running, m_timer_list, revents>>, now' = None <=> now = None
      PROVE  PlaceOK'
  BY <1>0, <1>5 DEF PlaceOK
<1>6. ASSUME NEW n \in Notifiers, Arrive(n) PROVE PlaceOK'
  BY <1>6, <1>5 DEF Arrive, timerVars
<1>7. ASSUME NEW x \in Senders, Push(x) \/ TriggerEvent(x) PROVE PlaceOK'
  BY <1>7, <1>5 DEF Push, TriggerEvent, timerVars
<1>8. CASE Tick
  <2>1. now' = None <=> now = None
    <3>1. now \in Int \cup {None} /\ now' = IF now \in {None, -Late - 1} THEN now ELSE now - 1
      BY <1>0, <1>8 DEF Tick, TypeOK
    <3> QED BY <1>0, <3>1
  <2> QED BY <1>8, <2>1, <1>5 DEF Tick
<1>9. CASE RunDelayed
  BY <1>9, <1>5 DEF RunDelayed, timerVars
<1>10. CASE DoPoll
  BY <1>0, <1>10 DEF DoPoll, PlaceOK, Loop
<1>11. CASE Iterate
  <2>1. running = None /\ pc = "iterate" /\ UNCHANGED <<running, m_timer_list, revents>>
    BY <1>11 DEF Iterate, Loop, timerVars
  <2>2. \/ pc' = "out"
        \/ pc' = "timers" /\ now' = IF m_timer_list = <<>> THEN None ELSE 0
    BY <1>11 DEF Iterate
  <2>3. revents = Nothing /\ None # 0
    BY <1>0, <2>1 DEF PlaceOK
  <2> QED BY <2>1, <2>2, <2>3 DEF PlaceOK, Nothing
<1>12. CASE ActivateTimer
  BY <1>0, <1>12 DEF ActivateTimer, Loop, Due, PlaceOK, Nothing
<1>13. CASE EnterPoll
  BY <1>0, <1>13 DEF EnterPoll, Loop, PlaceOK, Nothing
<1>14. ASSUME NEW o \in BOOLEAN, PollReturns(o) PROVE PlaceOK'
  BY <1>14 DEF PollReturns, PlaceOK
<1>15. CASE Dispatch
  <2>1. pc' = "dispatch"
    BY <1>15 DEF Dispatch, Loop
  <2> QED BY <2>1 DEF PlaceOK
<1>16. CASE Receive
  BY <1>16, <1>5 DEF Receive, timerVars
<1>17. CASE Return
  <2>1. running' = None /\ UNCHANGED <<pc, now, m_timer_list, revents>>
    BY <1>17 DEF Return, timerVars
  <2> QED BY <1>0, <2>1 DEF PlaceOK, Nothing
<1>18. CASE EndOfTurn
  <2>1. revents' = Nothing /\ running' = None /\ pc' \in {"out", "iterate"}
    BY <1>18 DEF EndOfTurn, Loop
  <2> QED BY <2>1 DEF PlaceOK, Nothing
<1>19. CASE UNCHANGED vars
  BY <1>19, <1>5 DEF vars, timerVars
<1> QED
  BY <1>2, <1>3, <1>4, <1>6, <1>7, <1>8, <1>9, <1>10, <1>11, <1>12, <1>13, <1>14, <1>15, <1>16, <1>17, <1>18, <1>19
     DEF Next, Calls, LoopStep

\* The list's first is the earliest, and poll sleeps until that one or less.
LEMMA SleepsStep ==
  ASSUME IInv, [Next]_vars
  PROVE  SleepsInTime'
<1>0. /\ PlaceOK /\ TypeOK /\ SleepsInTime /\ Listed(timer, m_timer_list)
      /\ None \notin Int /\ Forever \notin Int
  BY MainLoopAssumption DEF IInv
<1> SUFFICES ASSUME pc' = "poll" PROVE SleepsInTime'
  BY DEF SleepsInTime
<1>1. CASE EnterPoll
  <2>1. /\ pc = "timers" /\ UNCHANGED <<timer, m_timer_list>>
        /\ limited' = IsNearer(PollTimeout)
        /\ wake' = IF limited' THEN twisted ELSE PollTimeout
    BY <1>1 DEF EnterPoll, Loop, timerVars
  <2> SUFFICES ASSUME NEW t \in Timers, timer[t].active
               PROVE  wake' # Forever /\ (wake' <= timer[t].left \/ wake' = 0)
    BY <2>1 DEF SleepsInTime
  <2>2. t \in Range(m_timer_list) /\ m_timer_list \in Seq(Timers)
    BY <1>0 DEF Listed
  <2>3. m_timer_list # <<>>
    BY <2>2 DEF Range
  <2>4. now # None
    BY <1>0, <2>1, <2>3 DEF PlaceOK
  <2> DEFINE h == timer[Head(m_timer_list)].left
  <2>5. h <= timer[t].left /\ h \in Int /\ timer[t].left \in Int
    <3>1. Left(timer) \in [Timers -> Int] /\ \A u \in Timers : Left(timer)[u] = timer[u].left
      BY <1>0, LeftTypes DEF TypeOK
    <3>2. Head(m_timer_list) \in Timers
      BY <2>2, <2>3, RangeOfHead
    <3>3. Left(timer)[Head(m_timer_list)] <= Left(timer)[t]
      BY <1>0, <2>2, <2>3, <3>1, HeadIsLeast DEF Listed
    <3> QED BY <3>1, <3>2, <3>3
  <2>6. PollTimeout = IF h < 0 THEN 0 ELSE h
    BY <2>3, <2>4 DEF PollTimeout
  <2> HIDE DEF h
  <2>7. wake' = PollTimeout \/ (wake' = twisted /\ twisted # None /\ PollTimeout > twisted /\ twisted > 0)
    BY <2>1 DEF IsNearer
  <2>8. CASE wake' = PollTimeout
    BY <1>0, <2>5, <2>6, <2>8
  <2>9. CASE wake' = twisted /\ twisted # None /\ PollTimeout > twisted /\ twisted > 0
    <3>1. twisted \in Nat
      BY <1>0, <2>9 DEF TypeOK
    <3> QED BY <1>0, <2>5, <2>6, <2>9, <3>1
  <2> QED BY <2>7, <2>8, <2>9
<1>2. CASE Tick
  <2>1. /\ pc = "poll" /\ wake' = Sooner(wake)
        /\ timer' = [t \in Timers |-> IF timer[t].active THEN [timer[t] EXCEPT !.left = @ - 1]
                                      ELSE timer[t]]
    BY <1>2 DEF Tick
  <2> SUFFICES ASSUME NEW t \in Timers, timer'[t].active
               PROVE  wake' # Forever /\ (wake' <= timer'[t].left \/ wake' = 0)
    BY DEF SleepsInTime
  <2>2. timer[t].active /\ timer'[t].left = timer[t].left - 1 /\ timer[t].left \in Int
    BY <1>0, <2>1 DEF TypeOK
  <2>3. wake # Forever /\ (wake <= timer[t].left \/ wake = 0) /\ wake \in Nat
    BY <1>0, <2>1, <2>2 DEF SleepsInTime, TypeOK
  <2>4. wake' = IF wake = 0 THEN 0 ELSE wake - 1
    BY <1>0, <2>1, <2>3 DEF Sooner
  <2> QED BY <1>0, <2>2, <2>3, <2>4
<1>3. ASSUME UNCHANGED <<pc, timer, wake>> PROVE SleepsInTime'
  BY <1>0, <1>3 DEF SleepsInTime
<1> USE DEF turnVars
<1>4. ASSUME MayCall("files") \/ MayCall("timers") \/ MayCall("calls") PROVE FALSE
  BY <1>0, <1>4 DEF PlaceOK, MayCall
<1>5. ASSUME NEW n \in Notifiers, Create(n) \/ StartNotifier(n) \/ StopNotifier(n) \/ Drop(n)
      PROVE  FALSE
  BY <1>5, <1>4 DEF Create, StartNotifier, StopNotifier, Drop
<1>6. ASSUME NEW t \in Timers, StopTimer(t) \/ \E k \in Kinds : StartTimer(t, k)
      PROVE  FALSE
  BY <1>6, <1>4 DEF StopTimer, StartTimer
<1>7. CASE CallLater
  BY <1>7, <1>4 DEF CallLater
<1>8. ASSUME NEW n \in Notifiers, Arrive(n) PROVE SleepsInTime'
  BY <1>8, <1>3 DEF Arrive, timerVars
<1>9. ASSUME NEW x \in Senders, Push(x) \/ TriggerEvent(x) PROVE SleepsInTime'
  BY <1>9, <1>3 DEF Push, TriggerEvent, timerVars
<1>10. CASE RunDelayed
  BY <1>10 DEF RunDelayed, Loop
<1>11. CASE DoPoll
  BY <1>11 DEF DoPoll
<1>12. CASE Iterate
  BY <1>12 DEF Iterate
<1>13. CASE ActivateTimer
  BY <1>13 DEF ActivateTimer, Loop
<1>14. ASSUME NEW o \in BOOLEAN, PollReturns(o) PROVE FALSE
  BY <1>14 DEF PollReturns
<1>15. CASE Dispatch
  BY <1>15 DEF Dispatch, Loop
<1>16. CASE Receive
  BY <1>16, <1>3 DEF Receive, timerVars
<1>17. CASE Return
  BY <1>17, <1>3 DEF Return, timerVars
<1>18. CASE EndOfTurn
  BY <1>18 DEF EndOfTurn
<1>19. CASE UNCHANGED vars
  BY <1>19, <1>3 DEF vars, timerVars
<1> QED
  BY <1>1, <1>2, <1>5, <1>6, <1>7, <1>8, <1>9, <1>10, <1>11, <1>12, <1>13, <1>14, <1>15, <1>16, <1>17, <1>18, <1>19
     DEF Next, Calls, LoopStep

LEMMA Initially ==
  ASSUME Init
  PROVE  IInv
<1> USE MainLoopAssumption
<1>1. PICK fd \in Fds :
        /\ sn = [n \in Notifiers |->
                   IF n = Pump THEN [fd |-> fd, state |-> 2, held |-> TRUE] ELSE Gone]
        /\ notifiers = [f \in Fds |-> IF f = fd THEN Pump ELSE None]
  BY DEF Init
<1>2. /\ Gone \in Notifier /\ Gone.state = 0 /\ ~Gone.held
      /\ [fd |-> fd, state |-> 2, held |-> TRUE] \in Notifier
  BY DEF Gone, Notifier
<1>3. sn \in [Notifiers -> Notifier] /\ notifiers \in [Fds -> Notifiers \cup {None}]
  BY <1>1, <1>2
<1>4. TypeOK
  <2>1. timer \in [Timers -> [active : BOOLEAN, kind : Kinds \cup {None}, left : Int]]
    BY DEF Init, Idle
  <2>2. revents \in [Fds -> Notifiers \cup {None}]
    BY DEF Init, Nothing
  <2>3. RestTyped
    <3>1. /\ program \in Programs /\ ready = {} /\ m_interrupt_requested = FALSE /\ call = None
          /\ twisted = None /\ queued = 0 /\ written = 0 /\ pushed = {} /\ count = 0
          /\ pc = "out" /\ running = None /\ calls = 0
          /\ now = None /\ wake = Forever /\ limited = FALSE /\ leave = FALSE
      BY DEF Init
    <3> QED BY ONLY <2>2, <3>1 DEF RestTyped, Places
  <2>4. m_timer_list \in Seq(Timers)
    <3>1. m_timer_list = <<>>
      BY DEF Init
    <3> QED BY ONLY <3>1
  <2>5. aborted \in BOOLEAN
    BY DEF Init
  <2> QED BY <1>3, <2>1, <2>3, <2>4, <2>5 DEF TypeOK, RestTyped, Notifier
<1>5. RegsOK(Regs, running)
  <2>1. /\ sn[Pump] = [fd |-> fd, state |-> 2, held |-> TRUE]
        /\ \A n \in Notifiers : n # Pump => sn[n] = Gone
    BY <1>1
  <2>2. Regs.sn = sn /\ Regs.notifiers = notifiers /\ ~Regs.aborted
    BY DEF Regs, Init
  <2>3. Registered(Regs)
    BY <1>1, <1>2, <2>1, <2>2 DEF Registered
  <2>4. FilesDiffer(Regs) /\ OthersAreGone(Regs, running)
    BY <1>2, <2>1, <2>2 DEF FilesDiffer, OthersAreGone
  <2> QED BY <1>4, <2>1, <2>2, <2>3, <2>4, RegsTyped DEF RegsOK
<1>6. Reports
  BY <1>1, <1>2 DEF Reports, Init, Nothing
<1>7. Counted
  BY FS_EmptySet DEF Counted, Init
<1>8. Listed(timer, m_timer_list)
  BY DEF Listed, Init, Idle, Distinct, Ordered, Range
<1>9. PlaceOK /\ SleepsInTime
  BY DEF PlaceOK, SleepsInTime, Init
<1> QED BY <1>4, <1>5, <1>6, <1>7, <1>8, <1>9 DEF IInv

LEMMA IInvStep ==
  ASSUME IInv, [Next]_vars
  PROVE  IInv'
<1>1. TypeOK'
  BY TypesStep
<1> QED BY <1>1, RegsStep, CountedStep, ListedStep, PlaceStep, SleepsStep DEF IInv

\* The loop calls handlers in two places.
LEMMA OthersRunOn ==
  ASSUME [Next]_vars, ~Dispatch, ~ActivateTimer, ~Return
  PROVE  running' = running
<1>1. ASSUME NEW n \in Notifiers,
             Create(n) \/ StartNotifier(n) \/ StopNotifier(n) \/ Drop(n) \/ Arrive(n)
      PROVE  running' = running
  BY <1>1 DEF Create, StartNotifier, StopNotifier, Drop, Arrive, MayCall
<1>2. ASSUME NEW t \in Timers, StopTimer(t) \/ \E k \in Kinds : StartTimer(t, k)
      PROVE  running' = running
  BY <1>2 DEF StopTimer, StartTimer, MayCall
<1>3. ASSUME NEW o \in BOOLEAN, PollReturns(o) PROVE running' = running
  BY <1>3 DEF PollReturns
<1>4. ASSUME NEW x \in Senders, Push(x) \/ TriggerEvent(x) PROVE running' = running
  BY <1>4 DEF Push, TriggerEvent
<1>5. CASE \/ CallLater \/ RunDelayed \/ DoPoll \/ Iterate \/ EnterPoll \/ Receive \/ EndOfTurn
           \/ Tick
  BY <1>5 DEF CallLater, MayCall, RunDelayed, DoPoll, Iterate, EnterPoll, Receive, EndOfTurn, Tick
<1>6. CASE UNCHANGED vars
  BY <1>6 DEF vars
<1> QED BY <1>1, <1>2, <1>3, <1>4, <1>5, <1>6 DEF Next, Calls, LoopStep

-----------------------------------------------------------------------------

LEMMA Invariance == Spec => []IInv
<1>1. IInv /\ [Next]_vars => IInv'
  BY IInvStep
<1> QED BY Initially, <1>1, PTL DEF Spec

\* Every variable has its type, the list of the timers included (eMainloop, ebase.h).
THEOREM MainLoopTypes == Spec => []TypeOK
<1>1. IInv => TypeOK
  BY DEF IInv
<1> QED BY Invariance, <1>1, PTL

\* Whatever handlers start, stop, drop and open: no ASSERT of the registration of notifiers fails
\* (ebase.cpp:150), and no event of the pump is without its message (message.h:76).
THEOREM NoAbortAlways == Spec => []NoAbort
<1>1. IInv => NoAbort
  BY DEF IInv, RegsOK, Regs, NoAbort
<1> QED BY Invariance, <1>1, PTL

\* However handlers change the list while it is served, poll sleeps no longer than until the
\* first timer is due (ebase.cpp:205).
THEOREM SleepsInTimeAlways == Spec => []SleepsInTime
<1>1. IInv => SleepsInTime
  BY DEF IInv
<1> QED BY Invariance, <1>1, PTL

\* A descriptor that went from one file to another between poll and dispatch brings nobody an
\* event of the other's file (ebase.cpp:277).
THEOREM OwnEventsAlways == Spec => OwnEvents
<1>1. ASSUME IInv, [Next]_vars, running' # running, running' \in Notifiers
      PROVE  revents[sn[running'].fd] = running'
  <2>1. None \notin Notifiers /\ Notifiers \cap Timers = {}
    BY MainLoopAssumption
  <2>2. CASE Dispatch
    <3>1. PICK fd \in Fds :
            /\ revents[fd] # None
            /\ running' = IF IsPolled(notifiers[fd]) THEN notifiers[fd] ELSE None
      BY <2>2 DEF Dispatch
    <3>2. running' = notifiers[fd] /\ sn[running'].state = 1
      BY <1>1, <2>1, <3>1 DEF IsPolled
    <3>3. sn[running'].fd = fd
      BY <1>1, <2>1, <3>2 DEF IInv, RegsOK, Registered, Regs
    <3> QED BY <1>1, <3>1, <3>2, <3>3 DEF IInv, Reports
  <2>3. CASE ActivateTimer
    <3>1. running' \in Timers
      BY <1>1, <2>3, RangeOfHead DEF ActivateTimer, Due, IInv, TypeOK
    <3> QED BY <1>1, <2>1, <3>1
  <2>4. CASE Return
    BY <1>1, <2>1, <2>4 DEF Return
  <2>5. ~Dispatch /\ ~ActivateTimer /\ ~Return => running' = running
    BY <1>1, OthersRunOn
  <2> QED BY <1>1, <2>2, <2>3, <2>4, <2>5
<1>2. IInv /\ [Next]_vars
        => [running' # running /\ running' \in Notifiers => revents[sn[running'].fd] = running']_vars
  BY <1>1
<1> QED BY Invariance, <1>2, PTL DEF Spec, OwnEvents
=============================================================================
