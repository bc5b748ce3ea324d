------------------------- MODULE RecordTimerProofs -------------------------
(***************************************************************************)
(* What holds of RecordTimer for every set of timers and services, every   *)
(* duration and, but for the eTimer (Prompt), the lists and the recordings *)
(* that are left behind (Undisturbed), every choice of Env.                *)
(***************************************************************************)
EXTENDS RecordTimer, TimerListsProofs

-----------------------------------------------------------------------------
(* The operators on one entry *)

\* q is an entry that refers to the same service as r.
SameService(q, r) == q \in TimerEntry /\ q.rs = r.rs

LEMMA Times ==
  /\ PrepareTime \in Nat /\ MaxWaitTime \in Nat /\ WrongAhead \in Nat
  /\ KeepTime \in Nat /\ Ahead \in Nat /\ MaxTime \in Nat /\ MaxLate \in Nat
  /\ FirstBackoff \in Nat \ {0} /\ MaxBackoff \in Nat \ {0}
  /\ Day \in Nat \ {0} /\ AutoTime \in Nat \ {0} /\ Lengths \subseteq Nat
BY TimeAssumption

LEMMA TimeMovedEntry ==
  ASSUME NEW r \in TimerEntry
  PROVE  SameService(TimeMoved(r), r) /\ TimeMoved(r).state = r.state
<1>1. r.begin - PrepareTime \in Int
  BY Times DEF TimerEntry
<1>2. \A e \in Int : SameService([r EXCEPT !.prep = e, !.backoff = 0], r)
  BY DEF TimerEntry, SameService
<1>3. TimeMoved(r).state = r.state
  BY DEF TimeMoved, TimerEntry
<1> QED BY <1>1, <1>2, <1>3 DEF TimeMoved

LEMMA ResetEntry ==
  ASSUME NEW r \in TimerEntry
  PROVE  SameService(ResetState(r), r)
<1> DEFINE q == [r EXCEPT !.state = Waiting, !.cancelled = FALSE]
<1>1. SameService(q, r)
  <2>1. Waiting \in Waiting .. Ended
    BY DEF Waiting, Ended
  <2> QED BY <2>1 DEF TimerEntry, SameService
<1> HIDE DEF q
<1>2. SameService(TimeMoved(q), q)
  BY <1>1, TimeMovedEntry DEF SameService
<1> QED BY <1>1, <1>2 DEF ResetState, q, SameService

LEMMA RepeatedEntry ==
  ASSUME NEW r \in TimerEntry, NEW limit \in Int, NEW b \in BOOLEAN
  PROVE  /\ SameService(ProcessRepeated(r, limit, b), r)
         /\ ProcessRepeated(r, limit, b).state = r.state
<1> DEFINE time == IF b THEN r.end ELSE r.begin
           days == DaysUpTo(time, limit)
           move == Day * days
           to == r.end + move
           until == IF r.begin = r.end THEN to + 1 ELSE to
           q == [r EXCEPT !.begin = r.begin + move, !.end = until]
<1>1. r.begin \in Int /\ r.end \in Int
  BY DEF TimerEntry
<1>2. days \in Int
  BY <1>1, Times DEF DaysUpTo
<1> HIDE DEF days
<1>3. move \in Int
  BY <1>2, Times
<1> HIDE DEF move
<1>4. q \in TimerEntry /\ q.rs = r.rs /\ q.state = r.state
  <2>1. \A e, f \in Int : LET p == [r EXCEPT !.begin = e, !.end = f]
                          IN p \in TimerEntry /\ p.rs = r.rs /\ p.state = r.state
    BY DEF TimerEntry
  <2>2. r.begin + move \in Int /\ until \in Int
    BY <1>1, <1>3
  <2> HIDE DEF until
  <2> QED BY <2>1, <2>2
<1> HIDE DEF q
<1>5. SameService(TimeMoved(q), r) /\ TimeMoved(q).state = r.state
  BY <1>4, TimeMovedEntry DEF SameService
<1>6. ProcessRepeated(r, limit, b) = IF ~r.repeated THEN r ELSE TimeMoved(q)
  BY DEF ProcessRepeated, q, until, to, move, days
<1> QED BY <1>5, <1>6 DEF SameService

LEMMA NextOccurrenceEntry ==
  ASSUME NEW r \in TimerEntry, now \in Nat
  PROVE  SameService(NextOccurrence(r), r) /\ NextOccurrence(r).state = r.state
<1>1. now + 1 \in Int /\ TRUE \in BOOLEAN
  OBVIOUS
<1> QED BY <1>1, RepeatedEntry DEF NextOccurrence

LEMMA SkippedEntry ==
  ASSUME NEW r \in TimerEntry
  PROVE  SameService(Skipped(r), r)
BY DEF Skipped, TimerEntry, SameService

LEMMA AbortedEntry ==
  ASSUME NEW r \in TimerEntry, now \in Nat
  PROVE  SameService(Abort(r), r) /\ Abort(r).state = r.state
<1> DEFINE e == IF r.begin > now THEN now ELSE r.begin
<1>1. now \in Int /\ e \in Int
  BY DEF TimerEntry
<1>2. Abort(r) = [r EXCEPT !.end = now, !.begin = e, !.cancelled = TRUE]
  BY DEF Abort
<1> HIDE DEF e
<1>3. SameService([r EXCEPT !.end = now, !.begin = e, !.cancelled = TRUE], r)
  BY <1>1 DEF TimerEntry, SameService
<1>4. [r EXCEPT !.end = now, !.begin = e, !.cancelled = TRUE].state = r.state
  BY DEF TimerEntry
<1> QED BY <1>2, <1>3, <1>4, Zenon

LEMMA BackedOffEntry ==
  ASSUME NEW r \in TimerEntry, now \in Nat
  PROVE  /\ SameService(RetryPrepare(r), r) /\ RetryPrepare(r).state = r.state
         /\ SameService(RetryStart(r), r) /\ RetryStart(r).state = r.state
<1> DEFINE b == DoBackoff(r)
<1>1. b \in TimerEntry /\ b.rs = r.rs /\ b.state = r.state
  BY Times DEF DoBackoff, TimerEntry
<1> HIDE DEF b
<1>2. /\ SameService([b EXCEPT !.prep = now + b.backoff], r)
      /\ SameService([b EXCEPT !.begin = now + b.backoff], r)
  BY <1>1 DEF TimerEntry, SameService
<1> QED BY <1>1, <1>2 DEF RetryPrepare, RetryStart, b, TimerEntry

LEMMA NextActivationOfEntry ==
  ASSUME NEW r \in TimerEntry PROVE NextActivation(r) \in Int
BY DEF NextActivation, TimerEntry

LEMMA FreshEntry == Fresh \in TimerEntry /\ Fresh.rs = None
BY DEF Fresh, TimerEntry, Waiting, Ended

-----------------------------------------------------------------------------
(* The call stack *)

HeldIn(st, x) == \E i \in DOMAIN st : Holds(st[i], x)

NeedsEntry == {"finish", "remove", "again", "disable", "next"}

\* A frame names its entry, and the timewarp loop has each entry once.
FrameOK(f) ==
  /\ f \in Frame
  /\ f.pc \in NeedsEntry => f.x \in Timers
  /\ f.pc = "reset" => \A x \in Timers : f.rest[x] <= 1

\* A stack of such frames in which no two hold the same entry.
StackOK(st) ==
  /\ st \in Seq(Frame)
  /\ \A i \in DOMAIN st : FrameOK(st[i])
  /\ \A x \in Timers : \A i, j \in DOMAIN st : Holds(st[i], x) /\ Holds(st[j], x) => i = j

LEMMA PushedFrame ==
  ASSUME NEW st, StackOK(st), NEW f, FrameOK(f),
         \A x \in Timers : Holds(f, x) => ~HeldIn(st, x)
  PROVE  /\ StackOK(<<f>> \o st)
         /\ \A x \in Timers : HeldIn(<<f>> \o st, x) <=> Holds(f, x) \/ HeldIn(st, x)
<1> DEFINE r == <<f>> \o st
<1>1. st \in Seq(Frame) /\ f \in Frame /\ Len(st) \in Nat /\ DOMAIN st = 1 .. Len(st)
  BY DEF StackOK, FrameOK
<1>2. /\ r \in Seq(Frame) /\ Len(r) = Len(st) + 1 /\ r[1] = f
      /\ \A i \in 1 .. Len(st) : r[i + 1] = st[i]
  BY <1>1
<1>3. DOMAIN r = 1 .. Len(st) + 1
  BY <1>1, <1>2
<1> HIDE DEF r
<1>4. \A i \in DOMAIN r : i # 1 => i - 1 \in DOMAIN st /\ r[i] = st[i - 1]
  BY <1>1, <1>2, <1>3
<1>5. \A i \in DOMAIN r : FrameOK(r[i])
  BY <1>2, <1>4 DEF StackOK
<1>6. \A x \in Timers : \A i, j \in DOMAIN r : Holds(r[i], x) /\ Holds(r[j], x) => i = j
  <2> SUFFICES ASSUME NEW x \in Timers, NEW i \in DOMAIN r, NEW j \in DOMAIN r,
                      Holds(r[i], x), Holds(r[j], x)
               PROVE  i = j
    OBVIOUS
  <2>1. CASE i = 1 /\ j = 1
    BY <2>1
  <2>2. CASE i = 1 /\ j # 1
    BY <2>2, <1>2, <1>4 DEF HeldIn
  <2>3. CASE i # 1 /\ j = 1
    BY <2>3, <1>2, <1>4 DEF HeldIn
  <2>4. CASE i # 1 /\ j # 1
    <3>1. i - 1 = j - 1
      BY <2>4, <1>4 DEF StackOK
    <3> QED BY <3>1, <1>1, <1>3
  <2> QED BY <2>1, <2>2, <2>3, <2>4
<1>7. \A x \in Timers : HeldIn(r, x) <=> Holds(f, x) \/ HeldIn(st, x)
  <2> SUFFICES ASSUME NEW x \in Timers
               PROVE  HeldIn(r, x) <=> Holds(f, x) \/ HeldIn(st, x)
    OBVIOUS
  <2>1. HeldIn(r, x) => Holds(f, x) \/ HeldIn(st, x)
    BY <1>2, <1>4 DEF HeldIn
  <2>2. Holds(f, x) => HeldIn(r, x)
    BY <1>1, <1>2, <1>3 DEF HeldIn
  <2>3. HeldIn(st, x) => HeldIn(r, x)
    BY <1>1, <1>2, <1>3 DEF HeldIn
  <2> QED BY <2>1, <2>2, <2>3
<1> QED BY <1>2, <1>5, <1>6, <1>7 DEF r, StackOK

LEMMA PoppedFrame ==
  ASSUME NEW st, StackOK(st), st # <<>>
  PROVE  /\ FrameOK(Head(st))
         /\ StackOK(Tail(st))
         /\ \A x \in Timers : HeldIn(st, x) <=> Holds(Head(st), x) \/ HeldIn(Tail(st), x)
         /\ \A x \in Timers : Holds(Head(st), x) => ~HeldIn(Tail(st), x)
<1> DEFINE r == Tail(st)
<1>1. /\ st \in Seq(Frame) /\ Len(st) \in Nat \ {0} /\ DOMAIN st = 1 .. Len(st)
      /\ Head(st) = st[1]
  BY DEF StackOK
<1>2. /\ r \in Seq(Frame) /\ Len(r) = Len(st) - 1
      /\ \A i \in 1 .. Len(st) - 1 : r[i] = st[i + 1]
  BY <1>1
<1>3. DOMAIN r = 1 .. Len(st) - 1
  BY <1>1, <1>2
<1> HIDE DEF r
<1>4. \A i \in DOMAIN r : i + 1 \in DOMAIN st /\ r[i] = st[i + 1]
  BY <1>1, <1>2, <1>3
<1>5. \A i \in DOMAIN st : i # 1 => i - 1 \in DOMAIN r /\ st[i] = r[i - 1]
  BY <1>1, <1>2, <1>3
<1>6. FrameOK(Head(st)) /\ \A i \in DOMAIN r : FrameOK(r[i])
  BY <1>1, <1>4 DEF StackOK
<1>7. \A x \in Timers : \A i, j \in DOMAIN r : Holds(r[i], x) /\ Holds(r[j], x) => i = j
  <2> SUFFICES ASSUME NEW x \in Timers, NEW i \in DOMAIN r, NEW j \in DOMAIN r,
                      Holds(r[i], x), Holds(r[j], x)
               PROVE  i = j
    OBVIOUS
  <2>1. i + 1 = j + 1
    BY <1>4 DEF StackOK
  <2> QED BY <2>1, <1>1, <1>3
<1>8. ASSUME NEW x \in Timers
      PROVE  HeldIn(st, x) <=> Holds(Head(st), x) \/ HeldIn(r, x)
  <2>1. HeldIn(st, x) => Holds(Head(st), x) \/ HeldIn(r, x)
    BY <1>1, <1>5 DEF HeldIn
  <2>2. Holds(Head(st), x) => HeldIn(st, x)
    BY <1>1 DEF HeldIn
  <2>3. HeldIn(r, x) => HeldIn(st, x)
    BY <1>4 DEF HeldIn
  <2> QED BY <2>1, <2>2, <2>3
<1>9. ASSUME NEW x \in Timers, Holds(Head(st), x), HeldIn(r, x) PROVE FALSE
  <2>1. PICK i \in DOMAIN r : Holds(r[i], x)
    BY <1>9 DEF HeldIn
  <2>2. 1 = i + 1
    BY <2>1, <1>1, <1>4, <1>9 DEF StackOK
  <2> QED BY <2>2, <1>1, <1>3
<1> QED BY <1>2, <1>6, <1>7, <1>8, <1>9 DEF r, StackOK

-----------------------------------------------------------------------------
(* One home for every entry, stated of a list, a bag and a stack            *)

Homes(tl, pr, st) ==
  /\ tl \in Seq(Timers) /\ Distinct(tl)
  /\ pr \in [Timers -> Nat]
  /\ StackOK(st)
  /\ \A x \in Timers :
       /\ pr[x] <= 1
       /\ x \in Range(tl) => pr[x] = 0 /\ ~HeldIn(st, x)
       /\ pr[x] > 0 => ~HeldIn(st, x)

\* x is in none of them.
Nowhere(tl, pr, st, x) == x \notin Range(tl) /\ pr[x] = 0 /\ ~HeldIn(st, x)

LEMMA QuietFrame ==
  ASSUME NEW pc \in {"calc", "process"}, NEW st, StackOK(st)
  PROVE  /\ StackOK(<<Call(pc, None, Nobody)>> \o st)
         /\ \A x \in Timers : HeldIn(<<Call(pc, None, Nobody)>> \o st, x) <=> HeldIn(st, x)
<1> DEFINE f == Call(pc, None, Nobody)
<1>1. f \in Frame /\ f.pc = pc
  BY DEF Call, Frame, Pcs, Nobody
<1>2. \A x \in Timers : ~Holds(f, x)
  BY <1>1 DEF Holds
<1>3. FrameOK(f)
  BY <1>1 DEF FrameOK, NeedsEntry
<1> HIDE DEF f
<1>4. /\ StackOK(<<f>> \o st)
      /\ \A x \in Timers : HeldIn(<<f>> \o st, x) <=> Holds(f, x) \/ HeldIn(st, x)
  BY <1>2, <1>3, PushedFrame
<1> QED BY <1>2, <1>4 DEF f

\* A frame that names the entry it goes on with.
LEMMA EntryFrame ==
  ASSUME NEW pc \in {"remove", "again", "disable", "next"}, NEW y \in Timers,
         NEW st, StackOK(st)
  PROVE  /\ StackOK(<<Call(pc, y, Nobody)>> \o st)
         /\ \A x \in Timers : HeldIn(<<Call(pc, y, Nobody)>> \o st, x) <=> HeldIn(st, x)
<1> DEFINE f == Call(pc, y, Nobody)
<1>1. f \in Frame /\ f.pc = pc /\ f.x = y
  BY DEF Call, Frame, Pcs, Nobody
<1>2. \A x \in Timers : ~Holds(f, x)
  BY <1>1 DEF Holds
<1>3. FrameOK(f)
  BY <1>1 DEF FrameOK, NeedsEntry
<1> HIDE DEF f
<1>4. /\ StackOK(<<f>> \o st)
      /\ \A x \in Timers : HeldIn(<<f>> \o st, x) <=> Holds(f, x) \/ HeldIn(st, x)
  BY <1>2, <1>3, PushedFrame
<1> QED BY <1>2, <1>4 DEF f

\* What a handler leaves: m gives the services the entries refer to.
Leaves(m) ==
  /\ Homes(timer_list', processed', stack')
  /\ tm' \in [Timers -> TimerEntry]
  /\ \A y \in Timers : tm'[y].rs = m[y].rs
  /\ raised' \in BOOLEAN

\* addTimerEntry gives an entry that is nowhere one home.
LEMMA AddedEntry ==
  ASSUME now \in Nat, raised \in BOOLEAN,
         NEW m \in [Timers -> TimerEntry], NEW x \in Timers,
         NEW tl, NEW pr, NEW st, Homes(tl, pr, st), Nowhere(tl, pr, st, x),
         NEW noRecalc \in BOOLEAN, AddTimerEntry(m, x, tl, pr, st, noRecalc)
  PROVE  Leaves(m)
<1> DEFINE r == NextOccurrence(m[x])
<1>1. r \in TimerEntry /\ r.rs = m[x].rs
  BY NextOccurrenceEntry DEF SameService
<1> HIDE DEF r
<1>2. raised' \in BOOLEAN
  BY DEF AddTimerEntry
<1>3. CASE /\ tm' = [m EXCEPT ![x] = [Skipped(r) EXCEPT !.state = Ended]]
           /\ processed' = [pr EXCEPT ![x] = @ + 1]
           /\ timer_list' = tl
           /\ stack' = st
  <2>1. Skipped(r) \in TimerEntry /\ Skipped(r).rs = m[x].rs
    BY <1>1, SkippedEntry DEF SameService
  <2>2. LET q == [Skipped(r) EXCEPT !.state = Ended]
        IN q \in TimerEntry /\ q.rs = m[x].rs
    <3>1. Ended \in Waiting .. Ended
      BY DEF Waiting, Ended
    <3> QED BY <2>1, <3>1 DEF TimerEntry
  <2>3. /\ tm' \in [Timers -> TimerEntry]
        /\ \A y \in Timers : tm'[y].rs = m[y].rs
    BY <1>3, <2>2
  <2>4. Homes(timer_list', processed', stack')
    BY <1>3 DEF Homes, Nowhere
  <2> QED BY <2>3, <2>4, <1>2 DEF Leaves
<1>4. CASE /\ tm' = [m EXCEPT ![x] = r]
           /\ timer_list' \in Insorted(Keys([m EXCEPT ![x] = r]), tl, x)
           /\ processed' = pr
           /\ stack' = IF noRecalc THEN st ELSE <<Call("calc", None, Nobody)>> \o st
  <2>1. /\ timer_list' \in Seq(Timers) /\ Distinct(timer_list')
        /\ Range(timer_list') = Range(tl) \cup {x}
    BY <1>4, InsortedEntry DEF Homes, Nowhere
  <2>2. StackOK(stack') /\ \A y \in Timers : HeldIn(stack', y) <=> HeldIn(st, y)
    BY <1>4, QuietFrame DEF Homes
  <2>3. Homes(timer_list', processed', stack')
    BY <1>4, <2>1, <2>2 DEF Homes, Nowhere
  <2>4. /\ tm' \in [Timers -> TimerEntry]
        /\ \A y \in Timers : tm'[y].rs = m[y].rs
    BY <1>4, <1>1
  <2> QED BY <2>3, <2>4, <1>2 DEF Leaves
<1> QED BY <1>3, <1>4 DEF AddTimerEntry, r

\* An entry that was taken out of timer_list, or out of processed_timers, is nowhere.
LEMMA TakenOut ==
  ASSUME NEW tl, NEW pr, NEW st, Homes(tl, pr, st), NEW x \in Timers
  PROVE  /\ x \in Range(tl) => /\ Homes(Without(tl, x), pr, st)
                               /\ Nowhere(Without(tl, x), pr, st, x)
         /\ pr[x] > 0 => /\ Homes(tl, [pr EXCEPT ![x] = @ - 1], st)
                         /\ Nowhere(tl, [pr EXCEPT ![x] = @ - 1], st, x)
<1>1. ASSUME x \in Range(tl)
      PROVE  /\ Homes(Without(tl, x), pr, st)
             /\ Nowhere(Without(tl, x), pr, st, x)
  <2>1. /\ Without(tl, x) \in Seq(Timers) /\ Distinct(Without(tl, x))
        /\ Range(Without(tl, x)) = Range(tl) \ {x}
    BY <1>1, WithoutEntry DEF Homes
  <2> QED BY <1>1, <2>1 DEF Homes, Nowhere
<1>2. ASSUME pr[x] > 0
      PROVE  /\ Homes(tl, [pr EXCEPT ![x] = @ - 1], st)
             /\ Nowhere(tl, [pr EXCEPT ![x] = @ - 1], st, x)
  <2>1. pr[x] = 1 /\ pr \in [Timers -> Nat]
    BY <1>2 DEF Homes
  <2> QED BY <1>2, <2>1 DEF Homes, Nowhere
<1> QED BY <1>1, <1>2

LEMMA ChangedTime ==
  ASSUME now \in Nat, raised \in BOOLEAN, tm \in [Timers -> TimerEntry],
         NEW m \in [Timers -> TimerEntry], \A y \in Timers : m[y].rs = tm[y].rs,
         NEW x \in Timers, NEW st, Homes(timer_list, processed, st),
         Homes(timer_list, processed, stack), TimeChanged(m, x, st)
  PROVE  Leaves(tm)
<1> DEFINE r == TimeMoved(m[x])
           w == [r EXCEPT !.state = Waiting]
<1>1. r \in TimerEntry /\ r.rs = m[x].rs
  BY TimeMovedEntry DEF SameService
<1>2. w \in TimerEntry /\ w.rs = m[x].rs
  <2>1. Waiting \in Waiting .. Ended
    BY DEF Waiting, Ended
  <2> HIDE DEF r
  <2> QED BY <1>1, <2>1 DEF TimerEntry
<1> HIDE DEF r, w
<1>3. CASE IsProcessed(x) /\ AddTimerEntry([m EXCEPT ![x] = w], x, timer_list,
                               [processed EXCEPT ![x] = @ - 1], st, FALSE)
  <2>1. /\ Homes(timer_list, [processed EXCEPT ![x] = @ - 1], st)
        /\ Nowhere(timer_list, [processed EXCEPT ![x] = @ - 1], st, x)
    BY <1>3, TakenOut DEF IsProcessed
  <2>2. /\ [m EXCEPT ![x] = w] \in [Timers -> TimerEntry]
        /\ \A y \in Timers : [m EXCEPT ![x] = w][y].rs = tm[y].rs
    BY <1>2
  <2>3. Leaves([m EXCEPT ![x] = w])
    BY <1>3, <2>1, <2>2, AddedEntry
  <2> QED BY <2>2, <2>3 DEF Leaves
<1>4. CASE InList(x) /\ AddTimerEntry([m EXCEPT ![x] = r], x, Without(timer_list, x),
                                      processed, st, FALSE)
  <2>1. /\ Homes(Without(timer_list, x), processed, st)
        /\ Nowhere(Without(timer_list, x), processed, st, x)
    BY <1>4, TakenOut DEF InList
  <2>2. /\ [m EXCEPT ![x] = r] \in [Timers -> TimerEntry]
        /\ \A y \in Timers : [m EXCEPT ![x] = r][y].rs = tm[y].rs
    BY <1>1
  <2>3. Leaves([m EXCEPT ![x] = r])
    BY <1>4, <2>1, <2>2, AddedEntry
  <2> QED BY <2>2, <2>3 DEF Leaves
<1>5. CASE /\ tm' = [m EXCEPT ![x] = r]
           /\ stack' = st
           /\ UNCHANGED <<timer_list, processed, raised>>
  BY <1>5, <1>1 DEF Leaves
<1>6. CASE Raise
  BY <1>6 DEF Raise, Leaves
<1> QED BY <1>3, <1>4, <1>5, <1>6 DEF TimeChanged, r, w

LEMMA FinishFrame ==
  ASSUME NEW y \in Timers, NEW rest \in [Timers -> Nat], NEW st, StackOK(st),
         ~HeldIn(st, y)
  PROVE  /\ StackOK(<<Call("finish", y, rest)>> \o st)
         /\ \A x \in Timers :
              HeldIn(<<Call("finish", y, rest)>> \o st, x) <=> x = y \/ HeldIn(st, x)
<1> DEFINE f == Call("finish", y, rest)
<1>1. f \in Frame /\ f.pc = "finish" /\ f.x = y
  BY DEF Call, Frame, Pcs
<1>2. \A x \in Timers : Holds(f, x) <=> x = y
  BY <1>1 DEF Holds
<1>3. FrameOK(f)
  BY <1>1 DEF FrameOK, NeedsEntry
<1> HIDE DEF f
<1>4. /\ StackOK(<<f>> \o st)
      /\ \A x \in Timers : HeldIn(<<f>> \o st, x) <=> Holds(f, x) \/ HeldIn(st, x)
  BY <1>2, <1>3, PushedFrame
<1> QED BY <1>2, <1>4 DEF f

LEMMA SettledEntry ==
  ASSUME now \in Nat, raised \in BOOLEAN, tm \in [Timers -> TimerEntry],
         NEW r \in TimerEntry, NEW x \in Timers, InList(x),
         NEW st, Homes(timer_list, processed, st), Settle(r, x, st)
  PROVE  Leaves([tm EXCEPT ![x] = r])
<1> DEFINE tl == Without(timer_list, x)
           m == [tm EXCEPT ![x] = r]
<1>1. Homes(tl, processed, st) /\ Nowhere(tl, processed, st, x)
  BY TakenOut DEF InList
<1>2. m \in [Timers -> TimerEntry]
  OBVIOUS
<1>3. CASE /\ tm' = m
           /\ timer_list' \in Insorted(Keys(m), tl, x)
           /\ stack' = st
           /\ UNCHANGED <<processed, raised>>
  <2> HIDE DEF tl, m
  <2>1. /\ timer_list' \in Seq(Timers) /\ Distinct(timer_list')
        /\ Range(timer_list') = Range(tl) \cup {x}
    BY <1>1, <1>3, InsortedEntry DEF Homes, Nowhere
  <2>2. Homes(timer_list', processed', stack')
    BY <1>1, <1>3, <2>1 DEF Homes, Nowhere
  <2> QED BY <1>2, <1>3, <2>2 DEF Leaves, m
<1>4. CASE AddTimerEntry([tm EXCEPT ![x] = [NextOccurrence(r) EXCEPT !.state = Waiting]],
                         x, tl, processed, st, FALSE)
  <2> DEFINE n == NextOccurrence(r)
             w == [n EXCEPT !.state = Waiting]
             k == [tm EXCEPT ![x] = w]
  <2>1. n \in TimerEntry /\ n.rs = r.rs
    BY NextOccurrenceEntry DEF SameService
  <2> HIDE DEF n
  <2>2. w \in TimerEntry /\ w.rs = r.rs
    <3>1. Waiting \in Waiting .. Ended
      BY DEF Waiting, Ended
    <3> QED BY <2>1, <3>1 DEF TimerEntry
  <2> HIDE DEF w
  <2>3. k \in [Timers -> TimerEntry] /\ \A y \in Timers : k[y].rs = m[y].rs
    BY <2>2
  <2>4. Leaves(k)
    <3>1. AddTimerEntry(k, x, tl, processed, st, FALSE)
      BY <1>4 DEF n, w
    <3> HIDE DEF k, tl
    <3> QED BY <1>1, <2>3, <3>1, AddedEntry
  <2> QED BY <2>3, <2>4 DEF Leaves
<1>5. CASE /\ tm' = m
           /\ timer_list' = tl
           /\ stack' = <<Call("finish", x, WrongRunning(tl, m))>> \o st
           /\ UNCHANGED <<processed, raised>>
  <2>1. WrongRunning(tl, m) \in [Timers -> Nat]
    BY DEF WrongRunning
  <2> HIDE DEF tl, m
  <2>2. /\ StackOK(stack')
        /\ \A y \in Timers : HeldIn(stack', y) <=> y = x \/ HeldIn(st, y)
    BY <1>1, <1>5, <2>1, FinishFrame DEF Homes, Nowhere
  <2>3. Homes(timer_list', processed', stack')
    <3>1. timer_list' = tl /\ processed' = processed
      BY <1>5
    <3>2. Homes(tl, processed, st) /\ Nowhere(tl, processed, st, x)
      BY <1>1
    <3>3. \A y \in Timers : /\ y \in Range(tl) => ~HeldIn(stack', y)
                            /\ processed[y] > 0 => ~HeldIn(stack', y)
      BY <2>2, <3>2 DEF Homes, Nowhere
    <3> QED BY <2>2, <3>1, <3>2, <3>3 DEF Homes
  <2> QED BY <1>2, <1>5, <2>3 DEF Leaves, m
<1> QED BY <1>3, <1>4, <1>5 DEF Settle

-----------------------------------------------------------------------------
(* Entries and services                                                     *)

SvcStates == {"none", "idle", "prepared", "running"}

\* NoSharing, stated of the entries m and the services sv.
Owned(m, sv) ==
  \A x \in Timers : m[x].rs # None =>
    /\ sv[m[x].rs] # "none"
    /\ \A y \in Timers : m[y].rs = m[x].rs => x = y

\* What an activation leaves.
Keeps ==
  /\ Homes(timer_list', processed', stack')
  /\ tm' \in [Timers -> TimerEntry]
  /\ svc' \in [Services -> SvcStates]
  /\ raised' \in BOOLEAN
  /\ Owned(tm', svc')

\* How activate() may change the service of x: keep or forget it, take a new one, start
\* it, or stop and forget it.
ServiceStep(x, q) ==
  \/ svc' = svc /\ q.rs \in {tm[x].rs, None}
  \/ \E s \in Services, v \in {"idle", "prepared"} :
       svc[s] = "none" /\ svc' = [svc EXCEPT ![s] = v] /\ q.rs = s
  \/ /\ tm[x].rs # None /\ q.rs = tm[x].rs
     /\ svc' = [svc EXCEPT ![tm[x].rs] = "running"]
  \/ /\ tm[x].rs # None /\ q.rs = None
     /\ svc' = [svc EXCEPT ![tm[x].rs] = "none"]

LEMMA OwnedAfterStep ==
  ASSUME tm \in [Timers -> TimerEntry], svc \in [Services -> SvcStates], Owned(tm, svc),
         NEW x \in Timers, NEW q \in TimerEntry, ServiceStep(x, q),
         Leaves([tm EXCEPT ![x] = q])
  PROVE  Keeps
<1>1. /\ tm' \in [Timers -> TimerEntry]
      /\ tm'[x].rs = q.rs
      /\ \A y \in Timers : y # x => tm'[y].rs = tm[y].rs
  BY DEF Leaves
<1>2. \A y \in Timers : tm[y].rs \in Services \cup {None}
  BY DEF TimerEntry
<1>3. CASE svc' = svc /\ q.rs \in {tm[x].rs, None}
  BY <1>1, <1>3 DEF Leaves, Keeps, Owned
<1>4. CASE \E s \in Services, v \in {"idle", "prepared"} :
             svc[s] = "none" /\ svc' = [svc EXCEPT ![s] = v] /\ q.rs = s
  <2>1. PICK s \in Services, v \in {"idle", "prepared"} :
               svc[s] = "none" /\ svc' = [svc EXCEPT ![s] = v] /\ q.rs = s
    BY <1>4
  <2>2. \A y \in Timers : tm[y].rs # s
    BY <2>1, NoneAssumption DEF Owned
  <2>3. svc' \in [Services -> SvcStates]
    BY <2>1 DEF SvcStates
  <2>4. Owned(tm', svc')
    BY <1>1, <1>2, <2>1, <2>2 DEF Owned
  <2> QED BY <2>3, <2>4 DEF Leaves, Keeps
<1>5. CASE /\ tm[x].rs # None /\ q.rs = tm[x].rs
           /\ svc' = [svc EXCEPT ![tm[x].rs] = "running"]
  <2>1. svc' \in [Services -> SvcStates]
    BY <1>5 DEF SvcStates
  <2>2. \A y \in Timers : tm'[y].rs = tm[y].rs
    BY <1>1, <1>5
  <2>3. \A s \in Services : svc[s] # "none" => svc'[s] # "none"
    BY <1>5
  <2>4. Owned(tm', svc')
    BY <1>2, <2>2, <2>3 DEF Owned
  <2> QED BY <2>1, <2>4 DEF Leaves, Keeps
<1>6. CASE /\ tm[x].rs # None /\ q.rs = None
           /\ svc' = [svc EXCEPT ![tm[x].rs] = "none"]
  <2>1. svc' \in [Services -> SvcStates]
    BY <1>6 DEF SvcStates
  <2>2. \A s \in Services : s # tm[x].rs => svc'[s] = svc[s]
    BY <1>6
  <2>3. \A y \in Timers : y # x /\ tm[y].rs # None => tm[y].rs # tm[x].rs
    BY <1>6 DEF Owned
  <2>4. Owned(tm', svc')
    BY <1>1, <1>2, <1>6, <2>2, <2>3 DEF Owned
  <2> QED BY <2>1, <2>4 DEF Leaves, Keeps
<1> QED BY <1>3, <1>4, <1>5, <1>6 DEF ServiceStep

\* activate() leaves entry x as q, and settles it.
Activates(x, st) == \E q \in TimerEntry : ServiceStep(x, q) /\ Settle(q, x, st)

LEMMA Activation ==
  ASSUME now \in Nat, tm \in [Timers -> TimerEntry], svc \in [Services -> SvcStates],
         NEW x \in Timers, NEW r \in TimerEntry, r.rs = tm[x].rs, NEW st,
         DoActivate(r, x, st)
  PROVE  Activates(x, st) \/ (Raise /\ UNCHANGED svc)
<1>1. \A z \in Waiting .. Ended :
        LET q == [r EXCEPT !.state = z] IN q \in TimerEntry /\ q.rs = tm[x].rs
  BY DEF TimerEntry
<1>2. {Waiting, Prepared, Running, Ended} \subseteq Waiting .. Ended
  BY DEF Waiting, Prepared, Running, Ended
<1>3. CASE Settle([Skipped(r) EXCEPT !.state = Ended], x, st) /\ UNCHANGED svc
  <2> DEFINE q == [Skipped(r) EXCEPT !.state = Ended]
  <2>1. Skipped(r) \in TimerEntry /\ Skipped(r).rs = tm[x].rs
    BY SkippedEntry DEF SameService
  <2>2. q \in TimerEntry /\ q.rs = tm[x].rs
    BY <1>2, <2>1 DEF TimerEntry
  <2> QED BY <1>3, <2>2 DEF Activates, ServiceStep
<1>4. CASE Prepare(r, x, st)
  <2> DEFINE ready == [r EXCEPT !.state = Prepared, !.backoff = 0]
             lost == [r EXCEPT !.rs = None]
  <2>1. ready \in TimerEntry /\ ready.rs = tm[x].rs
    BY <1>2 DEF TimerEntry
  <2>2. lost \in TimerEntry /\ lost.rs = None
    BY DEF TimerEntry
  <2>3. RetryPrepare(r) \in TimerEntry /\ RetryPrepare(r).rs = tm[x].rs
    BY BackedOffEntry DEF SameService
  <2>4. \A s \in Services : /\ [r EXCEPT !.rs = s] \in TimerEntry
                            /\ [r EXCEPT !.rs = s].rs = s
                            /\ [ready EXCEPT !.rs = s] \in TimerEntry
                            /\ [ready EXCEPT !.rs = s].rs = s
    BY <1>2 DEF TimerEntry
  <2> HIDE DEF ready, lost
  <2>5. RetryPrepare(lost) \in TimerEntry /\ RetryPrepare(lost).rs = None
    BY <2>2, BackedOffEntry DEF SameService
  <2>6. CASE UNCHANGED svc /\ \E q \in {ready, RetryPrepare(r), r, lost, RetryPrepare(lost)} :
               Settle(q, x, st)
    BY <2>1, <2>2, <2>3, <2>5, <2>6 DEF Activates, ServiceStep
  <2>7. CASE \E s \in Services :
               /\ svc[s] = "none"
               /\ \/ /\ svc' = [svc EXCEPT ![s] = "idle"]
                     /\ Settle(RetryPrepare([r EXCEPT !.rs = s]), x, st)
                  \/ /\ svc' = [svc EXCEPT ![s] = "prepared"]
                     /\ Settle([ready EXCEPT !.rs = s], x, st)
    <3>1. PICK s \in Services :
               /\ svc[s] = "none"
               /\ \/ /\ svc' = [svc EXCEPT ![s] = "idle"]
                     /\ Settle(RetryPrepare([r EXCEPT !.rs = s]), x, st)
                  \/ /\ svc' = [svc EXCEPT ![s] = "prepared"]
                     /\ Settle([ready EXCEPT !.rs = s], x, st)
      BY <2>7
    <3>2. /\ RetryPrepare([r EXCEPT !.rs = s]) \in TimerEntry
          /\ RetryPrepare([r EXCEPT !.rs = s]).rs = s
      BY <2>4, BackedOffEntry DEF SameService
    <3>3. CASE /\ svc' = [svc EXCEPT ![s] = "idle"]
               /\ Settle(RetryPrepare([r EXCEPT !.rs = s]), x, st)
      BY <3>1, <3>2, <3>3 DEF Activates, ServiceStep
    <3>4. CASE /\ svc' = [svc EXCEPT ![s] = "prepared"]
               /\ Settle([ready EXCEPT !.rs = s], x, st)
      BY <3>1, <3>4, <2>4 DEF Activates, ServiceStep
    <3> QED BY <3>1, <3>3, <3>4
  <2> QED BY <1>4, <2>6, <2>7 DEF Prepare, ready, lost
<1>5. CASE Start(r, x, st)
  <2> DEFINE going == [r EXCEPT !.state = Running]
  <2>1. going \in TimerEntry /\ going.rs = tm[x].rs
    BY <1>1, <1>2
  <2>2. RetryStart(r) \in TimerEntry /\ RetryStart(r).rs = tm[x].rs
    BY BackedOffEntry DEF SameService
  <2> HIDE DEF going
  <2>3. CASE UNCHANGED svc /\ \E q \in {going, RetryStart(r)} : Settle(q, x, st)
    BY <2>1, <2>2, <2>3 DEF Activates, ServiceStep
  <2>4. CASE /\ r.rs # None /\ svc' = [svc EXCEPT ![r.rs] = "running"]
             /\ Settle(going, x, st)
    BY <2>1, <2>4 DEF Activates, ServiceStep
  <2>5. CASE Raise /\ UNCHANGED svc
    BY <2>5
  <2> QED BY <1>5, <2>3, <2>4, <2>5 DEF Start, going
<1>6. CASE Stop(r, x, st)
  <2> DEFINE over == [r EXCEPT !.state = Ended]
             gone == [r EXCEPT !.state = Ended, !.rs = None]
  <2>1. over \in TimerEntry /\ over.rs = tm[x].rs
    BY <1>1, <1>2
  <2>2. gone \in TimerEntry /\ gone.rs = None
    BY <1>2 DEF TimerEntry
  <2>3. \A end \in {now + 1, now + AutoTime} :
          /\ [r EXCEPT !.end = end] \in TimerEntry
          /\ [r EXCEPT !.end = end].rs = tm[x].rs
    <3>1. {now + 1, now + AutoTime} \subseteq Int
      BY Times
    <3>2. \A e \in Int : /\ [r EXCEPT !.end = e] \in TimerEntry
                         /\ [r EXCEPT !.end = e].rs = tm[x].rs
      BY DEF TimerEntry
    <3> QED BY <3>1, <3>2
  <2> HIDE DEF over, gone
  <2>4. CASE /\ UNCHANGED svc
             /\ \E end \in {now + 1, now + AutoTime} : Settle([r EXCEPT !.end = end], x, st)
    BY <2>3, <2>4 DEF Activates, ServiceStep
  <2>5. CASE Settle(over, x, st) /\ UNCHANGED svc
    BY <2>1, <2>5 DEF Activates, ServiceStep
  <2>6. CASE /\ r.rs # None /\ svc' = [svc EXCEPT ![r.rs] = "none"]
             /\ Settle(gone, x, st)
    BY <2>2, <2>6 DEF Activates, ServiceStep
  <2>7. CASE Raise /\ UNCHANGED svc
    BY <2>7
  <2> QED BY <1>6, <2>4, <2>5, <2>6, <2>7 DEF Stop, over, gone
<1> QED BY <1>3, <1>4, <1>5, <1>6 DEF DoActivate

-----------------------------------------------------------------------------
(* The inductive invariant                                                  *)

Clocks == now \in Nat /\ last \in Nat /\ delay \in Int

IInv ==
  /\ Clocks
  /\ tm \in [Timers -> TimerEntry]
  /\ svc \in [Services -> SvcStates]
  /\ raised \in BOOLEAN
  /\ Homes(timer_list, processed, stack)
  /\ Owned(tm, svc)

LEMMA KeepsIInv ==
  ASSUME IInv, Keeps, Clocks'
  PROVE  IInv'
BY DEF IInv, Keeps, Homes, Owned, Clocks, StackOK, HeldIn, Holds, FrameOK, Distinct

LEMMA ClocklessClocks ==
  ASSUME Clocks, Clockless
  PROVE  Clocks'
BY DEF Clocks, Clockless

\* An action that forgets services, or leaves them alone.
LEMMA OwnedByLess ==
  ASSUME NEW m, NEW n, NEW sv, Owned(m, sv),
         \A y \in Timers : n[y].rs \in {m[y].rs, None}
  PROVE  Owned(n, sv)
BY DEF Owned

LEMMA LeavesKeeps ==
  ASSUME IInv, Leaves(tm), UNCHANGED svc
  PROVE  Keeps
<1>1. \A y \in Timers : tm'[y].rs = tm[y].rs
  BY DEF Leaves
<1>2. Owned(tm', svc)
  BY <1>1, OwnedByLess DEF IInv
<1> QED BY <1>2 DEF IInv, Leaves, Keeps

\* Entry changes that the user or a handler makes before timeChanged.
LEMMA TimeChangedKeeps ==
  ASSUME IInv, NEW m \in [Timers -> TimerEntry], \A y \in Timers : m[y].rs = tm[y].rs,
         NEW x \in Timers, NEW st, Homes(timer_list, processed, st), TimeChanged(m, x, st),
         UNCHANGED svc
  PROVE  Keeps
<1>1. Leaves(tm)
  BY ChangedTime DEF IInv, Clocks
<1> QED BY <1>1, LeavesKeeps

LEMMA ActivationKeeps ==
  ASSUME IInv, NEW x \in Timers, InList(x), NEW r \in TimerEntry, r.rs = tm[x].rs,
         NEW st, Homes(timer_list, processed, st), DoActivate(r, x, st)
  PROVE  Keeps
<1>1. CASE Activates(x, st)
  <2>1. PICK q \in TimerEntry : ServiceStep(x, q) /\ Settle(q, x, st)
    BY <1>1 DEF Activates
  <2>2. Leaves([tm EXCEPT ![x] = q])
    BY <2>1, SettledEntry DEF IInv, Clocks
  <2> QED BY <2>1, <2>2, OwnedAfterStep DEF IInv
<1>2. CASE Raise /\ UNCHANGED svc
  BY <1>2 DEF Raise, IInv, Keeps
<1>3. Activates(x, st) \/ (Raise /\ UNCHANGED svc)
  BY Activation DEF IInv, Clocks
<1> QED BY <1>1, <1>2, <1>3

LEMMA Returning ==
  ASSUME IInv, stack # <<>>
  PROVE  /\ Homes(timer_list, processed, Return)
         /\ StackOK(Return)
         /\ FrameOK(Top)
         /\ \A x \in Timers : HeldIn(stack, x) <=> Holds(Top, x) \/ HeldIn(Return, x)
         /\ \A x \in Timers : Holds(Top, x) => ~HeldIn(Return, x)
<1>1. /\ FrameOK(Top) /\ StackOK(Return)
      /\ \A x \in Timers : HeldIn(stack, x) <=> Holds(Top, x) \/ HeldIn(Return, x)
      /\ \A x \in Timers : Holds(Top, x) => ~HeldIn(Return, x)
  BY PoppedFrame DEF IInv, Homes, Top, Return
<1>2. Homes(timer_list, processed, Return)
  BY <1>1 DEF IInv, Homes
<1> QED BY <1>1, <1>2

\* A frame that holds what the top frame held, or less, takes its place.
LEMMA Replaced ==
  ASSUME IInv, stack # <<>>, NEW f, FrameOK(f), \A x \in Timers : Holds(f, x) => Holds(Top, x)
  PROVE  /\ Homes(timer_list, processed, <<f>> \o Return)
         /\ \A x \in Timers : HeldIn(<<f>> \o Return, x) <=> Holds(f, x) \/ HeldIn(Return, x)
<1>1. /\ StackOK(<<f>> \o Return)
      /\ \A x \in Timers : HeldIn(<<f>> \o Return, x) <=> Holds(f, x) \/ HeldIn(Return, x)
  BY Returning, PushedFrame
<1> QED BY <1>1, Returning DEF IInv, Homes

\* An event starts a handler with a frame that holds nothing.
LEMMA FirstFrame ==
  ASSUME IInv, stack = <<>>, NEW f, FrameOK(f), \A x \in Timers : ~Holds(f, x)
  PROVE  Homes(timer_list, processed, <<f>>)
<1>1. f \in Frame
  BY DEF FrameOK
<1>2. <<f>> = <<f>> \o <<>>
  BY <1>1
<1> DEFINE empty == stack
<1>3. StackOK(empty) /\ empty = <<>>
  BY DEF IInv, Homes
<1>4. /\ StackOK(<<f>> \o empty)
      /\ \A x \in Timers : HeldIn(<<f>> \o empty, x) <=> Holds(f, x) \/ HeldIn(empty, x)
  BY <1>3, PushedFrame
<1>5. Homes(timer_list, processed, <<f>> \o empty)
  BY <1>4 DEF IInv, Homes
<1> QED BY <1>2, <1>3, <1>5

LEMMA FirstCall ==
  ASSUME IInv, stack = <<>>, NEW x \in Timers,
         NEW pc \in {"remove", "again", "disable", "next"}
  PROVE  Homes(timer_list, processed, <<Call(pc, x, Nobody)>>)
<1> DEFINE f == Call(pc, x, Nobody)
<1>1. f \in Frame /\ f.pc = pc /\ f.x = x
  BY DEF Call, Frame, Pcs, Nobody
<1>2. FrameOK(f) /\ \A y \in Timers : ~Holds(f, y)
  BY <1>1 DEF FrameOK, NeedsEntry, Holds
<1> HIDE DEF f
<1>3. Homes(timer_list, processed, <<f>>)
  BY <1>2, FirstFrame
<1> QED BY <1>3 DEF f

-----------------------------------------------------------------------------
(* The frames keep the invariant                                            *)

LEMMA EnterCalcKeeps == IInv /\ EnterCalc => Keeps
<1> SUFFICES ASSUME IInv, EnterCalc PROVE Keeps
  OBVIOUS
<1>1. stack # <<>>
  BY DEF EnterCalc, In
<1>2. Homes(timer_list, processed, Return) /\ StackOK(Return)
  BY <1>1, Returning
<1> DEFINE turn == <<Call("process", None, Nobody)>> \o Return
<1>3. StackOK(turn) /\ \A x \in Timers : HeldIn(turn, x) <=> HeldIn(Return, x)
  BY <1>2, QuietFrame
<1>4. UNCHANGED <<tm, timer_list, svc, raised>>
  BY DEF EnterCalc
<1>5. CASE /\ processed' = Nobody
           /\ stack' = <<Call("reset", None, processed)>> \o turn
  <2> DEFINE f == Call("reset", None, processed)
  <2>1. f \in Frame /\ f.pc = "reset" /\ f.rest = processed
    BY DEF Call, Frame, Pcs, IInv, Homes
  <2>2. FrameOK(f) /\ \A x \in Timers : Holds(f, x) <=> processed[x] > 0
    BY <2>1 DEF FrameOK, NeedsEntry, Holds, IInv, Homes
  <2>3. \A x \in Timers : processed[x] > 0 => ~HeldIn(turn, x)
    BY <1>2, <1>3 DEF Homes
  <2> HIDE DEF f, turn
  <2>4. /\ StackOK(<<f>> \o turn)
        /\ \A x \in Timers : HeldIn(<<f>> \o turn, x) <=> processed[x] > 0 \/ HeldIn(turn, x)
    BY <1>3, <2>2, <2>3, PushedFrame
  <2>5. stack' = <<f>> \o turn
    BY <1>5 DEF f
  <2>6. Homes(timer_list', processed', stack')
    BY <1>2, <1>3, <1>4, <1>5, <2>4, <2>5 DEF Homes, Nobody
  <2> QED BY <1>4, <2>6 DEF Keeps, IInv
<1>6. CASE stack' = turn /\ UNCHANGED processed
  <2> HIDE DEF turn
  <2>1. Homes(timer_list', processed', stack')
    BY <1>2, <1>3, <1>4, <1>6 DEF Homes
  <2> QED BY <1>4, <2>1 DEF Keeps, IInv
<1> QED BY <1>5, <1>6 DEF EnterCalc

LEMMA ResetProcessedKeeps == IInv /\ ResetProcessed => Keeps
<1> SUFFICES ASSUME IInv, ResetProcessed PROVE Keeps
  OBVIOUS
<1>1. stack # <<>> /\ Top.pc = "reset" /\ UNCHANGED svc
  BY DEF ResetProcessed, In
<1>2. /\ FrameOK(Top) /\ Top \in Frame
      /\ \A x \in Timers : Holds(Top, x) <=> Top.rest[x] > 0
  BY <1>1, Returning DEF FrameOK, Holds
<1>3. ASSUME NEW x \in Timers, Top.rest[x] > 0,
             AddTimerEntry([tm EXCEPT ![x] = ResetState(@)], x, timer_list, processed,
                           <<[Top EXCEPT !.rest[x] = @ - 1]>> \o Return, TRUE)
      PROVE  Keeps
  <2> DEFINE f == [Top EXCEPT !.rest[x] = @ - 1]
             m == [tm EXCEPT ![x] = ResetState(@)]
  <2>1. Top.rest \in [Timers -> Nat] /\ Top.rest[x] = 1
    BY <1>1, <1>2, <1>3 DEF Frame, FrameOK
  <2>2. f \in Frame /\ f.pc = "reset" /\ f.rest = [Top.rest EXCEPT ![x] = 0]
    <3>1. [Top.rest EXCEPT ![x] = 0] \in [Timers -> Nat]
      BY <2>1
    <3>2. \A q \in [Timers -> Nat] : [Top EXCEPT !.rest = q] \in Frame
                                    /\ [Top EXCEPT !.rest = q].pc = Top.pc
                                    /\ [Top EXCEPT !.rest = q].rest = q
      BY <1>2 DEF Frame
    <3>3. f = [Top EXCEPT !.rest = [Top.rest EXCEPT ![x] = 0]]
      BY <1>2, <2>1 DEF Frame
    <3> QED BY <1>1, <3>1, <3>2, <3>3
  <2>3. FrameOK(f)
    BY <1>1, <1>2, <2>1, <2>2 DEF FrameOK, NeedsEntry
  <2>4. \A y \in Timers : Holds(f, y) <=> y # x /\ Holds(Top, y)
    BY <1>1, <1>2, <2>1, <2>2 DEF Holds
  <2> HIDE DEF f
  <2>5. /\ Homes(timer_list, processed, <<f>> \o Return)
        /\ \A y \in Timers : HeldIn(<<f>> \o Return, y) <=> Holds(f, y) \/ HeldIn(Return, y)
    BY <1>1, <2>3, <2>4, Replaced
  <2>6. Nowhere(timer_list, processed, <<f>> \o Return, x)
    <3>1. HeldIn(stack, x) /\ ~HeldIn(Return, x)
      BY <1>1, <1>2, <1>3, Returning
    <3> QED BY <3>1, <2>4, <2>5 DEF IInv, Homes, Nowhere
  <2>7. SameService(ResetState(tm[x]), tm[x])
    BY ResetEntry DEF IInv
  <2>8. m \in [Timers -> TimerEntry] /\ \A y \in Timers : m[y].rs = tm[y].rs
    BY <2>7 DEF IInv, SameService
  <2>9. Leaves(m)
    <3>1. AddTimerEntry(m, x, timer_list, processed, <<f>> \o Return, TRUE)
      BY <1>3 DEF f
    <3> HIDE DEF m
    <3> QED BY <2>5, <2>6, <2>8, <3>1, AddedEntry DEF IInv, Clocks
  <2>10. Leaves(tm)
    BY <2>8, <2>9 DEF Leaves
  <2> QED BY <1>1, <2>10, LeavesKeeps
<1>4. CASE stack' = Return /\ UNCHANGED <<tm, timer_list, processed, raised>>
  <2>1. Homes(timer_list', processed', stack')
    BY <1>1, <1>4, Returning DEF Homes
  <2> QED BY <1>1, <1>4, <2>1 DEF Keeps, IInv
<1> QED BY <1>3, <1>4 DEF ResetProcessed

LEMMA ActivateHeadKeeps == IInv /\ ActivateHead => Keeps
<1> SUFFICES ASSUME IInv, ActivateHead PROVE Keeps
  OBVIOUS
<1>1. PICK x \in Timers : IsDue(x) /\ DoActivate(tm[x], x, stack)
  BY DEF ActivateHead
<1>2. InList(x)
  BY <1>1 DEF IsDue, IsFirst, InList, Range
<1> QED BY <1>1, <1>2, ActivationKeeps DEF IInv

LEMMA ScheduleNextKeeps == IInv /\ ScheduleNext => Keeps /\ Clocks'
<1> SUFFICES ASSUME IInv, ScheduleNext PROVE Keeps /\ Clocks'
  OBVIOUS
<1>1. stack # <<>> /\ stack' = Return /\ UNCHANGED <<now, tm, processed, svc, raised>>
  BY DEF ScheduleNext, In
<1>2. Homes(timer_list, processed, Return)
  BY <1>1, Returning
<1>3. /\ timer_list' \in Seq(Timers) /\ Distinct(timer_list')
      /\ Range(timer_list') = Range(timer_list)
  BY SortedEntries DEF ScheduleNext, IInv, Homes
<1>4. Homes(timer_list', processed', stack')
  BY <1>1, <1>2, <1>3 DEF Homes
<1>5. PICK when \in WakeTimes : delay' = IF when > now THEN when - now ELSE 0
  BY DEF ScheduleNext
<1>6. \A x \in Timers : NextActivation(tm[x]) \in Int
  BY NextActivationOfEntry DEF IInv
<1>7. when \in Int
  BY <1>6, Times DEF WakeTimes, IInv, Clocks
<1>8. Clocks'
  BY <1>1, <1>5, <1>7 DEF ScheduleNext, IInv, Clocks
<1> QED BY <1>1, <1>4, <1>8 DEF Keeps, IInv

LEMMA FinishKeeps == IInv /\ Finish => Keeps
<1> SUFFICES ASSUME IInv, Finish PROVE Keeps
  OBVIOUS
<1>1. stack # <<>> /\ Top.pc = "finish" /\ UNCHANGED svc
  BY DEF Finish, In
<1>2. /\ FrameOK(Top) /\ Top \in Frame /\ Top.x \in Timers
      /\ \A x \in Timers : Holds(Top, x) <=> Top.x = x
  BY <1>1, Returning DEF FrameOK, Holds, NeedsEntry
<1>3. ASSUME NEW y \in Timers, Top.rest[y] > 0,
             TimeChanged([tm EXCEPT ![y].state = Waiting], y,
                         <<[Top EXCEPT !.rest[y] = 0]>> \o Return)
      PROVE  Keeps
  <2> DEFINE f == [Top EXCEPT !.rest[y] = 0]
             m == [tm EXCEPT ![y].state = Waiting]
  <2>1. f \in Frame /\ f.pc = "finish" /\ f.x = Top.x
    BY <1>1, <1>2 DEF Frame
  <2>2. FrameOK(f) /\ \A x \in Timers : Holds(f, x) => Holds(Top, x)
    BY <1>2, <2>1 DEF FrameOK, NeedsEntry, Holds
  <2> HIDE DEF f
  <2>3. Homes(timer_list, processed, <<f>> \o Return)
    BY <1>1, <2>2, Replaced
  <2>4. m \in [Timers -> TimerEntry] /\ \A x \in Timers : m[x].rs = tm[x].rs
    <3>1. Waiting \in Waiting .. Ended
      BY DEF Waiting, Ended
    <3>2. \A r \in TimerEntry : SameService([r EXCEPT !.state = Waiting], r)
      BY <3>1 DEF TimerEntry, SameService
    <3> QED BY <3>2 DEF IInv, SameService
  <2>5. TimeChanged(m, y, <<f>> \o Return)
    BY <1>3 DEF f
  <2> HIDE DEF m
  <2> QED BY <1>1, <2>3, <2>4, <2>5, TimeChangedKeeps
<1>4. ASSUME processed' = [y \in Timers |->
                             IF y = Top.x THEN (IF Kept(y) THEN processed[y] ELSE 0) + 1
                             ELSE IF Kept(y) THEN processed[y] ELSE 0],
             tm' = [y \in Timers |->
                      IF IsProcessed(y) /\ y # Top.x
                      THEN IF Kept(y) THEN Skipped(tm[y]) ELSE Fresh
                      ELSE tm[y]],
             stack' = Return,
             UNCHANGED <<timer_list, raised>>
      PROVE  Keeps
  <2>1. HeldIn(stack, Top.x) /\ ~HeldIn(Return, Top.x)
    BY <1>1, <1>2, Returning
  <2>2. processed[Top.x] = 0 /\ Top.x \notin Range(timer_list)
    <3>1. processed[Top.x] \in Nat
      BY <1>2 DEF IInv, Homes
    <3> QED BY <1>2, <2>1, <3>1 DEF IInv, Homes
  <2>3. /\ processed' \in [Timers -> Nat]
        /\ \A y \in Timers : processed'[y] = IF y = Top.x THEN 1
                                            ELSE IF Kept(y) THEN processed[y] ELSE 0
    BY <1>4, <2>2 DEF IInv, Homes
  <2>4. Homes(timer_list, processed, Return)
    BY <1>1, Returning
  <2>5. Homes(timer_list', processed', stack')
    BY <1>4, <2>1, <2>2, <2>3, <2>4 DEF Homes
  <2>6. \A y \in Timers : tm[y] \in TimerEntry /\ SameService(Skipped(tm[y]), tm[y])
    BY SkippedEntry DEF IInv
  <2>7. tm' \in [Timers -> TimerEntry] /\ \A y \in Timers : tm'[y].rs \in {tm[y].rs, None}
    BY <1>4, <2>6, FreshEntry DEF SameService
  <2>8. Owned(tm', svc)
    BY <2>7, OwnedByLess DEF IInv
  <2> QED BY <1>1, <1>4, <2>5, <2>7, <2>8 DEF Keeps, IInv
<1> QED BY <1>3, <1>4 DEF Finish

LEMMA RemoveEntryKeeps == IInv /\ RemoveEntry => Keeps
<1> SUFFICES ASSUME IInv, RemoveEntry PROVE Keeps
  OBVIOUS
<1>1. stack # <<>> /\ Top.pc = "remove" /\ UNCHANGED svc
  BY DEF RemoveEntry, In
<1>2. /\ FrameOK(Top) /\ Top \in Frame /\ Top.x \in Timers
      /\ \A x \in Timers : ~Holds(Top, x)
  BY <1>1, Returning DEF FrameOK, Holds, NeedsEntry
<1>3. ASSUME NEW j \in DOMAIN timer_list,
             \/ \E end \in {now + 1, now + AutoTime} :
                  TimeChanged([tm EXCEPT ![timer_list[j]].end = end], timer_list[j],
                              <<[Top EXCEPT !.i = j]>> \o Return)
             \/ /\ stack' = <<[Top EXCEPT !.i = j]>> \o Return
                /\ UNCHANGED <<tm, timer_list, processed, raised>>
      PROVE  Keeps
  <2> DEFINE f == [Top EXCEPT !.i = j]
             y == timer_list[j]
  <2>1. j \in Nat /\ y \in Timers
    BY DEF IInv, Homes
  <2>2. f \in Frame /\ f.pc = "remove" /\ f.x = Top.x
    BY <1>1, <1>2, <2>1 DEF Frame
  <2>3. FrameOK(f) /\ \A x \in Timers : ~Holds(f, x)
    BY <1>2, <2>2 DEF FrameOK, NeedsEntry, Holds
  <2> HIDE DEF f, y
  <2>4. Homes(timer_list, processed, <<f>> \o Return)
    BY <1>1, <2>3, Replaced
  <2>5. ASSUME NEW end \in {now + 1, now + AutoTime},
               TimeChanged([tm EXCEPT ![y].end = end], y, <<f>> \o Return)
        PROVE  Keeps
    <3> DEFINE m == [tm EXCEPT ![y].end = end]
    <3>1. end \in Int
      BY Times DEF IInv, Clocks
    <3>2. \A r \in TimerEntry : SameService([r EXCEPT !.end = end], r)
      BY <3>1 DEF TimerEntry, SameService
    <3>3. m \in [Timers -> TimerEntry] /\ \A x \in Timers : m[x].rs = tm[x].rs
      BY <3>2, <2>1 DEF IInv, SameService
    <3> HIDE DEF m
    <3>4. TimeChanged(m, y, <<f>> \o Return)
      BY <2>5 DEF m
    <3> QED BY <1>1, <2>1, <2>4, <3>3, <3>4, TimeChangedKeeps
  <2>6. CASE stack' = <<f>> \o Return /\ UNCHANGED <<tm, timer_list, processed, raised>>
    BY <1>1, <2>4, <2>6 DEF Keeps, IInv
  <2> QED BY <1>3, <2>5, <2>6 DEF f, y
<1>4. CASE /\ IsProcessed(Top.x)
           /\ processed' = [processed EXCEPT ![Top.x] = @ - 1]
           /\ tm' = [tm EXCEPT ![Top.x] = Fresh]
           /\ stack' = Return
           /\ UNCHANGED <<timer_list, raised>>
  <2>1. Homes(timer_list, processed, Return)
    BY <1>1, Returning
  <2>2. Homes(timer_list', processed', stack')
    BY <1>2, <1>4, <2>1, TakenOut DEF IsProcessed
  <2>3. tm' \in [Timers -> TimerEntry] /\ \A y \in Timers : tm'[y].rs \in {tm[y].rs, None}
    BY <1>2, <1>4, FreshEntry DEF IInv
  <2>4. Owned(tm', svc)
    BY <2>3, OwnedByLess DEF IInv
  <2> QED BY <1>1, <1>4, <2>2, <2>3, <2>4 DEF Keeps, IInv
<1>5. CASE Raise
  BY <1>1, <1>5 DEF Raise, Keeps, IInv
<1> QED BY <1>3, <1>4, <1>5 DEF RemoveEntry

LEMMA StoppedCurrentKeeps == IInv /\ StoppedCurrent => Keeps
<1> SUFFICES ASSUME IInv, StoppedCurrent PROVE Keeps
  OBVIOUS
<1>1. stack # <<>> /\ Top.pc \in {"again", "disable"} /\ UNCHANGED svc
  BY DEF StoppedCurrent, In
<1>2. Top.x \in Timers /\ Homes(timer_list, processed, Return)
  BY <1>1, Returning DEF FrameOK, NeedsEntry
<1> DEFINE m == [tm EXCEPT ![Top.x].disabled = @ \/ In("disable")]
<1>3. \A b : \A r \in TimerEntry : SameService([r EXCEPT !.disabled = r.disabled \/ b], r)
  BY DEF TimerEntry, SameService
<1>4. m \in [Timers -> TimerEntry] /\ \A y \in Timers : m[y].rs = tm[y].rs
  BY <1>2, <1>3 DEF IInv, SameService
<1>5. TimeChanged(m, Top.x, Return)
  BY DEF StoppedCurrent
<1> HIDE DEF m
<1> QED BY <1>1, <1>2, <1>4, <1>5, TimeChangedKeeps

LEMMA SkippedNextKeeps == IInv /\ SkippedNext => Keeps
<1> SUFFICES ASSUME IInv, SkippedNext PROVE Keeps
  OBVIOUS
<1>1. stack # <<>> /\ Top.pc = "next" /\ UNCHANGED svc
  BY DEF SkippedNext, In
<1>2. Top.x \in Timers /\ Homes(timer_list, processed, Return)
  BY <1>1, Returning DEF FrameOK, NeedsEntry
<1> DEFINE r == ProcessRepeated(tm[Top.x], tm[Top.x].end + 1, TRUE)
           m == [tm EXCEPT ![Top.x] = [r EXCEPT !.disabled = FALSE]]
<1>3. TimeChanged(m, Top.x, Return)
  BY DEF SkippedNext
<1>4. tm[Top.x] \in TimerEntry /\ tm[Top.x].end + 1 \in Int
  BY <1>2 DEF IInv, TimerEntry
<1>5. r \in TimerEntry /\ r.rs = tm[Top.x].rs
  BY <1>4, RepeatedEntry DEF SameService
<1> HIDE DEF r
<1>6. [r EXCEPT !.disabled = FALSE] \in TimerEntry /\ [r EXCEPT !.disabled = FALSE].rs = r.rs
  BY <1>5 DEF TimerEntry
<1>7. m \in [Timers -> TimerEntry] /\ \A y \in Timers : m[y].rs = tm[y].rs
  BY <1>2, <1>5, <1>6 DEF IInv
<1> HIDE DEF m
<1> QED BY <1>1, <1>2, <1>3, <1>7, TimeChangedKeeps

-----------------------------------------------------------------------------
(* So do the events                                                         *)

LEMMA UsedEntry ==
  ASSUME IInv, Idle
  PROVE  /\ stack = <<>> /\ Homes(timer_list, processed, <<>>)
         /\ \A x \in Timers : tm[x] \in TimerEntry
         /\ \A x \in Timers : ~HeldIn(stack, x)
BY DEF IInv, Idle, HeldIn, Homes

\* An event that changes fields of one entry and calls timeChanged.
LEMMA UserChangeKeeps ==
  ASSUME IInv, Idle, NEW x \in Timers, NEW r, SameService(r, tm[x]),
         TimeChanged([tm EXCEPT ![x] = r], x, <<>>), UNCHANGED svc
  PROVE  Keeps
<1> DEFINE m == [tm EXCEPT ![x] = r]
<1>1. m \in [Timers -> TimerEntry] /\ \A y \in Timers : m[y].rs = tm[y].rs
  BY DEF IInv, SameService
<1> HIDE DEF m
<1>2. TimeChanged(m, x, <<>>)
  BY DEF m
<1> QED BY <1>1, <1>2, UsedEntry, TimeChangedKeeps

LEMMA TimerFiresKeeps == IInv /\ TimerFires => Keeps
<1> SUFFICES ASSUME IInv, TimerFires PROVE Keeps
  OBVIOUS
<1> DEFINE f == Call("calc", None, Nobody)
<1>1. f \in Frame /\ f.pc = "calc"
  BY DEF Call, Frame, Pcs, Nobody
<1>2. FrameOK(f) /\ \A y \in Timers : ~Holds(f, y)
  BY <1>1 DEF FrameOK, NeedsEntry, Holds
<1>3. stack' = <<f>> /\ UNCHANGED <<tm, timer_list, processed, svc, raised>> /\ stack = <<>>
  BY DEF TimerFires, Idle
<1> HIDE DEF f
<1>4. Homes(timer_list, processed, <<f>>)
  BY <1>2, <1>3, FirstFrame
<1> QED BY <1>3, <1>4 DEF Keeps, IInv

LEMMA RecordKeeps == \A x \in Timers : IInv /\ Record(x) => Keeps
<1> SUFFICES ASSUME NEW x \in Timers, IInv, Record(x) PROVE Keeps
  OBVIOUS
<1>1. PICK begin \in now - 1 .. now + Ahead, length \in Lengths,
        repeated \in BOOLEAN, justplay \in BOOLEAN, auto \in BOOLEAN :
       /\ begin + length <= MaxTime
       /\ repeated => "repeated" \in Env
       /\ justplay => "justplay" \in Env
       /\ auto => x \in Instant /\ ~repeated /\ ~justplay
       /\ AddTimerEntry([tm EXCEPT ![x] = TimeMoved([Fresh EXCEPT !.begin = begin,
                            !.end = begin + length, !.repeated = repeated,
                            !.justplay = justplay, !.auto = auto])],
                        x, timer_list, processed, <<>>, FALSE)
  BY Zenon DEF Record
<1> DEFINE r == [Fresh EXCEPT !.begin = begin, !.end = begin + length,
                              !.repeated = repeated, !.justplay = justplay, !.auto = auto]
           q == TimeMoved(r)
           m == [tm EXCEPT ![x] = q]
<1>2. begin \in Int /\ begin + length \in Int
  BY Times DEF IInv, Clocks
<1>3. SameService(r, Fresh)
  BY <1>2, FreshEntry DEF TimerEntry, SameService
<1> HIDE DEF r
<1>4. SameService(q, Fresh)
  BY <1>3, TimeMovedEntry DEF SameService
<1>5. AddTimerEntry(m, x, timer_list, processed, <<>>, FALSE)
  BY <1>1 DEF r
<1> HIDE DEF q
<1>6. m \in [Timers -> TimerEntry] /\ \A y \in Timers : m[y].rs \in {tm[y].rs, None}
  BY <1>4, FreshEntry DEF IInv, SameService
<1> HIDE DEF m
<1>7. Nowhere(timer_list, processed, <<>>, x)
  BY DEF Record, Live, InList, IsProcessed, IInv, Homes, Nowhere, HeldIn
<1>8. Idle
  BY DEF Record
<1>9. Leaves(m)
  BY <1>5, <1>6, <1>7, <1>8, UsedEntry, AddedEntry DEF IInv, Clocks
<1>10. \A y \in Timers : tm'[y].rs \in {tm[y].rs, None}
  BY <1>6, <1>9 DEF Leaves
<1>11. Owned(tm', svc)
  BY <1>10, OwnedByLess DEF IInv
<1> QED BY <1>9, <1>11 DEF Record, IInv, Leaves, Keeps

LEMMA BeginRemovalKeeps ==
  ASSUME IInv, Idle, NEW x \in Timers, BeginRemoval(x), UNCHANGED svc
  PROVE  Keeps
<1> DEFINE r == [tm[x] EXCEPT !.repeated = FALSE, !.auto = FALSE]
           m == [tm EXCEPT ![x] = Abort(r)]
           removing == <<Call("remove", x, Nobody)>>
<1>1. SameService(r, tm[x])
  BY UsedEntry DEF TimerEntry, SameService
<1>2. \/ TimeChanged(m, x, removing)
      \/ tm' = m /\ stack' = removing /\ UNCHANGED <<timer_list, processed, raised>>
  BY DEF BeginRemoval
<1> HIDE DEF r
<1>3. SameService(Abort(r), tm[x])
  BY <1>1, AbortedEntry DEF SameService, IInv, Clocks
<1>4. m \in [Timers -> TimerEntry] /\ \A y \in Timers : m[y].rs = tm[y].rs
  BY <1>3 DEF IInv, SameService
<1> HIDE DEF m
<1>5. Homes(timer_list, processed, removing)
  BY UsedEntry, FirstCall
<1> HIDE DEF removing
<1>6. CASE TimeChanged(m, x, removing)
  BY <1>4, <1>5, <1>6, TimeChangedKeeps
<1>7. CASE tm' = m /\ stack' = removing /\ UNCHANGED <<timer_list, processed, raised>>
  <2>1. Owned(tm', svc)
    BY <1>4, <1>7, OwnedByLess DEF IInv
  <2> QED BY <1>4, <1>5, <1>7, <2>1 DEF Keeps, IInv
<1> QED BY <1>2, <1>6, <1>7

LEMMA RemovalsKeep ==
  \A x \in Timers : IInv /\ (UserRemoves(x) \/ RecordingAborted(x)) => Keeps
BY BeginRemovalKeeps DEF UserRemoves, RecordingAborted

\* The entry as doActivate finds it when a recording ends.
LEMMA EndedRecording ==
  ASSUME IInv, NEW x \in Timers, NEW b \in BOOLEAN
  PROVE  SameService(ProcessRepeated([tm[x] EXCEPT !.disabled = b], now + 1, FALSE), tm[x])
<1> DEFINE q == [tm[x] EXCEPT !.disabled = b]
<1>1. SameService(q, tm[x])
  BY DEF IInv, TimerEntry, SameService
<1>2. now + 1 \in Int
  BY DEF IInv, Clocks
<1> HIDE DEF q
<1>3. SameService(ProcessRepeated(q, now + 1, FALSE), q)
  BY <1>1, <1>2, RepeatedEntry DEF SameService
<1> QED BY <1>1, <1>3 DEF q, SameService

LEMMA RecordingEndsKeeps == \A x \in Timers : IInv /\ RecordingEnds(x) => Keeps
<1> SUFFICES ASSUME NEW x \in Timers, IInv, RecordingEnds(x) PROVE Keeps
  OBVIOUS
<1>1. Idle /\ InList(x) /\ tm[x].disabled \in BOOLEAN
  BY DEF RecordingEnds, IInv, TimerEntry
<1>2. PICK b \in {tm[x].disabled} \cup (IF tm[x].repeated THEN {FALSE} ELSE {}) :
        DoActivate(ProcessRepeated([tm[x] EXCEPT !.disabled = b], now + 1, FALSE), x, <<>>)
  BY DEF RecordingEnds
<1>3. b \in BOOLEAN
  BY <1>1
<1> DEFINE r == ProcessRepeated([tm[x] EXCEPT !.disabled = b], now + 1, FALSE)
<1>4. r \in TimerEntry /\ r.rs = tm[x].rs
  BY <1>3, EndedRecording DEF SameService
<1>5. DoActivate(r, x, <<>>)
  BY <1>2
<1> HIDE DEF r
<1> QED BY <1>1, <1>4, <1>5, UsedEntry, ActivationKeeps

LEMMA UserDisablesKeeps == \A x \in Timers : IInv /\ UserDisables(x) => Keeps
<1> SUFFICES ASSUME NEW x \in Timers, IInv, UserDisables(x) PROVE Keeps
  OBVIOUS
<1> DEFINE r == [tm[x] EXCEPT !.disabled = TRUE]
<1>1. SameService(r, tm[x])
  BY DEF IInv, TimerEntry, SameService
<1>2. [tm EXCEPT ![x].disabled = TRUE] = [tm EXCEPT ![x] = r]
  BY Zenon
<1> HIDE DEF r
<1> QED BY <1>1, <1>2, UserChangeKeeps DEF UserDisables

LEMMA UserEnablesKeeps == \A x \in Timers : IInv /\ UserEnables(x) => Keeps
<1> SUFFICES ASSUME NEW x \in Timers, IInv, UserEnables(x) PROVE Keeps
  OBVIOUS
<1>1. PICK b \in BOOLEAN : TimeChanged([tm EXCEPT ![x].disabled = b], x, <<>>)
  BY DEF UserEnables
<1> DEFINE r == [tm[x] EXCEPT !.disabled = b]
<1>2. SameService(r, tm[x])
  BY DEF IInv, TimerEntry, SameService
<1>3. [tm EXCEPT ![x].disabled = b] = [tm EXCEPT ![x] = r]
  BY Zenon
<1> HIDE DEF r
<1> QED BY <1>1, <1>2, <1>3, UserChangeKeeps DEF UserEnables

LEMMA UserStopsEventKeeps == \A x \in Timers : IInv /\ UserStopsEvent(x) => Keeps
<1> SUFFICES ASSUME NEW x \in Timers, IInv, UserStopsEvent(x) PROVE Keeps
  OBVIOUS
<1>1. Idle /\ InList(x)
  BY DEF UserStopsEvent
<1> DEFINE r == ProcessRepeated([tm[x] EXCEPT !.disabled = FALSE], now + 1, FALSE)
<1>2. SameService(r, tm[x])
  BY EndedRecording
<1>3. ASSUME NEW pc \in {"again", "disable"}, DoActivate(r, x, <<Call(pc, x, Nobody)>>)
      PROVE  Keeps
  <2> HIDE DEF r
  <2>1. Homes(timer_list, processed, <<Call(pc, x, Nobody)>>)
    BY <1>1, UsedEntry, FirstCall
  <2> QED BY <1>1, <1>2, <1>3, <2>1, ActivationKeeps DEF SameService
<1>4. ASSUME TimeChanged([tm EXCEPT ![x].disabled = TRUE], x, <<>>), UNCHANGED svc
      PROVE  Keeps
  <2> DEFINE q == [tm[x] EXCEPT !.disabled = TRUE]
  <2>1. SameService(q, tm[x])
    BY DEF IInv, TimerEntry, SameService
  <2>2. [tm EXCEPT ![x].disabled = TRUE] = [tm EXCEPT ![x] = q]
    BY Zenon
  <2> HIDE DEF q
  <2> QED BY <1>1, <1>4, <2>1, <2>2, UserChangeKeeps
<1> QED BY <1>3, <1>4 DEF UserStopsEvent

LEMMA UserSkipsNextKeeps == \A x \in Timers : IInv /\ UserSkipsNext(x) => Keeps
<1> SUFFICES ASSUME NEW x \in Timers, IInv, UserSkipsNext(x) PROVE Keeps
  OBVIOUS
<1>1. /\ Idle /\ UNCHANGED svc
      /\ TimeChanged([tm EXCEPT ![x].disabled = TRUE], x, <<Call("next", x, Nobody)>>)
  BY DEF UserSkipsNext
<1> DEFINE m == [tm EXCEPT ![x].disabled = TRUE]
<1>2. \A r \in TimerEntry : SameService([r EXCEPT !.disabled = TRUE], r)
  BY DEF TimerEntry, SameService
<1>3. m \in [Timers -> TimerEntry] /\ \A y \in Timers : m[y].rs = tm[y].rs
  BY <1>2 DEF IInv, SameService
<1>4. Homes(timer_list, processed, <<Call("next", x, Nobody)>>)
  BY <1>1, UsedEntry, FirstCall
<1> HIDE DEF m
<1>5. TimeChanged(m, x, <<Call("next", x, Nobody)>>)
  BY <1>1 DEF m
<1> QED BY <1>1, <1>3, <1>4, <1>5, TimeChangedKeeps

LEMMA UserEditsKeeps == \A x \in Timers : IInv /\ UserEdits(x) => Keeps
<1> SUFFICES ASSUME NEW x \in Timers, IInv, UserEdits(x) PROVE Keeps
  OBVIOUS
<1>1. PICK begin \in {now, now + Ahead}, length \in Lengths,
           repeated \in BOOLEAN, justplay \in BOOLEAN :
        LET m == [tm EXCEPT ![x] = Edited(@, begin, begin + length, repeated, justplay)]
        IN \/ TimeChanged(m, x, <<>>)
           \/ tm' = m /\ UNCHANGED <<timer_list, processed, stack, raised>>
           \/ MakesRoom(m, x, begin)
  BY DEF UserEdits
<1> DEFINE r == Edited(tm[x], begin, begin + length, repeated, justplay)
<1>2. begin \in Int /\ begin + length \in Int
  BY Times DEF IInv, Clocks
<1>3. SameService(r, tm[x])
  <2>1. tm[x] \in TimerEntry
    BY DEF IInv
  <2>2. r = [[tm[x] EXCEPT !.begin = begin, !.end = begin + length]
                EXCEPT !.repeated = repeated, !.justplay = justplay]
    BY <2>1 DEF Edited
  <2>3. \A q \in TimerEntry, b, e \in Int :
          SameService([q EXCEPT !.begin = b, !.end = e], q)
    BY DEF TimerEntry, SameService
  <2>4. \A q \in TimerEntry : \A b, c \in BOOLEAN :
          SameService([q EXCEPT !.repeated = b, !.justplay = c], q)
    BY DEF TimerEntry, SameService
  <2> DEFINE moved == [tm[x] EXCEPT !.begin = begin, !.end = begin + length]
  <2>5. SameService(moved, tm[x])
    BY <1>2, <2>1, <2>3
  <2>6. moved \in TimerEntry /\ moved.rs = tm[x].rs
    BY <2>5 DEF SameService
  <2> HIDE DEF moved, r
  <2>7. SameService([moved EXCEPT !.repeated = repeated, !.justplay = justplay], moved)
    BY <2>4, <2>6
  <2>8. r = [moved EXCEPT !.repeated = repeated, !.justplay = justplay]
    BY <2>2 DEF moved, r
  <2> QED BY <2>6, <2>7, <2>8 DEF SameService
<1>4. Idle /\ UNCHANGED svc
  BY DEF UserEdits
<1> DEFINE m == [tm EXCEPT ![x] = r]
<1>5. \/ TimeChanged(m, x, <<>>)
      \/ tm' = m /\ UNCHANGED <<timer_list, processed, stack, raised>>
      \/ MakesRoom(m, x, begin)
  BY <1>1
<1> HIDE DEF r
<1>6. m \in [Timers -> TimerEntry] /\ \A y \in Timers : m[y].rs = tm[y].rs
  BY <1>3 DEF IInv, SameService
<1> HIDE DEF m
<1>7. Homes(timer_list, processed, <<>>) /\ Homes(timer_list, processed, <<Call("again", x, Nobody)>>)
  BY <1>4, UsedEntry, FirstCall
<1>8. CASE TimeChanged(m, x, <<>>)
  BY <1>4, <1>6, <1>7, <1>8, TimeChangedKeeps
<1>9. CASE tm' = m /\ UNCHANGED <<timer_list, processed, stack, raised>>
  <2>1. Owned(tm', svc')
    BY <1>4, <1>6, <1>9, OwnedByLess DEF IInv
  <2> QED BY <1>4, <1>6, <1>9, <2>1 DEF Keeps, IInv
<1>10. ASSUME NEW y \in Timers, NEW end \in now + 1 .. begin, NEW st,
              Homes(timer_list, processed, st), TimeChanged([m EXCEPT ![y].end = end], y, st)
       PROVE  Keeps
  <2> DEFINE n == [m EXCEPT ![y].end = end]
  <2>1. end \in Int
    BY <1>2, <1>10, Times DEF IInv, Clocks
  <2>2. \A q \in TimerEntry : SameService([q EXCEPT !.end = end], q)
    BY <2>1 DEF TimerEntry, SameService
  <2>3. n \in [Timers -> TimerEntry] /\ \A z \in Timers : n[z].rs = m[z].rs
    BY <1>6, <2>2 DEF SameService
  <2> HIDE DEF n
  <2>4. TimeChanged(n, y, st)
    BY <1>10 DEF n
  <2> QED BY <1>4, <1>6, <1>10, <2>3, <2>4, TimeChangedKeeps
<1>11. ASSUME MakesRoom(m, x, begin) PROVE Keeps
  <2>1. PICK y \in Timers \ {x}, end \in now + 1 .. begin, enough \in BOOLEAN :
          TimeChanged([m EXCEPT ![y].end = end], y,
                      IF enough THEN <<Call("again", x, Nobody)>> ELSE <<>>)
    BY <1>11 DEF MakesRoom
  <2> QED BY <1>7, <1>10, <2>1
<1> QED BY <1>5, <1>8, <1>9, <1>11

LEMMA UserMovesEndKeeps == \A x \in Timers : IInv /\ UserMovesEnd(x) => Keeps
<1> SUFFICES ASSUME NEW x \in Timers, IInv, UserMovesEnd(x) PROVE Keeps
  OBVIOUS
<1>1. PICK end \in {now, now + Ahead} :
        TimeChanged([tm EXCEPT ![x].end = end, ![x].auto = FALSE], x, <<>>)
  BY DEF UserMovesEnd
<1> DEFINE r == [tm[x] EXCEPT !.end = end, !.auto = FALSE]
<1>2. end \in Int
  BY Times DEF IInv, Clocks
<1>3. SameService(r, tm[x])
  BY <1>2 DEF IInv, TimerEntry, SameService
<1>4. [tm EXCEPT ![x].end = end, ![x].auto = FALSE] = [tm EXCEPT ![x] = r]
  BY DEF IInv
<1> HIDE DEF r
<1>5. Idle /\ UNCHANGED svc
  BY DEF UserMovesEnd
<1> QED BY <1>1, <1>3, <1>4, <1>5, UserChangeKeeps

LEMMA UserCleansUpKeeps == IInv /\ UserCleansUp => Keeps
<1> SUFFICES ASSUME IInv, UserCleansUp PROVE Keeps
  OBVIOUS
<1>1. /\ processed' = [x \in Timers |-> IF tm[x].disabled THEN processed[x] ELSE 0]
      /\ tm' = [x \in Timers |-> IF IsProcessed(x) /\ ~tm[x].disabled THEN Fresh ELSE tm[x]]
      /\ UNCHANGED <<timer_list, svc, stack, raised>>
  BY DEF UserCleansUp
<1>2. Homes(timer_list', processed', stack')
  <2>1. processed' \in [Timers -> Nat] /\ \A x \in Timers : processed'[x] \in {0, processed[x]}
    BY <1>1 DEF IInv, Homes
  <2> QED BY <1>1, <2>1 DEF IInv, Homes
<1>3. tm' \in [Timers -> TimerEntry] /\ \A y \in Timers : tm'[y].rs \in {tm[y].rs, None}
  BY <1>1, FreshEntry DEF IInv
<1>4. Owned(tm', svc)
  BY <1>3, OwnedByLess DEF IInv
<1> QED BY <1>1, <1>2, <1>3, <1>4 DEF Keeps, IInv

LEMMA UserKeeps == \A x \in Timers : IInv /\ User(x) => Keeps /\ Clocks'
<1> SUFFICES ASSUME NEW x \in Timers, IInv, User(x) PROVE Keeps /\ Clocks'
  OBVIOUS
<1>1. Clockless
  BY DEF User, Record, UserRemoves, RecordingAborted, RecordingEnds, UserDisables,
         UserEnables, UserStopsEvent, UserSkipsNext, UserEdits, UserMovesEnd
<1>2. Clocks'
  BY <1>1, ClocklessClocks DEF IInv
<1>3. Keeps
  BY RecordKeeps, RemovalsKeep, RecordingEndsKeeps, UserDisablesKeeps, UserEnablesKeeps,
     UserStopsEventKeeps, UserSkipsNextKeeps, UserEditsKeeps, UserMovesEndKeeps DEF User
<1> QED BY <1>2, <1>3

-----------------------------------------------------------------------------
(* The theorems                                                             *)

LEMMA InitIInv == Init => IInv
<1> SUFFICES ASSUME Init PROVE IInv
  OBVIOUS
<1>1. Clocks
  BY Times DEF Init, Clocks
<1>2. /\ tm \in [Timers -> TimerEntry] /\ \A x \in Timers : tm[x].rs = None
      /\ svc \in [Services -> SvcStates] /\ raised \in BOOLEAN
  BY FreshEntry DEF Init, SvcStates
<1>3. Homes(timer_list, processed, stack)
  <2>1. StackOK(<<>>)
    BY DEF StackOK
  <2>2. Distinct(<<>>) /\ Range(<<>>) = {} /\ <<>> \in Seq(Timers)
    BY DEF Distinct, Range
  <2>3. \A x \in Timers : ~HeldIn(<<>>, x)
    BY DEF HeldIn
  <2> QED BY <2>1, <2>2, <2>3 DEF Init, Homes, Nobody
<1>4. Owned(tm, svc)
  BY <1>2 DEF Owned
<1> QED BY <1>1, <1>2, <1>3, <1>4 DEF IInv

LEMMA StepIInv == IInv /\ Step => IInv'
<1> SUFFICES ASSUME IInv, Step PROVE IInv'
  OBVIOUS
<1>1. CASE ScheduleNext
  BY <1>1, ScheduleNextKeeps, KeepsIInv
<1>2. CASE ~ScheduleNext
  <2>1. Clockless
    BY <1>2 DEF Step, EnterCalc, ResetProcessed, ActivateHead, Finish, RemoveEntry,
                StoppedCurrent, SkippedNext
  <2>2. Clocks'
    BY <2>1, ClocklessClocks DEF IInv
  <2>3. Keeps
    BY <1>2, EnterCalcKeeps, ResetProcessedKeeps, ActivateHeadKeeps, FinishKeeps,
       RemoveEntryKeeps, StoppedCurrentKeeps, SkippedNextKeeps DEF Step
  <2> QED BY <2>2, <2>3, KeepsIInv
<1> QED BY <1>1, <1>2

LEMMA NextIInv == IInv /\ [Next]_vars => IInv'
<1> SUFFICES ASSUME IInv, [Next]_vars PROVE IInv'
  OBVIOUS
<1>1. CASE Step
  BY <1>1, StepIInv
<1>2. CASE TimerFires
  <2>1. Clocks'
    BY <1>2, ClocklessClocks DEF IInv, TimerFires
  <2> QED BY <1>2, <2>1, TimerFiresKeeps, KeepsIInv
<1>3. CASE UserCleansUp
  <2>1. Clocks'
    BY <1>3, ClocklessClocks DEF IInv, UserCleansUp
  <2> QED BY <1>3, <2>1, UserCleansUpKeeps, KeepsIInv
<1>4. CASE Tick \/ ClockSet
  <2>1. UNCHANGED <<tm, timer_list, processed, svc, last, stack, raised>>
    BY <1>4 DEF Tick, ClockSet
  <2>2. Clocks'
    <3>1. now' \in Nat /\ delay' \in Int
      BY <1>4, Times DEF Tick, ClockSet, IInv, Clocks
    <3> QED BY <2>1, <3>1 DEF IInv, Clocks
  <2>3. Keeps
    BY <2>1 DEF Keeps, IInv
  <2> QED BY <2>2, <2>3, KeepsIInv
<1>5. CASE \E x \in Timers : User(x)
  BY <1>5, UserKeeps, KeepsIInv
<1>6. CASE UNCHANGED vars
  <2>1. Keeps
    BY <1>6 DEF Keeps, IInv, vars
  <2>2. Clocks'
    BY <1>6 DEF Clocks, IInv, vars
  <2> QED BY <2>1, <2>2, KeepsIInv
<1> QED BY <1>1, <1>2, <1>3, <1>4, <1>5, <1>6 DEF Next

LEMMA IInvImplies == IInv => TypeOK /\ OneHome /\ NoSharing
<1> SUFFICES ASSUME IInv PROVE TypeOK /\ OneHome /\ NoSharing
  OBVIOUS
<1>1. TypeOK
  BY DEF IInv, Homes, TypeOK, Clocks, StackOK, SvcStates
<1>2. OneHome
  BY DEF IInv, Homes, OneHome, StackOK, Distinct, InList, IsProcessed, Held, HeldIn
<1>3. NoSharing
  BY DEF IInv, NoSharing, Owned
<1> QED BY <1>1, <1>2, <1>3

LEMMA SpecIInv == Spec => []IInv
BY InitIInv, NextIInv, PTL DEF Spec

\* Every variable keeps its type, whatever users, tuners, disks and the clock do.
THEOREM RecordTimerTypes == Spec => []TypeOK
BY SpecIInv, IInvImplies, PTL

\* However the handlers of timer.py nest, an entry is in timer_list, in processed_timers
\* or held by one frame on its way between them: addTimerEntry, timeChanged, doActivate
\* and the timewarp loop of calcNextActivation neither lose nor duplicate an entry.
THEOREM OneHomeAlways == Spec => []OneHome
BY SpecIInv, IInvImplies, PTL

\* The recording service an entry of RecordTimer refers to is registered with the
\* navigation core and no other entry refers to it, so that stopRecordService in
\* activate() can only stop the entry's own recording.
THEOREM NoSharingAlways == Spec => []NoSharing
BY SpecIInv, IInvImplies, PTL

-----------------------------------------------------------------------------
(* processActivation and the clock                                          *)

\* An activation writes to its own entry only.
LEMMA OthersUntouched ==
  ASSUME IInv, NEW x \in Timers, NEW r, NEW st, DoActivate(r, x, st)
  PROVE  \A y \in Timers : y # x => tm'[y] = tm[y]
<1>1. ASSUME NEW q, Settle(q, x, st) PROVE \A y \in Timers : y # x => tm'[y] = tm[y]
  <2>1. \A m, tl, pr, c : AddTimerEntry([tm EXCEPT ![x] = m], x, tl, pr, st, c)
          => \A y \in Timers : y # x => tm'[y] = tm[y]
    BY DEF AddTimerEntry, IInv
  <2>2. tm' = [tm EXCEPT ![x] = q] => \A y \in Timers : y # x => tm'[y] = tm[y]
    BY DEF IInv
  <2>3. Raise => \A y \in Timers : y # x => tm'[y] = tm[y]
    BY DEF Raise
  <2> QED BY <1>1, <2>1, <2>2, <2>3 DEF Settle
<1>2. Raise => \A y \in Timers : y # x => tm'[y] = tm[y]
  BY DEF Raise
<1>3. (\E q : Settle(q, x, st)) \/ Raise
  BY DEF DoActivate, Prepare, Start, Stop
<1> QED BY <1>1, <1>2, <1>3

Punctual ==
  In("process") => \A x \in Timers :
    /\ tm[x].state = Prepared /\ tm'[x].state = Running => tm[x].begin <= now
    /\ tm[x].state = Running /\ tm'[x].state # Running => tm[x].end <= now

LEMMA StepPunctual == IInv /\ [Next]_vars => Punctual
<1> SUFFICES ASSUME IInv, [Next]_vars, In("process") PROVE Punctual
  BY DEF Punctual
<1>1. CASE ActivateHead
  <2>1. PICK x \in Timers : IsDue(x) /\ DoActivate(tm[x], x, stack)
    BY <1>1 DEF ActivateHead
  <2>2. \A y \in Timers : y # x => tm'[y] = tm[y]
    BY <2>1, OthersUntouched
  <2>3. NextActivation(tm[x]) <= now
    BY <2>1 DEF IsDue
  <2>4. /\ tm[x].state = Prepared => tm[x].begin <= now
        /\ tm[x].state = Running => tm[x].end <= now
    BY <2>3 DEF NextActivation, Waiting, Prepared, Running
  <2>5. Prepared # Running
    BY DEF Prepared, Running
  <2> QED BY <2>2, <2>4, <2>5 DEF Punctual
<1>2. CASE UNCHANGED tm
  <2>1. Prepared # Running
    BY DEF Prepared, Running
  <2> QED BY <1>2, <2>1 DEF Punctual
<1>3. stack # <<>> /\ Top.pc = "process"
  BY DEF In
<1>4. ActivateHead \/ UNCHANGED tm
  <2>1. CASE Step
    BY <2>1, <1>3 DEF Step, EnterCalc, ResetProcessed, ScheduleNext, Finish, RemoveEntry,
                       StoppedCurrent, SkippedNext, In
  <2>2. ASSUME NEW x \in Timers, User(x) PROVE FALSE
    BY <2>2, <1>3 DEF User, Record, UserRemoves, RecordingAborted, RecordingEnds,
       UserDisables, UserEnables, UserStopsEvent, UserSkipsNext, UserEdits, UserMovesEnd, Idle
  <2>3. CASE TimerFires \/ UserCleansUp \/ Tick \/ ClockSet
    BY <2>3, <1>3 DEF TimerFires, UserCleansUp, Tick, ClockSet, Idle
  <2>4. CASE UNCHANGED vars
    BY <2>4 DEF vars
  <2> QED BY <2>1, <2>2, <2>3, <2>4 DEF Next
<1> QED BY <1>1, <1>2, <1>4

\* processActivation starts a recording at its begin or later and stops one at its end or
\* later, whatever happened to the entry between its preparation and the poll: start_prepare,
\* begin and end as getNextActivation returns them are compared with one reading of time().
THEOREM PunctualAlways == Spec => PunctualActivation
<1>1. IInv /\ [Next]_vars => [Punctual]_vars
  BY StepPunctual
<1>2. IInv /\ [Next]_vars
        => [In("process") => \A x \in Timers :
             /\ tm[x].state = Prepared /\ tm'[x].state = Running => tm[x].begin <= now
             /\ tm[x].state = Running /\ tm'[x].state # Running => tm[x].end <= now]_vars
  BY <1>1 DEF Punctual
<1> QED BY <1>2, SpecIInv, PTL DEF Spec, PunctualActivation
-----------------------------------------------------------------------------
(* The eTimer                                                               *)

HasFrame(st, S) == \E i \in DOMAIN st : st[i] \in S

Calculating == {f \in Frame : f.pc \in {"calc", "process"}}
Redoing(x) == {f \in Frame : f.pc \in {"again", "disable", "remove"} /\ f.x = x}

LEMMA PushedHas ==
  ASSUME NEW st \in Seq(Frame), NEW f \in Frame, NEW S
  PROVE  /\ <<f>> \o st \in Seq(Frame)
         /\ HasFrame(<<f>> \o st, S) <=> f \in S \/ HasFrame(st, S)
<1> DEFINE r == <<f>> \o st
<1>1. Len(st) \in Nat /\ DOMAIN st = 1 .. Len(st)
  OBVIOUS
<1>2. /\ r \in Seq(Frame) /\ Len(r) = Len(st) + 1 /\ r[1] = f
      /\ \A i \in 1 .. Len(st) : r[i + 1] = st[i]
  OBVIOUS
<1>3. DOMAIN r = 1 .. Len(st) + 1
  BY <1>2
<1> HIDE DEF r
<1>4. \A i \in DOMAIN r : i # 1 => i - 1 \in DOMAIN st /\ r[i] = st[i - 1]
  BY <1>1, <1>2, <1>3
<1>5. HasFrame(r, S) => f \in S \/ HasFrame(st, S)
  BY <1>2, <1>4 DEF HasFrame
<1>6. f \in S => HasFrame(r, S)
  BY <1>1, <1>2, <1>3 DEF HasFrame
<1>7. HasFrame(st, S) => HasFrame(r, S)
  BY <1>1, <1>2, <1>3 DEF HasFrame
<1> QED BY <1>2, <1>5, <1>6, <1>7 DEF r

LEMMA PoppedHas ==
  ASSUME NEW st \in Seq(Frame), st # <<>>, NEW S
  PROVE  /\ Tail(st) \in Seq(Frame) /\ Head(st) \in Frame
         /\ HasFrame(st, S) <=> Head(st) \in S \/ HasFrame(Tail(st), S)
<1> DEFINE r == Tail(st)
<1>1. Len(st) \in Nat \ {0} /\ DOMAIN st = 1 .. Len(st) /\ Head(st) = st[1]
  OBVIOUS
<1>2. /\ r \in Seq(Frame) /\ Len(r) = Len(st) - 1
      /\ \A i \in 1 .. Len(st) - 1 : r[i] = st[i + 1]
  BY <1>1
<1>3. DOMAIN r = 1 .. Len(st) - 1
  BY <1>1, <1>2
<1> HIDE DEF r
<1>4. \A i \in DOMAIN r : i + 1 \in DOMAIN st /\ r[i] = st[i + 1]
  BY <1>1, <1>2, <1>3
<1>5. \A i \in DOMAIN st : i # 1 => i - 1 \in DOMAIN r /\ st[i] = r[i - 1]
  BY <1>1, <1>2, <1>3
<1>6. HasFrame(st, S) => Head(st) \in S \/ HasFrame(r, S)
  BY <1>1, <1>5 DEF HasFrame
<1>7. Head(st) \in S => HasFrame(st, S)
  BY <1>1 DEF HasFrame
<1>8. HasFrame(r, S) => HasFrame(st, S)
  BY <1>4 DEF HasFrame
<1> QED BY <1>1, <1>2, <1>6, <1>7, <1>8 DEF r

\* The timewarp loop returns to the calcNextActivation that entered it.
ResetsReturn(st) ==
  \A i \in DOMAIN st : st[i].pc = "reset" => i + 1 \in DOMAIN st /\ st[i + 1].pc = "process"

LEMMA PushedReset ==
  ASSUME NEW st \in Seq(Frame), ResetsReturn(st), NEW f \in Frame,
         f.pc = "reset" => st # <<>> /\ Head(st).pc = "process"
  PROVE  ResetsReturn(<<f>> \o st)
<1> DEFINE r == <<f>> \o st
<1>1. Len(st) \in Nat /\ DOMAIN st = 1 .. Len(st)
  OBVIOUS
<1>2. /\ r \in Seq(Frame) /\ Len(r) = Len(st) + 1 /\ r[1] = f
      /\ \A i \in 1 .. Len(st) : r[i + 1] = st[i]
  OBVIOUS
<1>3. DOMAIN r = 1 .. Len(st) + 1
  BY <1>2
<1> HIDE DEF r
<1>4. \A i \in DOMAIN r : i # 1 => i - 1 \in DOMAIN st /\ r[i] = st[i - 1]
  BY <1>1, <1>2, <1>3
<1>5. ASSUME NEW i \in DOMAIN r, r[i].pc = "reset"
      PROVE  i + 1 \in DOMAIN r /\ r[i + 1].pc = "process"
  <2>1. CASE i = 1
    <3>1. Len(st) # 0 /\ Head(st) = st[1] /\ st[1].pc = "process"
      BY <2>1, <1>2, <1>5
    <3> QED BY <2>1, <3>1, <1>1, <1>2, <1>3
  <2>2. CASE i # 1
    <3>1. i - 1 \in DOMAIN st /\ st[i - 1].pc = "reset"
      BY <2>2, <1>4, <1>5
    <3>2. i \in DOMAIN st /\ st[i].pc = "process"
      <4>1. (i - 1) + 1 = i
        BY <1>3
      <4> QED BY <3>1, <4>1 DEF ResetsReturn
    <3> QED BY <3>2, <1>1, <1>2, <1>3
  <2> QED BY <2>1, <2>2
<1> QED BY <1>5 DEF r, ResetsReturn

LEMMA PoppedReset ==
  ASSUME NEW st \in Seq(Frame), st # <<>>, ResetsReturn(st)
  PROVE  /\ ResetsReturn(Tail(st))
         /\ Head(st).pc = "reset" => Tail(st) # <<>> /\ Head(Tail(st)).pc = "process"
<1> DEFINE r == Tail(st)
<1>1. Len(st) \in Nat \ {0} /\ DOMAIN st = 1 .. Len(st) /\ Head(st) = st[1]
  OBVIOUS
<1>2. /\ r \in Seq(Frame) /\ Len(r) = Len(st) - 1
      /\ \A i \in 1 .. Len(st) - 1 : r[i] = st[i + 1]
  BY <1>1
<1>3. DOMAIN r = 1 .. Len(st) - 1
  BY <1>1, <1>2
<1>4. r # <<>> => Head(r) = r[1]
  BY <1>2
<1> HIDE DEF r
<1>5. ASSUME NEW i \in DOMAIN r, r[i].pc = "reset"
      PROVE  i + 1 \in DOMAIN r /\ r[i + 1].pc = "process"
  <2>1. i + 1 \in DOMAIN st /\ st[i + 1].pc = "reset"
    BY <1>1, <1>2, <1>3, <1>5
  <2>2. (i + 1) + 1 \in DOMAIN st /\ st[(i + 1) + 1].pc = "process"
    BY <2>1 DEF ResetsReturn
  <2> QED BY <2>2, <1>1, <1>2, <1>3
<1>6. ASSUME Head(st).pc = "reset" PROVE r # <<>> /\ Head(r).pc = "process"
  <2>1. 1 + 1 \in DOMAIN st /\ st[1 + 1].pc = "process"
    BY <1>1, <1>6 DEF ResetsReturn
  <2>2. 1 \in DOMAIN r /\ r[1].pc = "process"
    BY <2>1, <1>1, <1>2, <1>3
  <2> QED BY <2>2, <1>4
<1> QED BY <1>5, <1>6 DEF r, ResetsReturn

\* The eTimer fires before y is due, or for nothing.
Early(y) == tm[y].disabled \/ delay <= 0 \/ now + delay <= NextActivation(tm[y])

\* calcNextActivation is still to set the eTimer, or it is set early enough for every
\* entry but those whose timeChanged is still to come or which removeEntry forgets.
Awake ==
  \/ HasFrame(stack, Calculating)
  \/ \A y \in Timers : InList(y) => Early(y) \/ HasFrame(stack, Redoing(y))

WInv == ResetsReturn(stack) /\ Awake

\* The frames of st go on.
GoesOn(st) ==
  /\ ResetsReturn(stack')
  /\ HasFrame(st, Calculating) => HasFrame(stack', Calculating)
  /\ \A y \in Timers : HasFrame(st, Redoing(y)) => HasFrame(stack', Redoing(y))

\* x has left timer_list, unless calcNextActivation follows.
Retires(x) ==
  \/ HasFrame(stack', Calculating)
  \/ /\ Range(timer_list') \subseteq Range(timer_list) \ {x}
     /\ \A y \in Timers : y # x => tm'[y] = tm[y]

LEMMA PushGoesOn ==
  ASSUME NEW st \in Seq(Frame), ResetsReturn(st), NEW f \in Frame, f.pc # "reset",
         stack' = <<f>> \o st
  PROVE  GoesOn(st) /\ (f.pc = "calc" => HasFrame(stack', Calculating))
<1>1. ResetsReturn(<<f>> \o st)
  BY PushedReset
<1>2. \A S : HasFrame(<<f>> \o st, S) <=> f \in S \/ HasFrame(st, S)
  BY PushedHas
<1>3. f.pc = "calc" => f \in Calculating
  BY DEF Calculating
<1> QED BY <1>1, <1>2, <1>3, Zenon DEF GoesOn

LEMMA AddedWakes ==
  ASSUME NEW m \in [Timers -> TimerEntry], NEW x \in Timers,
         NEW tl, NEW pr, NEW st \in Seq(Frame), ResetsReturn(st),
         NEW noRecalc \in BOOLEAN, AddTimerEntry(m, x, tl, pr, st, noRecalc)
  PROVE  /\ GoesOn(st)
         /\ noRecalc => stack' = st
         /\ noRecalc \/ \/ HasFrame(stack', Calculating)
                        \/ timer_list' = tl /\ \A y \in Timers : y # x => tm'[y] = m[y]
<1> DEFINE r == NextOccurrence(m[x])
<1>1. CASE /\ tm' = [m EXCEPT ![x] = [Skipped(r) EXCEPT !.state = Ended]]
           /\ timer_list' = tl
           /\ stack' = st
  <2>1. \A y \in Timers : y # x => tm'[y] = m[y]
    BY <1>1
  <2> QED BY <1>1, <2>1, Zenon DEF GoesOn
<1>2. CASE stack' = IF noRecalc THEN st ELSE <<Call("calc", None, Nobody)>> \o st
  <2>1. CASE noRecalc
    BY <1>2, <2>1, Zenon DEF GoesOn
  <2>2. CASE ~noRecalc
    <3> DEFINE f == Call("calc", None, Nobody)
    <3>1. f \in Frame /\ f.pc = "calc" /\ f.pc # "reset"
      BY DEF Call, Frame, Pcs, Nobody
    <3>2. stack' = <<f>> \o st
      BY <1>2, <2>2
    <3> HIDE DEF f
    <3> QED BY <2>2, <3>1, <3>2, PushGoesOn
  <2> QED BY <2>1, <2>2
<1> QED BY <1>1, <1>2 DEF AddTimerEntry

LEMMA ChangedWakes ==
  ASSUME IInv, NEW m \in [Timers -> TimerEntry], NEW x \in Timers,
         \A y \in Timers : y # x => m[y] = tm[y],
         NEW st \in Seq(Frame), ResetsReturn(st), TimeChanged(m, x, st)
  PROVE  (GoesOn(st) /\ Retires(x)) \/ Raise
<1> DEFINE r == TimeMoved(m[x])
           w == [r EXCEPT !.state = Waiting]
<1>1. r \in TimerEntry
  BY TimeMovedEntry DEF SameService
<1>2. w \in TimerEntry
  <2>1. Waiting \in Waiting .. Ended
    BY DEF Waiting, Ended
  <2> HIDE DEF r
  <2> QED BY <1>1, <2>1 DEF TimerEntry
<1> HIDE DEF r, w
<1>3. /\ [m EXCEPT ![x] = w] \in [Timers -> TimerEntry]
      /\ [m EXCEPT ![x] = r] \in [Timers -> TimerEntry]
      /\ \A y \in Timers : y # x => /\ [m EXCEPT ![x] = w][y] = tm[y]
                                    /\ [m EXCEPT ![x] = r][y] = tm[y]
  BY <1>1, <1>2
<1>4. CASE IsProcessed(x) /\ AddTimerEntry([m EXCEPT ![x] = w], x, timer_list,
                               [processed EXCEPT ![x] = @ - 1], st, FALSE)
  <2>1. /\ GoesOn(st)
        /\ \/ HasFrame(stack', Calculating)
           \/ timer_list' = timer_list /\ \A y \in Timers : y # x => tm'[y] = tm[y]
    BY <1>3, <1>4, AddedWakes
  <2>2. x \notin Range(timer_list)
    BY <1>4 DEF IsProcessed, IInv, Homes
  <2> QED BY <2>1, <2>2 DEF Retires
<1>5. CASE InList(x) /\ AddTimerEntry([m EXCEPT ![x] = r], x, Without(timer_list, x),
                                      processed, st, FALSE)
  <2>1. /\ GoesOn(st)
        /\ \/ HasFrame(stack', Calculating)
           \/ /\ timer_list' = Without(timer_list, x)
              /\ \A y \in Timers : y # x => tm'[y] = tm[y]
    BY <1>3, <1>5, AddedWakes
  <2>2. Range(Without(timer_list, x)) = Range(timer_list) \ {x}
    BY <1>5, WithoutEntry DEF IInv, Homes, InList
  <2> QED BY <2>1, <2>2 DEF Retires
<1>6. CASE /\ ~InList(x)
           /\ tm' = [m EXCEPT ![x] = r]
           /\ stack' = st
           /\ UNCHANGED <<timer_list, processed, raised>>
  <2>1. \A y \in Timers : y # x => tm'[y] = tm[y]
    BY <1>3, <1>6
  <2>2. Range(timer_list') \subseteq Range(timer_list) \ {x}
    BY <1>6 DEF InList
  <2> QED BY <1>6, <2>1, <2>2, Zenon DEF GoesOn, Retires
<1>7. CASE Raise
  BY <1>7
<1> QED BY <1>4, <1>5, <1>6, <1>7 DEF TimeChanged, r, w

LEMMA SettledWakes ==
  ASSUME IInv, NEW r \in TimerEntry, NEW x \in Timers, InList(x),
         NEW st \in Seq(Frame), ResetsReturn(st), Settle(r, x, st)
  PROVE  /\ GoesOn(st)
         /\ Reached(r) => Retires(x)
         /\ Range(timer_list') \subseteq Range(timer_list) \cup {x}
         /\ ~Reached(r) => stack' = st /\ \A y \in Timers : y # x => tm'[y] = tm[y]
<1> DEFINE tl == Without(timer_list, x)
           m == [tm EXCEPT ![x] = r]
<1>1. /\ tl \in Seq(Timers) /\ Distinct(tl) /\ x \notin Range(tl)
      /\ Range(tl) = Range(timer_list) \ {x}
  BY WithoutEntry DEF IInv, Homes, InList
<1>2. m \in [Timers -> TimerEntry] /\ \A y \in Timers : y # x => m[y] = tm[y]
  BY DEF IInv
<1>3. CASE /\ ~Reached(r)
           /\ tm' = m
           /\ timer_list' \in Insorted(Keys(m), tl, x)
           /\ stack' = st
  <2> HIDE DEF tl, m
  <2>1. Range(timer_list') = Range(tl) \cup {x}
    BY <1>1, <1>3, InsortedEntry
  <2> QED BY <1>1, <1>2, <1>3, <2>1, Zenon DEF GoesOn
<1>4. CASE /\ Reached(r)
           /\ AddTimerEntry([tm EXCEPT ![x] = [NextOccurrence(r) EXCEPT !.state = Waiting]],
                            x, tl, processed, st, FALSE)
  <2> DEFINE n == NextOccurrence(r)
             w == [n EXCEPT !.state = Waiting]
             k == [tm EXCEPT ![x] = w]
  <2>1. n \in TimerEntry
    BY NextOccurrenceEntry DEF SameService, IInv, Clocks
  <2> HIDE DEF n
  <2>2. w \in TimerEntry
    <3>1. Waiting \in Waiting .. Ended
      BY DEF Waiting, Ended
    <3> QED BY <2>1, <3>1 DEF TimerEntry
  <2> HIDE DEF w
  <2>3. k \in [Timers -> TimerEntry] /\ \A y \in Timers : y # x => k[y] = tm[y]
    BY <2>2 DEF IInv
  <2>4. AddTimerEntry(k, x, tl, processed, st, FALSE)
    BY <1>4 DEF n, w
  <2> HIDE DEF k, tl
  <2>5. /\ GoesOn(st)
        /\ \/ HasFrame(stack', Calculating)
           \/ timer_list' = tl /\ \A y \in Timers : y # x => tm'[y] = tm[y]
    BY <2>3, <2>4, AddedWakes
  <2>6. Range(timer_list') \subseteq Range(timer_list) \cup {x}
    <3>1. \/ timer_list' = tl
          \/ timer_list' \in Insorted(Keys([k EXCEPT ![x] = NextOccurrence(k[x])]), tl, x)
      BY <2>4 DEF AddTimerEntry
    <3> QED BY <1>1, <3>1, InsortedEntry
  <2> QED BY <1>1, <1>4, <2>5, <2>6 DEF Retires
<1>5. CASE /\ Reached(r)
           /\ tm' = m
           /\ timer_list' = tl
           /\ stack' = <<Call("finish", x, WrongRunning(tl, m))>> \o st
  <2> DEFINE f == Call("finish", x, WrongRunning(tl, m))
  <2>1. f \in Frame /\ f.pc # "reset"
    BY DEF Call, Frame, Pcs, WrongRunning
  <2>2. stack' = <<f>> \o st
    BY <1>5
  <2> HIDE DEF f, tl, m
  <2>3. GoesOn(st)
    BY <2>1, <2>2, PushGoesOn
  <2> QED BY <1>1, <1>2, <1>5, <2>3 DEF Retires
<1> QED BY <1>3, <1>4, <1>5 DEF Settle

\* What a handler that begins or goes on with the frames of st leaves, when st lacks no
\* frame of the stack that sets the eTimer or redoes another entry than x.
LEMMA RetiredAwake ==
  ASSUME IInv, WInv, Clockless, NEW x \in Timers, NEW st,
         HasFrame(stack, Calculating) => HasFrame(st, Calculating),
         \A y \in Timers : y # x /\ HasFrame(stack, Redoing(y)) => HasFrame(st, Redoing(y)),
         GoesOn(st), Retires(x)
  PROVE  WInv'
<1>1. CASE HasFrame(stack', Calculating)
  BY <1>1 DEF GoesOn, WInv, Awake, HasFrame, ResetsReturn
<1>2. CASE /\ ~HasFrame(stack, Calculating)
           /\ Range(timer_list') \subseteq Range(timer_list) \ {x}
           /\ \A y \in Timers : y # x => tm'[y] = tm[y]
  <2>1. ASSUME NEW y \in Timers, InList(y)' PROVE Early(y)' \/ HasFrame(stack', Redoing(y))
    <3>1. y # x /\ InList(y) /\ tm'[y] = tm[y]
      BY <1>2, <2>1 DEF InList
    <3>2. Early(y) \/ HasFrame(stack, Redoing(y))
      BY <1>2, <3>1 DEF WInv, Awake
    <3>3. Early(y) => Early(y)'
      BY <3>1 DEF Early, Clockless
    <3>4. HasFrame(stack, Redoing(y)) => HasFrame(stack', Redoing(y))
      BY <3>1 DEF GoesOn
    <3> QED BY <3>2, <3>3, <3>4
  <2>2. Awake'
    BY <2>1 DEF Awake, HasFrame
  <2> QED BY <2>2 DEF GoesOn, WInv, ResetsReturn
<1> QED BY <1>1, <1>2 DEF Retires, GoesOn

LEMMA RaisedAwake ==
  ASSUME WInv, Clockless, Raise
  PROVE  WInv'
BY DEF WInv, Awake, ResetsReturn, HasFrame, InList, Early, Clockless, Raise

LEMMA ChangedAwake ==
  ASSUME IInv, WInv, Clockless, NEW m \in [Timers -> TimerEntry], NEW x \in Timers,
         \A y \in Timers : y # x => m[y] = tm[y],
         NEW st \in Seq(Frame), ResetsReturn(st),
         HasFrame(stack, Calculating) => HasFrame(st, Calculating),
         \A y \in Timers : y # x /\ HasFrame(stack, Redoing(y)) => HasFrame(st, Redoing(y)),
         TimeChanged(m, x, st)
  PROVE  WInv'
<1>1. (GoesOn(st) /\ Retires(x)) \/ Raise
  BY ChangedWakes
<1> QED BY <1>1, RetiredAwake, RaisedAwake

\* timer_list and the entries in it keep, the stack gets frames or loses idle ones.
LEMMA SameAwake ==
  ASSUME IInv, WInv, Clockless, ResetsReturn(stack'),
         HasFrame(stack, Calculating) => HasFrame(stack', Calculating),
         \A y \in Timers : InList(y) =>
           /\ tm'[y] = tm[y] \/ HasFrame(stack', Redoing(y))
           /\ HasFrame(stack, Redoing(y)) => HasFrame(stack', Redoing(y)),
         UNCHANGED timer_list
  PROVE  WInv'
<1>1. CASE HasFrame(stack', Calculating)
  BY <1>1 DEF WInv, Awake, HasFrame, ResetsReturn
<1>2. CASE ~HasFrame(stack, Calculating)
  <2>1. ASSUME NEW y \in Timers, InList(y)' PROVE Early(y)' \/ HasFrame(stack', Redoing(y))
    <3>1. InList(y)
      BY <2>1 DEF InList
    <3>2. Early(y) \/ HasFrame(stack, Redoing(y))
      BY <1>2, <3>1 DEF WInv, Awake
    <3>3. tm'[y] = tm[y] /\ Early(y) => Early(y)'
      BY DEF Early, Clockless
    <3> QED BY <3>1, <3>2, <3>3
  <2>2. Awake'
    BY <2>1 DEF Awake, HasFrame
  <2> QED BY <2>2 DEF WInv, ResetsReturn
<1> QED BY <1>1, <1>2

\* The top frame and the rest of the stack.
LEMMA TopFrame ==
  ASSUME IInv, WInv, stack # <<>>
  PROVE  /\ Top \in Frame /\ Return \in Seq(Frame) /\ ResetsReturn(Return)
         /\ Top.pc = "reset" => Return # <<>> /\ Head(Return).pc = "process"
         /\ \A S : HasFrame(stack, S) <=> Top \in S \/ HasFrame(Return, S)
<1>1. stack \in Seq(Frame)
  BY DEF IInv, Homes, StackOK
<1>2. ResetsReturn(stack)
  BY DEF WInv
<1>3. /\ ResetsReturn(Return)
      /\ Top.pc = "reset" => Return # <<>> /\ Head(Return).pc = "process"
  BY <1>1, <1>2, PoppedReset DEF Top, Return
<1>4. \A S : HasFrame(stack, S) <=> Top \in S \/ HasFrame(Return, S)
  BY <1>1, PoppedHas DEF Top, Return
<1>5. Top \in Frame /\ Return \in Seq(Frame)
  BY <1>1 DEF Top, Return
<1> QED BY <1>3, <1>4, <1>5

\* A frame in the place of the top one that returns to the same.
LEMMA ReplacedTop ==
  ASSUME IInv, WInv, stack # <<>>, NEW f \in Frame, f.pc = Top.pc, f.x = Top.x
  PROVE  /\ <<f>> \o Return \in Seq(Frame) /\ ResetsReturn(<<f>> \o Return)
         /\ HasFrame(stack, Calculating) => HasFrame(<<f>> \o Return, Calculating)
         /\ \A y \in Timers :
              HasFrame(stack, Redoing(y)) => HasFrame(<<f>> \o Return, Redoing(y))
<1>1. \A S : HasFrame(<<f>> \o Return, S) <=> f \in S \/ HasFrame(Return, S)
  BY TopFrame, PushedHas
<1>2. <<f>> \o Return \in Seq(Frame)
  BY TopFrame, PushedHas
<1>3. ResetsReturn(<<f>> \o Return)
  BY TopFrame, PushedReset
<1>4. /\ Top \in Calculating => f \in Calculating
      /\ \A y \in Timers : Top \in Redoing(y) => f \in Redoing(y)
  BY DEF Calculating, Redoing
<1> QED BY <1>1, <1>2, <1>3, <1>4, TopFrame

-----------------------------------------------------------------------------
(* The frames and the events keep the eTimer early                          *)

LEMMA EnterCalcAwake == IInv /\ WInv /\ EnterCalc => WInv'
<1> SUFFICES ASSUME IInv, WInv, EnterCalc PROVE WInv'
  OBVIOUS
<1>1. stack # <<>>
  BY DEF EnterCalc, In
<1>2. Return \in Seq(Frame) /\ ResetsReturn(Return)
  BY <1>1, TopFrame
<1> DEFINE p == Call("process", None, Nobody)
           turn == <<p>> \o Return
           f == Call("reset", None, processed)
<1>3. p \in Frame /\ p.pc = "process" /\ p \in Calculating
  BY DEF Call, Frame, Pcs, Nobody, Calculating
<1>4. f \in Frame
  BY DEF Call, Frame, Pcs, IInv, Homes
<1> HIDE DEF p, f
<1>5. turn \in Seq(Frame) /\ ResetsReturn(turn) /\ HasFrame(turn, Calculating)
  BY <1>2, <1>3, PushedHas, PushedReset
<1>6. turn # <<>> /\ Head(turn) = p
  BY <1>2, <1>3
<1>7. stack' = turn \/ stack' = <<f>> \o turn
  BY DEF EnterCalc, p, f
<1> HIDE DEF turn
<1>8. /\ ResetsReturn(<<f>> \o turn) /\ HasFrame(<<f>> \o turn, Calculating)
  BY <1>3, <1>4, <1>5, <1>6, PushedHas, PushedReset
<1>9. ResetsReturn(stack') /\ HasFrame(stack', Calculating)
  BY <1>5, <1>7, <1>8
<1> QED BY <1>9 DEF WInv, Awake, HasFrame, ResetsReturn

LEMMA ResetProcessedAwake == IInv /\ WInv /\ ResetProcessed => WInv'
<1> SUFFICES ASSUME IInv, WInv, ResetProcessed PROVE WInv'
  OBVIOUS
<1>1. stack # <<>> /\ Top.pc = "reset"
  BY DEF ResetProcessed, In
<1>2. /\ Return \in Seq(Frame) /\ ResetsReturn(Return) /\ Top \in Frame
      /\ Return # <<>> /\ Head(Return).pc = "process"
  BY <1>1, TopFrame
<1>3. HasFrame(Return, Calculating)
  <2>1. Head(Return) \in Frame
    BY <1>2
  <2>2. Head(Return) \in Calculating
    BY <1>2, <2>1 DEF Calculating
  <2> QED BY <1>2, <2>2, PoppedHas
<1>4. CASE stack' = Return
  BY <1>2, <1>3, <1>4, Zenon DEF WInv, Awake, HasFrame, ResetsReturn
<1>5. ASSUME NEW x \in Timers, Top.rest[x] > 0,
             AddTimerEntry([tm EXCEPT ![x] = ResetState(@)], x, timer_list, processed,
                           <<[Top EXCEPT !.rest[x] = @ - 1]>> \o Return, TRUE)
      PROVE  WInv'
  <2> DEFINE f == [Top EXCEPT !.rest[x] = @ - 1]
             m == [tm EXCEPT ![x] = ResetState(@)]
  <2>1. f \in Frame /\ f.pc = "reset"
    <3>1. Top.rest \in [Timers -> Nat] /\ Top.rest[x] \in Nat
      BY <1>2 DEF Frame
    <3>2. [Top.rest EXCEPT ![x] = @ - 1] \in [Timers -> Nat]
      BY <1>5, <3>1
    <3>3. \A q \in [Timers -> Nat] : [Top EXCEPT !.rest = q] \in Frame
                                    /\ [Top EXCEPT !.rest = q].pc = Top.pc
      BY <1>2 DEF Frame
    <3>4. f = [Top EXCEPT !.rest = [Top.rest EXCEPT ![x] = @ - 1]]
      BY <1>2, <3>1 DEF Frame
    <3> QED BY <1>1, <3>2, <3>3, <3>4
  <2>2. ResetState(tm[x]) \in TimerEntry
    BY ResetEntry DEF IInv, SameService
  <2>3. m \in [Timers -> TimerEntry]
    BY <2>2 DEF IInv
  <2>4. AddTimerEntry(m, x, timer_list, processed, <<f>> \o Return, TRUE)
    BY <1>5
  <2> HIDE DEF f, m
  <2>5. /\ <<f>> \o Return \in Seq(Frame) /\ ResetsReturn(<<f>> \o Return)
        /\ HasFrame(<<f>> \o Return, Calculating)
    BY <1>2, <1>3, <2>1, PushedHas, PushedReset
  <2>6. stack' = <<f>> \o Return
    BY <2>3, <2>4, <2>5, AddedWakes
  <2> QED BY <2>5, <2>6, Zenon DEF WInv, Awake, HasFrame, ResetsReturn
<1> QED BY <1>4, <1>5 DEF ResetProcessed

LEMMA ActivationGoesOn ==
  ASSUME IInv, NEW x \in Timers, InList(x), NEW r \in TimerEntry, r.rs = tm[x].rs,
         NEW st \in Seq(Frame), ResetsReturn(st), DoActivate(r, x, st)
  PROVE  GoesOn(st) \/ Raise
<1>1. Activates(x, st) \/ Raise
  BY Activation DEF IInv, Clocks
<1> QED BY <1>1, SettledWakes DEF Activates

LEMMA ActivateHeadAwake == IInv /\ WInv /\ ActivateHead => WInv'
<1> SUFFICES ASSUME IInv, WInv, ActivateHead PROVE WInv'
  OBVIOUS
<1>1. PICK x \in Timers : IsDue(x) /\ DoActivate(tm[x], x, stack)
  BY DEF ActivateHead
<1>2. InList(x)
  BY <1>1 DEF IsDue, IsFirst, InList, Range
<1>3. stack \in Seq(Frame) /\ ResetsReturn(stack) /\ tm[x] \in TimerEntry
  BY DEF IInv, Homes, StackOK, WInv
<1>4. HasFrame(stack, Calculating)
  <2>1. stack # <<>> /\ Top.pc = "process"
    BY DEF ActivateHead, In
  <2>2. Top \in Calculating
    BY <2>1, TopFrame DEF Calculating
  <2> QED BY <2>1, <2>2, TopFrame
<1>5. GoesOn(stack) \/ Raise
  BY <1>1, <1>2, <1>3, ActivationGoesOn
<1>6. CASE GoesOn(stack)
  BY <1>4, <1>6, Zenon DEF GoesOn, WInv, Awake, HasFrame, ResetsReturn
<1>7. CASE Raise
  BY <1>7, RaisedAwake DEF ActivateHead
<1> QED BY <1>5, <1>6, <1>7

\* calcNextActivation sets the eTimer for the earliest activation of timer_list.
LEMMA ScheduleNextAwake == IInv /\ WInv /\ ScheduleNext => WInv'
<1> SUFFICES ASSUME IInv, WInv, ScheduleNext PROVE WInv'
  OBVIOUS
<1>1. stack # <<>> /\ stack' = Return /\ UNCHANGED <<now, tm>>
  BY DEF ScheduleNext, In
<1>2. Range(timer_list') = Range(timer_list)
  BY SortedEntries DEF ScheduleNext, IInv, Homes
<1>3. PICK when \in WakeTimes : /\ \A w \in WakeTimes : when <= w
                                /\ delay' = IF when > now THEN when - now ELSE 0
  BY DEF ScheduleNext
<1>4. \A x \in Timers : NextActivation(tm[x]) \in Int
  BY NextActivationOfEntry DEF IInv
<1>5. when \in Int /\ now \in Int
  BY <1>4, Times DEF WakeTimes, IInv, Clocks
<1>6. ASSUME NEW y \in Timers, InList(y)' PROVE Early(y)'
  <2>1. InList(y)
    BY <1>2, <1>6 DEF InList
  <2>2. CASE tm[y].disabled
    BY <1>1, <2>2 DEF Early
  <2>3. CASE ~tm[y].disabled
    <3>1. NextActivation(tm[y]) \in WakeTimes
      BY <2>1, <2>3 DEF WakeTimes
    <3>2. when <= NextActivation(tm[y]) /\ NextActivation(tm[y]) \in Int
      BY <1>3, <1>4, <3>1
    <3>3. delay' <= 0 \/ now + delay' <= NextActivation(tm[y])
      BY <1>3, <1>5, <3>2
    <3> QED BY <1>1, <3>3 DEF Early
  <2> QED BY <2>2, <2>3
<1>7. ResetsReturn(stack')
  BY <1>1, TopFrame
<1> QED BY <1>6, <1>7 DEF WInv, Awake, ResetsReturn

LEMMA FinishAwake == IInv /\ WInv /\ Finish => WInv'
<1> SUFFICES ASSUME IInv, WInv, Finish PROVE WInv'
  OBVIOUS
<1>1. stack # <<>> /\ Top.pc = "finish" /\ Clockless
  BY DEF Finish, In
<1>2. /\ Top \in Frame /\ Return \in Seq(Frame) /\ ResetsReturn(Return)
      /\ Top \notin Calculating /\ \A y : Top \notin Redoing(y)
  BY <1>1, TopFrame DEF Calculating, Redoing
<1>3. ASSUME NEW y \in Timers,
             TimeChanged([tm EXCEPT ![y].state = Waiting], y,
                         <<[Top EXCEPT !.rest[y] = 0]>> \o Return)
      PROVE  WInv'
  <2> DEFINE f == [Top EXCEPT !.rest[y] = 0]
             m == [tm EXCEPT ![y].state = Waiting]
  <2>1. f \in Frame /\ f.pc = Top.pc /\ f.x = Top.x
    BY <1>2 DEF Frame
  <2>2. m \in [Timers -> TimerEntry] /\ \A x \in Timers : x # y => m[x] = tm[x]
    <3>1. Waiting \in Waiting .. Ended
      BY DEF Waiting, Ended
    <3>2. \A r \in TimerEntry : [r EXCEPT !.state = Waiting] \in TimerEntry
      BY <3>1 DEF TimerEntry
    <3> QED BY <3>2 DEF IInv
  <2>3. TimeChanged(m, y, <<f>> \o Return)
    BY <1>3
  <2> HIDE DEF f, m
  <2>4. /\ <<f>> \o Return \in Seq(Frame) /\ ResetsReturn(<<f>> \o Return)
        /\ HasFrame(stack, Calculating) => HasFrame(<<f>> \o Return, Calculating)
        /\ \A x \in Timers :
             HasFrame(stack, Redoing(x)) => HasFrame(<<f>> \o Return, Redoing(x))
    BY <1>1, <2>1, ReplacedTop
  <2> QED BY <1>1, <2>2, <2>3, <2>4, ChangedAwake
<1>4. CASE /\ tm' = [y \in Timers |->
                       IF IsProcessed(y) /\ y # Top.x
                       THEN IF Kept(y) THEN Skipped(tm[y]) ELSE Fresh
                       ELSE tm[y]]
           /\ stack' = Return
           /\ UNCHANGED timer_list
  <2>1. \A y \in Timers : InList(y) => tm'[y] = tm[y]
    BY <1>4 DEF InList, IsProcessed, IInv, Homes
  <2>2. \A S : HasFrame(stack, S) <=> Top \in S \/ HasFrame(Return, S)
    BY <1>1, TopFrame
  <2>3. /\ HasFrame(stack, Calculating) => HasFrame(stack', Calculating)
        /\ \A y \in Timers : HasFrame(stack, Redoing(y)) => HasFrame(stack', Redoing(y))
    BY <1>2, <1>4, <2>2
  <2> QED BY <1>1, <1>2, <1>4, <2>1, <2>3, SameAwake
<1> QED BY <1>3, <1>4 DEF Finish

LEMMA RemoveEntryAwake == IInv /\ WInv /\ RemoveEntry => WInv'
<1> SUFFICES ASSUME IInv, WInv, RemoveEntry PROVE WInv'
  OBVIOUS
<1>1. stack # <<>> /\ Top.pc = "remove" /\ Clockless
  BY DEF RemoveEntry, In
<1>2. /\ Top \in Frame /\ Return \in Seq(Frame) /\ ResetsReturn(Return)
      /\ Top \notin Calculating /\ Top.x \in Timers
      /\ \A y \in Timers : Top \in Redoing(y) <=> y = Top.x
  <2>1. Top.x \in Timers
    BY <1>1, Returning DEF FrameOK, NeedsEntry
  <2> QED BY <1>1, <2>1, TopFrame DEF Calculating, Redoing
<1>3. ASSUME NEW j \in DOMAIN timer_list,
             \/ \E end \in {now + 1, now + AutoTime} :
                  TimeChanged([tm EXCEPT ![timer_list[j]].end = end], timer_list[j],
                              <<[Top EXCEPT !.i = j]>> \o Return)
             \/ /\ stack' = <<[Top EXCEPT !.i = j]>> \o Return
                /\ UNCHANGED <<tm, timer_list, processed, raised>>
      PROVE  WInv'
  <2> DEFINE f == [Top EXCEPT !.i = j]
             y == timer_list[j]
  <2>1. j \in Nat /\ y \in Timers
    BY DEF IInv, Homes
  <2>2. f \in Frame /\ f.pc = Top.pc /\ f.x = Top.x
    BY <1>2, <2>1 DEF Frame
  <2> HIDE DEF f, y
  <2>3. /\ <<f>> \o Return \in Seq(Frame) /\ ResetsReturn(<<f>> \o Return)
        /\ HasFrame(stack, Calculating) => HasFrame(<<f>> \o Return, Calculating)
        /\ \A x \in Timers :
             HasFrame(stack, Redoing(x)) => HasFrame(<<f>> \o Return, Redoing(x))
    BY <1>1, <2>2, ReplacedTop
  <2>4. ASSUME NEW end \in {now + 1, now + AutoTime},
               TimeChanged([tm EXCEPT ![y].end = end], y, <<f>> \o Return)
        PROVE  WInv'
    <3> DEFINE m == [tm EXCEPT ![y].end = end]
    <3>1. end \in Int
      BY Times DEF IInv, Clocks
    <3>2. \A r \in TimerEntry : [r EXCEPT !.end = end] \in TimerEntry
      BY <3>1 DEF TimerEntry
    <3>3. m \in [Timers -> TimerEntry] /\ \A x \in Timers : x # y => m[x] = tm[x]
      BY <3>2, <2>1 DEF IInv
    <3> HIDE DEF m
    <3>4. TimeChanged(m, y, <<f>> \o Return)
      BY <2>4 DEF m
    <3> QED BY <1>1, <2>1, <2>3, <3>3, <3>4, ChangedAwake
  <2>5. CASE stack' = <<f>> \o Return /\ UNCHANGED <<tm, timer_list, processed, raised>>
    BY <1>1, <2>3, <2>5, SameAwake
  <2> QED BY <1>3, <2>4, <2>5 DEF f, y
<1>4. CASE /\ IsProcessed(Top.x)
           /\ tm' = [tm EXCEPT ![Top.x] = Fresh]
           /\ stack' = Return
           /\ UNCHANGED timer_list
  <2>1. \A y \in Timers : InList(y) => y # Top.x /\ tm'[y] = tm[y]
    BY <1>2, <1>4 DEF InList, IsProcessed, IInv, Homes
  <2>2. \A S : HasFrame(stack, S) <=> Top \in S \/ HasFrame(Return, S)
    BY <1>1, TopFrame
  <2>3. /\ HasFrame(stack, Calculating) => HasFrame(stack', Calculating)
        /\ \A y \in Timers : InList(y) /\ HasFrame(stack, Redoing(y))
             => HasFrame(stack', Redoing(y))
    BY <1>2, <1>4, <2>1, <2>2
  <2> QED BY <1>1, <1>2, <1>4, <2>1, <2>3, SameAwake
<1>5. CASE Raise
  BY <1>1, <1>5, RaisedAwake
<1> QED BY <1>3, <1>4, <1>5 DEF RemoveEntry

LEMMA StoppedCurrentAwake == IInv /\ WInv /\ StoppedCurrent => WInv'
<1> SUFFICES ASSUME IInv, WInv, StoppedCurrent PROVE WInv'
  OBVIOUS
<1>1. stack # <<>> /\ Top.pc \in {"again", "disable"} /\ Clockless
  BY DEF StoppedCurrent, In
<1>2. /\ Top \in Frame /\ Return \in Seq(Frame) /\ ResetsReturn(Return)
      /\ Top \notin Calculating /\ Top.x \in Timers
      /\ \A y \in Timers : y # Top.x => Top \notin Redoing(y)
  <2>1. Top.x \in Timers
    BY <1>1, Returning DEF FrameOK, NeedsEntry
  <2> QED BY <1>1, <2>1, TopFrame DEF Calculating, Redoing
<1> DEFINE m == [tm EXCEPT ![Top.x].disabled = @ \/ In("disable")]
<1>3. \A b : \A r \in TimerEntry : [r EXCEPT !.disabled = r.disabled \/ b] \in TimerEntry
  BY DEF TimerEntry
<1>4. m \in [Timers -> TimerEntry] /\ \A y \in Timers : y # Top.x => m[y] = tm[y]
  BY <1>2, <1>3 DEF IInv
<1>5. TimeChanged(m, Top.x, Return)
  BY DEF StoppedCurrent
<1> HIDE DEF m
<1>6. \A S : HasFrame(stack, S) <=> Top \in S \/ HasFrame(Return, S)
  BY <1>1, TopFrame
<1> QED BY <1>1, <1>2, <1>4, <1>5, <1>6, ChangedAwake

LEMMA SkippedNextAwake == IInv /\ WInv /\ SkippedNext => WInv'
<1> SUFFICES ASSUME IInv, WInv, SkippedNext PROVE WInv'
  OBVIOUS
<1>1. stack # <<>> /\ Top.pc = "next" /\ Clockless
  BY DEF SkippedNext, In
<1>2. /\ Return \in Seq(Frame) /\ ResetsReturn(Return)
      /\ Top \notin Calculating /\ Top.x \in Timers /\ \A y \in Timers : Top \notin Redoing(y)
  <2>1. Top.x \in Timers
    BY <1>1, Returning DEF FrameOK, NeedsEntry
  <2> QED BY <1>1, <2>1, TopFrame DEF Calculating, Redoing
<1> DEFINE r == ProcessRepeated(tm[Top.x], tm[Top.x].end + 1, TRUE)
           m == [tm EXCEPT ![Top.x] = [r EXCEPT !.disabled = FALSE]]
<1>3. TimeChanged(m, Top.x, Return)
  BY DEF SkippedNext
<1>4. tm[Top.x] \in TimerEntry /\ tm[Top.x].end + 1 \in Int
  BY <1>2 DEF IInv, TimerEntry
<1>5. r \in TimerEntry
  BY <1>4, RepeatedEntry DEF SameService
<1> HIDE DEF r
<1>6. [r EXCEPT !.disabled = FALSE] \in TimerEntry
  BY <1>5 DEF TimerEntry
<1>7. m \in [Timers -> TimerEntry] /\ \A y \in Timers : y # Top.x => m[y] = tm[y]
  BY <1>2, <1>6 DEF IInv
<1> HIDE DEF m
<1>8. \A S : HasFrame(stack, S) <=> Top \in S \/ HasFrame(Return, S)
  BY <1>1, TopFrame
<1> QED BY <1>1, <1>2, <1>3, <1>7, <1>8, ChangedAwake

LEMMA IdleFrames ==
  ASSUME stack = <<>>
  PROVE  \A S : ~HasFrame(stack, S)
BY DEF HasFrame

\* An event that changes fields of x and calls timeChanged.
LEMMA EventAwake ==
  ASSUME IInv, WInv, Idle, Clockless, NEW x \in Timers, NEW r \in TimerEntry,
         NEW st \in Seq(Frame), ResetsReturn(st), TimeChanged([tm EXCEPT ![x] = r], x, st)
  PROVE  WInv'
<1> DEFINE m == [tm EXCEPT ![x] = r]
<1>1. m \in [Timers -> TimerEntry] /\ \A y \in Timers : y # x => m[y] = tm[y]
  BY DEF IInv
<1>2. TimeChanged(m, x, st)
  OBVIOUS
<1> HIDE DEF m
<1>3. \A S : ~HasFrame(stack, S)
  BY IdleFrames DEF Idle
<1> QED BY <1>1, <1>2, <1>3, ChangedAwake

LEMMA OneCall ==
  ASSUME NEW pc \in {"remove", "again", "disable", "next", "calc"}, NEW x \in Timers \cup {None}
  PROVE  /\ <<Call(pc, x, Nobody)>> \in Seq(Frame)
         /\ ResetsReturn(<<Call(pc, x, Nobody)>>)
         /\ pc = "calc" => HasFrame(<<Call(pc, x, Nobody)>>, Calculating)
         /\ pc \in {"remove", "again", "disable"}
              => HasFrame(<<Call(pc, x, Nobody)>>, Redoing(x))
<1> DEFINE f == Call(pc, x, Nobody)
<1>1. f \in Frame /\ f.pc = pc /\ f.x = x
  BY DEF Call, Frame, Pcs, Nobody
<1> HIDE DEF f
<1>2. /\ <<f>> \in Seq(Frame) /\ DOMAIN <<f>> = {1} /\ <<f>>[1] = f
  BY <1>1
<1>3. ResetsReturn(<<f>>)
  BY <1>1, <1>2 DEF ResetsReturn
<1>4. pc = "calc" => HasFrame(<<f>>, Calculating)
  BY <1>1, <1>2 DEF HasFrame, Calculating
<1>5. pc \in {"remove", "again", "disable"} => HasFrame(<<f>>, Redoing(x))
  BY <1>1, <1>2 DEF HasFrame, Redoing
<1> QED BY <1>2, <1>3, <1>4, <1>5 DEF f

LEMMA NoCall == <<>> \in Seq(Frame) /\ ResetsReturn(<<>>)
BY DEF ResetsReturn

LEMMA TimerFiresAwake == IInv /\ WInv /\ TimerFires => WInv'
<1> SUFFICES ASSUME TimerFires PROVE WInv'
  OBVIOUS
<1>1. stack' = <<Call("calc", None, Nobody)>>
  BY DEF TimerFires
<1>2. ResetsReturn(stack') /\ HasFrame(stack', Calculating)
  BY <1>1, OneCall
<1> QED BY <1>2, Zenon DEF WInv, Awake, HasFrame, ResetsReturn

LEMMA RecordAwake == \A x \in Timers : IInv /\ WInv /\ Record(x) => WInv'
<1> SUFFICES ASSUME NEW x \in Timers, IInv, WInv, Record(x) PROVE WInv'
  OBVIOUS
<1>1. PICK begin \in now - 1 .. now + Ahead, length \in Lengths,
        repeated \in BOOLEAN, justplay \in BOOLEAN, auto \in BOOLEAN :
       AddTimerEntry([tm EXCEPT ![x] = TimeMoved([Fresh EXCEPT !.begin = begin,
                            !.end = begin + length, !.repeated = repeated,
                            !.justplay = justplay, !.auto = auto])],
                        x, timer_list, processed, <<>>, FALSE)
  BY Zenon DEF Record
<1> DEFINE r == [Fresh EXCEPT !.begin = begin, !.end = begin + length,
                              !.repeated = repeated, !.justplay = justplay, !.auto = auto]
           q == TimeMoved(r)
           m == [tm EXCEPT ![x] = q]
<1>2. begin \in Int /\ begin + length \in Int
  BY Times DEF IInv, Clocks
<1>3. r \in TimerEntry
  BY <1>2, FreshEntry DEF TimerEntry
<1>4. AddTimerEntry(m, x, timer_list, processed, <<>>, FALSE)
  BY <1>1
<1> HIDE DEF r
<1>5. q \in TimerEntry
  BY <1>3, TimeMovedEntry DEF SameService
<1> HIDE DEF q
<1>6. m \in [Timers -> TimerEntry] /\ \A y \in Timers : y # x => m[y] = tm[y]
  BY <1>5 DEF IInv
<1> HIDE DEF m
<1>7. x \notin Range(timer_list) /\ stack = <<>> /\ Clockless
  BY DEF Record, Idle, Live, InList
<1>8. /\ GoesOn(<<>>)
      /\ \/ HasFrame(stack', Calculating)
         \/ timer_list' = timer_list /\ \A y \in Timers : y # x => tm'[y] = m[y]
  BY <1>4, <1>6, NoCall, AddedWakes
<1>9. Retires(x)
  BY <1>6, <1>7, <1>8 DEF Retires
<1>10. \A S : ~HasFrame(stack, S)
  BY <1>7, IdleFrames
<1> QED BY <1>7, <1>8, <1>9, <1>10, RetiredAwake

LEMMA BeginRemovalAwake ==
  ASSUME IInv, WInv, Idle, Clockless, NEW x \in Timers, BeginRemoval(x)
  PROVE  WInv'
<1> DEFINE r == [tm[x] EXCEPT !.repeated = FALSE, !.auto = FALSE]
           removing == <<Call("remove", x, Nobody)>>
<1>1. SameService(r, tm[x])
  BY UsedEntry DEF TimerEntry, SameService
<1>2. \/ TimeChanged([tm EXCEPT ![x] = Abort(r)], x, removing)
      \/ /\ tm' = [tm EXCEPT ![x] = Abort(r)]
         /\ stack' = removing
         /\ UNCHANGED timer_list
  BY DEF BeginRemoval
<1> HIDE DEF r
<1>3. Abort(r) \in TimerEntry
  BY <1>1, AbortedEntry DEF SameService, IInv, Clocks
<1>4. /\ removing \in Seq(Frame) /\ ResetsReturn(removing)
      /\ HasFrame(removing, Redoing(x))
  BY OneCall
<1> HIDE DEF removing
<1>5. CASE TimeChanged([tm EXCEPT ![x] = Abort(r)], x, removing)
  BY <1>3, <1>4, <1>5, EventAwake
<1>6. CASE /\ tm' = [tm EXCEPT ![x] = Abort(r)]
           /\ stack' = removing
           /\ UNCHANGED timer_list
  <2>1. \A y \in Timers : tm'[y] = tm[y] \/ HasFrame(stack', Redoing(y))
    BY <1>4, <1>6 DEF IInv
  <2>2. \A S : ~HasFrame(stack, S)
    BY IdleFrames DEF Idle
  <2> QED BY <1>4, <1>6, <2>1, <2>2, SameAwake
<1> QED BY <1>2, <1>5, <1>6

LEMMA RemovalsAwake ==
  \A x \in Timers : IInv /\ WInv /\ (UserRemoves(x) \/ RecordingAborted(x)) => WInv'
BY BeginRemovalAwake DEF UserRemoves, RecordingAborted

LEMMA UserDisablesAwake == \A x \in Timers : IInv /\ WInv /\ UserDisables(x) => WInv'
<1> SUFFICES ASSUME NEW x \in Timers, IInv, WInv, UserDisables(x) PROVE WInv'
  OBVIOUS
<1> DEFINE r == [tm[x] EXCEPT !.disabled = TRUE]
<1>1. r \in TimerEntry
  BY DEF IInv, TimerEntry
<1>2. [tm EXCEPT ![x].disabled = TRUE] = [tm EXCEPT ![x] = r]
  BY Zenon
<1> HIDE DEF r
<1> QED BY <1>1, <1>2, NoCall, EventAwake DEF UserDisables

LEMMA UserEnablesAwake == \A x \in Timers : IInv /\ WInv /\ UserEnables(x) => WInv'
<1> SUFFICES ASSUME NEW x \in Timers, IInv, WInv, UserEnables(x) PROVE WInv'
  OBVIOUS
<1>1. PICK b \in BOOLEAN : TimeChanged([tm EXCEPT ![x].disabled = b], x, <<>>)
  BY DEF UserEnables
<1> DEFINE r == [tm[x] EXCEPT !.disabled = b]
<1>2. r \in TimerEntry
  BY DEF IInv, TimerEntry
<1>3. [tm EXCEPT ![x].disabled = b] = [tm EXCEPT ![x] = r]
  BY Zenon
<1> HIDE DEF r
<1> QED BY <1>1, <1>2, <1>3, NoCall, EventAwake DEF UserEnables

LEMMA UserSkipsNextAwake == \A x \in Timers : IInv /\ WInv /\ UserSkipsNext(x) => WInv'
<1> SUFFICES ASSUME NEW x \in Timers, IInv, WInv, UserSkipsNext(x) PROVE WInv'
  OBVIOUS
<1> DEFINE r == [tm[x] EXCEPT !.disabled = TRUE]
           skipping == <<Call("next", x, Nobody)>>
<1>1. r \in TimerEntry
  BY DEF IInv, TimerEntry
<1>2. TimeChanged([tm EXCEPT ![x].disabled = TRUE], x, skipping) /\ Idle /\ Clockless
  BY DEF UserSkipsNext
<1>3. [tm EXCEPT ![x].disabled = TRUE] = [tm EXCEPT ![x] = r]
  BY Zenon
<1>4. skipping \in Seq(Frame) /\ ResetsReturn(skipping)
  BY OneCall
<1> HIDE DEF r, skipping
<1> QED BY <1>1, <1>2, <1>3, <1>4, EventAwake

LEMMA UserMovesEndAwake == \A x \in Timers : IInv /\ WInv /\ UserMovesEnd(x) => WInv'
<1> SUFFICES ASSUME NEW x \in Timers, IInv, WInv, UserMovesEnd(x) PROVE WInv'
  OBVIOUS
<1>1. PICK end \in {now, now + Ahead} :
        TimeChanged([tm EXCEPT ![x].end = end, ![x].auto = FALSE], x, <<>>)
  BY DEF UserMovesEnd
<1> DEFINE r == [tm[x] EXCEPT !.end = end, !.auto = FALSE]
<1>2. end \in Int
  BY Times DEF IInv, Clocks
<1>3. r \in TimerEntry
  BY <1>2 DEF IInv, TimerEntry
<1>4. [tm EXCEPT ![x].end = end, ![x].auto = FALSE] = [tm EXCEPT ![x] = r]
  BY DEF IInv
<1> HIDE DEF r
<1> QED BY <1>1, <1>3, <1>4, NoCall, EventAwake DEF UserMovesEnd

LEMMA UserCleansUpAwake == IInv /\ WInv /\ UserCleansUp => WInv'
<1> SUFFICES ASSUME IInv, WInv, UserCleansUp PROVE WInv'
  OBVIOUS
<1>1. \A y \in Timers : InList(y) => tm'[y] = tm[y]
  BY DEF UserCleansUp, InList, IsProcessed, IInv, Homes
<1>2. UNCHANGED <<stack, timer_list>> /\ Clockless
  BY DEF UserCleansUp
<1>3. ResetsReturn(stack')
  BY <1>2 DEF WInv, ResetsReturn
<1> QED BY <1>1, <1>2, <1>3, SameAwake

\* The inputs that make the eTimer late are off: a clock that is set, an edit of a prepared or running
\* entry that timeChanged does not follow (modifyTimer), and an instant recording whose stream ends
\* before it does.  An edit that first makes another recording give way is left to the runs.
Prompt == {"clockset", "inplaceactive", "autostopped", "conflict"} \cap Env = {}

\* An entry that waits is activated at its prep, which an edit without timeChanged leaves alone.
LEMMA EditedAwake ==
  ASSUME IInv, WInv, Idle, Clockless, NEW x \in Timers,
         NEW begin \in Int, NEW end \in Int, NEW repeated \in BOOLEAN, NEW justplay \in BOOLEAN,
         tm' = [tm EXCEPT ![x] = Edited(@, begin, end, repeated, justplay)],
         UNCHANGED <<timer_list, stack>>, InList(x) => tm[x].state = Waiting
  PROVE  WInv'
<1> DEFINE r == Edited(tm[x], begin, end, repeated, justplay)
<1>1. tm \in [Timers -> TimerEntry]
  BY DEF IInv
<1>2. \A q \in TimerEntry :
        /\ Edited(q, begin, end, repeated, justplay).state = q.state
        /\ Edited(q, begin, end, repeated, justplay).prep = q.prep
        /\ Edited(q, begin, end, repeated, justplay).disabled = q.disabled
  BY DEF Edited, TimerEntry
<1>3. r.state = tm[x].state /\ r.prep = tm[x].prep /\ r.disabled = tm[x].disabled
  BY <1>1, <1>2
<1>4. tm'[x] = r /\ \A y \in Timers : y # x => tm'[y] = tm[y]
  BY <1>1
<1> HIDE DEF r
<1>5. \A S : ~HasFrame(stack, S)
  BY IdleFrames DEF Idle
<1>6. ASSUME NEW y \in Timers, InList(y)' PROVE Early(y)'
  <2>1. InList(y)
    BY <1>6 DEF InList
  <2>2. Early(y)
    BY <1>5, <2>1 DEF WInv, Awake
  <2>3. tm'[y].disabled = tm[y].disabled /\ NextActivation(tm'[y]) = NextActivation(tm[y])
    <3>1. CASE y = x
      BY <1>3, <1>4, <2>1, <3>1 DEF NextActivation
    <3>2. CASE y # x
      BY <1>4, <3>2
    <3> QED BY <3>1, <3>2
  <2> QED BY <2>2, <2>3 DEF Early, Clockless
<1>7. Awake'
  BY <1>6 DEF Awake
<1>8. ResetsReturn(stack')
  BY DEF WInv
<1> QED BY <1>7, <1>8 DEF WInv, ResetsReturn

LEMMA UserEditsAwake ==
  ASSUME Prompt
  PROVE  \A x \in Timers : IInv /\ WInv /\ UserEdits(x) => WInv'
<1> SUFFICES ASSUME NEW x \in Timers, IInv, WInv, UserEdits(x) PROVE WInv'
  OBVIOUS
<1>1. PICK begin \in {now, now + Ahead}, length \in Lengths,
           repeated \in BOOLEAN, justplay \in BOOLEAN :
        \/ TimeChanged([tm EXCEPT ![x] = Edited(@, begin, begin + length, repeated,
                                                justplay)], x, <<>>)
        \/ /\ tm' = [tm EXCEPT ![x] = Edited(@, begin, begin + length, repeated, justplay)]
           /\ UNCHANGED <<timer_list, stack>>
           /\ InList(x) => tm[x].state = Waiting
  BY DEF UserEdits, InPlace, Prompt
<1> DEFINE r == Edited(tm[x], begin, begin + length, repeated, justplay)
<1>2. begin \in Int /\ begin + length \in Int
  BY Times DEF IInv, Clocks
<1>3. tm[x] \in TimerEntry
  BY DEF IInv
<1>4. r \in TimerEntry
  BY <1>2, <1>3 DEF Edited, TimerEntry
<1>5. Idle /\ Clockless
  BY DEF UserEdits
<1>6. CASE TimeChanged([tm EXCEPT ![x] = r], x, <<>>)
  <2> HIDE DEF r
  <2> QED BY <1>4, <1>5, <1>6, NoCall, EventAwake
<1>7. CASE /\ tm' = [tm EXCEPT ![x] = Edited(@, begin, begin + length, repeated, justplay)]
           /\ UNCHANGED <<timer_list, stack>>
           /\ InList(x) => tm[x].state = Waiting
  BY <1>2, <1>5, <1>7, EditedAwake
<1> QED BY <1>1, <1>6, <1>7

\* The fields that tell how activate() ends a recording.
LEMMA RepeatedKeeps ==
  ASSUME NEW r \in TimerEntry, NEW limit \in Int, NEW b \in BOOLEAN
  PROVE  ProcessRepeated(r, limit, b).auto = r.auto
BY DEF ProcessRepeated, TimeMoved, TimerEntry

\* activate() of a running recording that is not extended ends it.
LEMMA EndingRetires ==
  ASSUME IInv, NEW x \in Timers, InList(x), NEW r \in TimerEntry, r.state = Running, ~r.auto,
         NEW st \in Seq(Frame), ResetsReturn(st), DoActivate(r, x, st)
  PROVE  (GoesOn(st) /\ Retires(x)) \/ Raise
<1>1. \A q \in TimerEntry :
        /\ [q EXCEPT !.state = Ended] \in TimerEntry
        /\ [q EXCEPT !.state = Ended].state = Ended
        /\ [q EXCEPT !.state = Ended, !.rs = None] \in TimerEntry
        /\ [q EXCEPT !.state = Ended, !.rs = None].state = Ended
  <2>1. Ended \in Waiting .. Ended
    BY DEF Waiting, Ended
  <2> QED BY <2>1 DEF TimerEntry
<1>2. Skipped(r) \in TimerEntry
  BY SkippedEntry DEF SameService
<1>3. Running # Waiting /\ Running # Prepared
  BY DEF Running, Waiting, Prepared
<1>4. \/ Raise
      \/ \E q \in TimerEntry : q.state = Ended /\ Settle(q, x, st)
  <2>1. CASE Settle([Skipped(r) EXCEPT !.state = Ended], x, st)
    BY <2>1, <1>1, <1>2
  <2>2. CASE Stop(r, x, st)
    <3>1. CASE Settle([r EXCEPT !.state = Ended], x, st)
      BY <3>1, <1>1
    <3>2. CASE Settle([r EXCEPT !.state = Ended, !.rs = None], x, st)
      BY <3>2, <1>1
    <3>3. CASE Raise
      BY <3>3
    <3> QED BY <2>2, <3>1, <3>2, <3>3 DEF Stop
  <2> QED BY <2>1, <2>2, <1>3 DEF DoActivate
<1>5. ASSUME NEW q \in TimerEntry, q.state = Ended, Settle(q, x, st)
      PROVE  GoesOn(st) /\ Retires(x)
  <2>1. Reached(q)
    BY <1>5 DEF Reached
  <2> QED BY <1>5, <2>1, SettledWakes
<1> QED BY <1>4, <1>5

LEMMA RecordingEndsAwake ==
  ASSUME Prompt
  PROVE  \A x \in Timers : IInv /\ WInv /\ RecordingEnds(x) => WInv'
<1> SUFFICES ASSUME NEW x \in Timers, IInv, WInv, RecordingEnds(x) PROVE WInv'
  OBVIOUS
<1>1. /\ Idle /\ InList(x) /\ Clockless /\ tm[x] \in TimerEntry
      /\ tm[x].state = Running /\ ~tm[x].auto
  BY DEF RecordingEnds, IInv, Prompt
<1>2. PICK b \in {tm[x].disabled} \cup (IF tm[x].repeated THEN {FALSE} ELSE {}) :
        DoActivate(ProcessRepeated([tm[x] EXCEPT !.disabled = b], now + 1, FALSE), x, <<>>)
  BY DEF RecordingEnds
<1>3. b \in BOOLEAN
  BY <1>1 DEF TimerEntry
<1> DEFINE q == [tm[x] EXCEPT !.disabled = b]
           r == ProcessRepeated(q, now + 1, FALSE)
<1>4. q \in TimerEntry /\ q.state = Running /\ ~q.auto
  BY <1>1, <1>3 DEF TimerEntry
<1>5. DoActivate(r, x, <<>>)
  BY <1>2
<1> HIDE DEF q
<1>6. r \in TimerEntry /\ r.state = Running /\ r.auto = q.auto
  <2>1. now + 1 \in Int
    BY DEF IInv, Clocks
  <2> QED BY <1>4, <2>1, RepeatedEntry, RepeatedKeeps DEF SameService
<1>7. ~r.auto
  BY <1>4, <1>6
<1> HIDE DEF r
<1>8. (GoesOn(<<>>) /\ Retires(x)) \/ Raise
  BY <1>1, <1>5, <1>6, <1>7, NoCall, EndingRetires
<1>9. \A S : ~HasFrame(stack, S)
  BY <1>1, IdleFrames DEF Idle
<1> QED BY <1>1, <1>8, <1>9, RetiredAwake, RaisedAwake

\* The timeChanged that follows in runningEventCallback makes up for an extended recording.
LEMMA UserStopsEventAwake == \A x \in Timers : IInv /\ WInv /\ UserStopsEvent(x) => WInv'
<1> SUFFICES ASSUME NEW x \in Timers, IInv, WInv, UserStopsEvent(x) PROVE WInv'
  OBVIOUS
<1>1. Idle /\ InList(x) /\ Clockless
  BY DEF UserStopsEvent
<1>2. \A S : ~HasFrame(stack, S)
  BY <1>1, IdleFrames DEF Idle
<1> DEFINE r == ProcessRepeated([tm[x] EXCEPT !.disabled = FALSE], now + 1, FALSE)
<1>3. r \in TimerEntry /\ r.rs = tm[x].rs
  BY EndedRecording DEF SameService
<1>4. ASSUME NEW pc \in {"again", "disable"}, DoActivate(r, x, <<Call(pc, x, Nobody)>>)
      PROVE  WInv'
  <2> DEFINE st == <<Call(pc, x, Nobody)>>
  <2>1. st \in Seq(Frame) /\ ResetsReturn(st) /\ HasFrame(st, Redoing(x))
    BY OneCall
  <2> HIDE DEF st, r
  <2>2. Activates(x, st) \/ Raise
    BY <1>3, <1>4, Activation DEF st, IInv, Clocks
  <2>3. ASSUME NEW q \in TimerEntry, Settle(q, x, st) PROVE WInv'
    <3>1. /\ GoesOn(st)
          /\ Reached(q) => Retires(x)
          /\ Range(timer_list') \subseteq Range(timer_list) \cup {x}
          /\ ~Reached(q) => stack' = st /\ \A y \in Timers : y # x => tm'[y] = tm[y]
      BY <1>1, <2>1, <2>3, SettledWakes
    <3>2. CASE Reached(q)
      BY <1>1, <1>2, <3>1, <3>2, RetiredAwake
    <3>3. CASE ~Reached(q)
      <4>1. ASSUME NEW y \in Timers, InList(y)'
            PROVE  Early(y)' \/ HasFrame(stack', Redoing(y))
        <5>1. CASE y = x
          BY <2>1, <3>1, <3>3, <5>1
        <5>2. CASE y # x
          <6>1. InList(y) /\ tm'[y] = tm[y]
            BY <3>1, <3>3, <4>1, <5>2 DEF InList
          <6>2. Early(y)
            BY <1>2, <6>1 DEF WInv, Awake
          <6> QED BY <1>1, <6>1, <6>2 DEF Early, Clockless
        <5> QED BY <5>1, <5>2
      <4>2. Awake'
        BY <4>1 DEF Awake, HasFrame
      <4> QED BY <3>1, <4>2 DEF GoesOn, WInv, ResetsReturn
    <3> QED BY <3>2, <3>3
  <2> QED BY <1>1, <2>2, <2>3, RaisedAwake DEF Activates
<1>5. ASSUME TimeChanged([tm EXCEPT ![x].disabled = TRUE], x, <<>>) PROVE WInv'
  <2> DEFINE q == [tm[x] EXCEPT !.disabled = TRUE]
  <2>1. q \in TimerEntry
    BY DEF IInv, TimerEntry
  <2>2. [tm EXCEPT ![x].disabled = TRUE] = [tm EXCEPT ![x] = q]
    BY Zenon
  <2> HIDE DEF q
  <2> QED BY <1>1, <1>5, <2>1, <2>2, NoCall, EventAwake
<1> QED BY <1>4, <1>5 DEF UserStopsEvent

LEMMA TickAwake == IInv /\ WInv /\ Tick => WInv'
<1> SUFFICES ASSUME IInv, WInv, Tick PROVE WInv'
  OBVIOUS
<1>1. /\ now' = now + 1 /\ delay' = delay - 1 /\ now \in Int /\ delay \in Int
      /\ UNCHANGED <<tm, timer_list, stack>>
  BY DEF Tick, IInv, Clocks
<1>2. delay <= 0 => delay' <= 0
  BY <1>1
<1>3. now' + delay' = now + delay
  BY <1>1
<1>4. \A y \in Timers : Early(y) => Early(y)'
  BY <1>1, <1>2, <1>3 DEF Early
<1> QED BY <1>1, <1>4 DEF WInv, Awake, HasFrame, ResetsReturn, InList

LEMMA InitWInv == Init => WInv
BY DEF Init, WInv, Awake, ResetsReturn, InList, Range

LEMMA NextWInv ==
  ASSUME Prompt
  PROVE  IInv /\ WInv /\ [Next]_vars => WInv'
<1> SUFFICES ASSUME IInv, WInv, [Next]_vars PROVE WInv'
  OBVIOUS
<1>1. CASE Step
  BY <1>1, EnterCalcAwake, ResetProcessedAwake, ActivateHeadAwake, ScheduleNextAwake,
     FinishAwake, RemoveEntryAwake, StoppedCurrentAwake, SkippedNextAwake DEF Step
<1>2. CASE TimerFires \/ UserCleansUp \/ Tick
  BY <1>2, TimerFiresAwake, UserCleansUpAwake, TickAwake
<1>3. CASE ClockSet
  BY <1>3 DEF ClockSet, Prompt
<1>4. CASE \E x \in Timers : User(x)
  BY <1>4, RecordAwake, RemovalsAwake, RecordingEndsAwake, UserDisablesAwake,
     UserEnablesAwake, UserStopsEventAwake, UserSkipsNextAwake, UserEditsAwake,
     UserMovesEndAwake DEF User
<1>5. CASE UNCHANGED vars
  BY <1>5 DEF vars, WInv, Awake, HasFrame, ResetsReturn, InList, Early
<1> QED BY <1>1, <1>2, <1>3, <1>4, <1>5 DEF Next

LEMMA WInvWakes == WInv => WakesInTime
<1> SUFFICES ASSUME WInv, Idle, NEW x \in Timers, InList(x), ~tm[x].disabled
             PROVE  delay <= 0 \/ now + delay <= NextActivation(tm[x])
  BY DEF WakesInTime
<1>1. \A S : ~HasFrame(stack, S)
  BY IdleFrames DEF Idle
<1>2. Early(x)
  BY <1>1 DEF WInv, Awake
<1> QED BY <1>2 DEF Early

\* Whenever a handler has returned to the main loop, the eTimer that calcNextActivation
\* started is due no later than the next activation of every enabled entry in timer_list:
\* every path on which a handler moves a time ends in calcNextActivation, or retires the
\* entry it moved.  Setting the clock, an edit without timeChanged and the extension of an
\* instant recording by evGstRecordEnded are the three exceptions.
THEOREM WakesInTimeAlways ==
  ASSUME Prompt
  PROVE  Spec => []WakesInTime
<1>1. IInv /\ WInv /\ [Next]_vars => (IInv /\ WInv)'
  BY NextIInv, NextWInv
<1>2. Init => IInv /\ WInv
  BY InitIInv, InitWInv
<1> QED BY <1>1, <1>2, WInvWakes, PTL DEF Spec

-----------------------------------------------------------------------------
(* The lists, where nobody disturbs an active entry                         *)

Active(r) == r.state \in {Prepared, Running}

\* q differs from r in begin, end, start_prepare and the backoff only.
SameBut(q, r) ==
  /\ q \in TimerEntry
  /\ q.state = r.state /\ q.disabled = r.disabled /\ q.repeated = r.repeated
  /\ q.justplay = r.justplay /\ q.auto = r.auto /\ q.cancelled = r.cancelled
  /\ q.rs = r.rs

LEMMA MovedFields ==
  ASSUME NEW r \in TimerEntry
  PROVE  /\ SameBut(TimeMoved(r), r)
         /\ TimeMoved(r).begin = r.begin /\ TimeMoved(r).end = r.end
         /\ TimeMoved(r).prep = r.begin - PrepareTime
<1>1. r.begin - PrepareTime \in Int
  BY Times DEF TimerEntry
<1>2. \A e \in Int : LET q == [r EXCEPT !.prep = e, !.backoff = 0]
                     IN SameBut(q, r) /\ q.begin = r.begin /\ q.end = r.end /\ q.prep = e
  BY DEF TimerEntry, SameBut
<1> QED BY <1>1, <1>2 DEF TimeMoved

\* A time is moved to the limit, or past it, and not moved when it is there.
LEMMA Reaches ==
  ASSUME NEW time \in Int, NEW limit \in Int
  PROVE  /\ Day * DaysUpTo(time, limit) \in Nat
         /\ time >= limit => Day * DaysUpTo(time, limit) = 0
         /\ time + Day * DaysUpTo(time, limit) >= limit
<1>1. Day \in Nat \ {0}
  BY Times
<1>2. CASE time >= limit
  BY <1>1, <1>2 DEF DaysUpTo
<1>3. CASE time < limit
  <2> DEFINE a == limit - time + Day - 1
             q == a \div Day
             m == a % Day
  <2>1. a \in Nat /\ a >= Day /\ a = limit - time + Day - 1
    BY <1>1, <1>3
  <2> HIDE DEF a
  <2>2. q \in Int /\ m \in Int /\ a = Day * q + m /\ 0 <= m /\ m <= Day - 1
    BY <1>1, <2>1
  <2> HIDE DEF q, m
  <2>3. Day * q \in Int
    BY <1>1, <2>2
  <2>4. DaysUpTo(time, limit) = q
    BY <1>3 DEF DaysUpTo, q, a
  <2> DEFINE move == Day * q
  <2>5. move \in Int /\ a = move + m
    BY <2>2, <2>3
  <2> HIDE DEF move
  <2>6. move >= 0 /\ time + move >= limit
    BY ONLY <1>1, <2>1, <2>2, <2>5, time \in Int, limit \in Int
  <2> QED BY <1>3, <2>3, <2>4, <2>5, <2>6 DEF move
<1> QED BY <1>2, <1>3

LEMMA RepeatedFields ==
  ASSUME NEW r \in TimerEntry, NEW limit \in Int, NEW b \in BOOLEAN
  PROVE  LET q == ProcessRepeated(r, limit, b) IN
         /\ SameBut(q, r)
         /\ ~r.repeated => q = r
         /\ r.repeated => /\ q.begin >= r.begin /\ q.end >= r.end
                          /\ IF b THEN q.end >= limit ELSE q.begin >= limit
                          /\ q.prep = q.begin - PrepareTime
                          /\ (IF b THEN r.end ELSE r.begin) >= limit => q.begin = r.begin
<1> DEFINE time == IF b THEN r.end ELSE r.begin
           move == Day * DaysUpTo(time, limit)
           to == r.end + move
           until == IF r.begin = r.end THEN to + 1 ELSE to
           q == [r EXCEPT !.begin = r.begin + move, !.end = until]
<1>1. r.begin \in Int /\ r.end \in Int /\ time \in Int
  BY DEF TimerEntry
<1>2. /\ move \in Nat /\ time + move >= limit
      /\ time >= limit => move = 0
  BY <1>1, Reaches
<1> HIDE DEF move
<1>3. SameBut(q, r) /\ q.begin = r.begin + move /\ q.end = until
  <2>1. \A e, f \in Int : LET p == [r EXCEPT !.begin = e, !.end = f]
                          IN SameBut(p, r) /\ p.begin = e /\ p.end = f
    BY DEF TimerEntry, SameBut
  <2>2. r.begin + move \in Int /\ until \in Int
    BY <1>1, <1>2
  <2> HIDE DEF until
  <2> QED BY <2>1, <2>2
<1>4. /\ until \in Int /\ until >= r.end + move
  BY <1>1, <1>2
<1> HIDE DEF until, q
<1>5. /\ SameBut(TimeMoved(q), q) /\ TimeMoved(q).begin = q.begin /\ TimeMoved(q).end = q.end
      /\ TimeMoved(q).prep = q.begin - PrepareTime
  BY <1>3, MovedFields DEF SameBut
<1> DEFINE p == TimeMoved(q)
<1>6. SameBut(p, r) /\ p.begin = r.begin + move /\ p.end = until /\ p.prep = p.begin - PrepareTime
  BY <1>3, <1>5 DEF SameBut
<1>7. ProcessRepeated(r, limit, b) = IF ~r.repeated THEN r ELSE p
  BY DEF ProcessRepeated, q, until, to, move
<1> HIDE DEF p
<1>8. /\ p.begin >= r.begin /\ p.end >= r.end
      /\ IF b THEN p.end >= limit ELSE p.begin >= limit
      /\ time >= limit => p.begin = r.begin
  BY <1>1, <1>2, <1>4, <1>6
<1>9. CASE r.repeated
  <2>1. ProcessRepeated(r, limit, b) = p
    BY <1>7, <1>9
  <2> QED BY <1>6, <1>8, <1>9, <2>1
<1>10. CASE ~r.repeated
  <2>1. ProcessRepeated(r, limit, b) = r
    BY <1>7, <1>10
  <2>2. SameBut(r, r)
    BY DEF SameBut
  <2> QED BY <1>10, <2>1, <2>2
<1> QED BY <1>9, <1>10

LEMMA NextFields ==
  ASSUME NEW r \in TimerEntry, now \in Nat
  PROVE  LET q == NextOccurrence(r) IN
         /\ SameBut(q, r)
         /\ ~r.repeated => q = r
         /\ r.repeated => /\ q.begin >= r.begin /\ q.end > now
                          /\ q.prep = q.begin - PrepareTime
                          /\ r.end > now => q.begin = r.begin
<1>1. now + 1 \in Int /\ TRUE \in BOOLEAN
  OBVIOUS
<1> DEFINE q == NextOccurrence(r)
<1>2. q = ProcessRepeated(r, now + 1, TRUE)
  BY DEF NextOccurrence
<1> HIDE DEF q
<1>3. /\ SameBut(q, r)
      /\ ~r.repeated => q = r
      /\ r.repeated => /\ q.begin >= r.begin /\ q.end >= now + 1
                       /\ q.prep = q.begin - PrepareTime
                       /\ r.end >= now + 1 => q.begin = r.begin
  BY <1>1, <1>2, RepeatedFields
<1>4. q.end \in Int /\ r.end \in Int
  BY <1>3 DEF SameBut, TimerEntry
<1>5. (q.end >= now + 1 => q.end > now) /\ (r.end > now => r.end >= now + 1)
  BY <1>4
<1> QED BY <1>3, <1>5 DEF q

LEMMA SkippedFields ==
  ASSUME NEW r \in TimerEntry
  PROVE  LET q == [Skipped(r) EXCEPT !.state = Ended] IN
         /\ q \in TimerEntry /\ q.state = Ended /\ q.end = r.end /\ q.rs = r.rs
         /\ q.auto = r.auto /\ q.repeated = r.repeated /\ (r.repeated => q.disabled = r.disabled)
<1>1. Ended \in Waiting .. Ended
  BY DEF Waiting, Ended
<1> QED BY <1>1 DEF Skipped, TimerEntry

\* The frames an event puts under everything else.
Bases == {"again", "disable", "next", "remove"}
On(pc, y) == {f \in Frame : f.pc = pc /\ f.x = y}

\* No timewarp, no entry runs that should wait, and an event's frame is the first of all.
CalmFrame(f) == f.pc # "reset" /\ (f.pc = "finish" => f.rest = Nobody)
Calm(st) ==
  /\ st \in Seq(Frame)
  /\ \A i \in DOMAIN st : CalmFrame(st[i])
  /\ \A i \in DOMAIN st : st[i].pc \in Bases => i = Len(st)

LEMMA PushedCalm ==
  ASSUME NEW st, Calm(st), NEW f \in Frame, CalmFrame(f), f.pc \in Bases => st = <<>>
  PROVE  Calm(<<f>> \o st)
<1> DEFINE r == <<f>> \o st
<1>1. st \in Seq(Frame) /\ Len(st) \in Nat /\ DOMAIN st = 1 .. Len(st)
  BY DEF Calm
<1>2. /\ r \in Seq(Frame) /\ Len(r) = Len(st) + 1 /\ r[1] = f
      /\ \A i \in 1 .. Len(st) : r[i + 1] = st[i]
  BY <1>1
<1>3. DOMAIN r = 1 .. Len(st) + 1
  BY <1>1, <1>2
<1> HIDE DEF r
<1>4. \A i \in DOMAIN r : i # 1 => i - 1 \in DOMAIN st /\ r[i] = st[i - 1]
  BY <1>1, <1>2, <1>3
<1>5. \A i \in DOMAIN r : CalmFrame(r[i])
  BY <1>2, <1>4 DEF Calm
<1>6. ASSUME NEW i \in DOMAIN r, r[i].pc \in Bases PROVE i = Len(r)
  <2>1. CASE i = 1
    <3>1. Len(st) = 0
      BY <2>1, <1>2, <1>6
    <3> QED BY <2>1, <3>1, <1>2
  <2>2. CASE i # 1
    <3>1. i - 1 = Len(st)
      BY <2>2, <1>4, <1>6 DEF Calm
    <3> QED BY <3>1, <1>1, <1>2, <1>3
  <2> QED BY <2>1, <2>2
<1> QED BY <1>2, <1>5, <1>6 DEF Calm, r

LEMMA PoppedCalm ==
  ASSUME NEW st, Calm(st), st # <<>>
  PROVE  /\ Calm(Tail(st)) /\ CalmFrame(Head(st))
         /\ Head(st).pc \in Bases => Tail(st) = <<>>
<1> DEFINE r == Tail(st)
<1>1. /\ st \in Seq(Frame) /\ Len(st) \in Nat \ {0} /\ DOMAIN st = 1 .. Len(st)
      /\ Head(st) = st[1]
  BY DEF Calm
<1>2. /\ r \in Seq(Frame) /\ Len(r) = Len(st) - 1
      /\ \A i \in 1 .. Len(st) - 1 : r[i] = st[i + 1]
  BY <1>1
<1>3. DOMAIN r = 1 .. Len(st) - 1
  BY <1>1, <1>2
<1> HIDE DEF r
<1>4. ASSUME Len(st) = 1 PROVE r = <<>>
  <2>1. Len(r) = 0
    BY <1>2, <1>4
  <2> QED BY <2>1, <1>2
<1>5. \A i \in DOMAIN r : i + 1 \in DOMAIN st /\ r[i] = st[i + 1]
  BY <1>1, <1>2, <1>3
<1>6. \A i \in DOMAIN r : CalmFrame(r[i])
  BY <1>5 DEF Calm
<1>7. ASSUME NEW i \in DOMAIN r, r[i].pc \in Bases PROVE i = Len(r)
  <2>1. i + 1 = Len(st)
    BY <1>5, <1>7 DEF Calm
  <2> QED BY <2>1, <1>1, <1>2, <1>3
<1>8. CalmFrame(Head(st)) /\ (Head(st).pc \in Bases => Len(st) = 1)
  BY <1>1 DEF Calm
<1> QED BY <1>2, <1>4, <1>6, <1>7, <1>8 DEF Calm, r

-----------------------------------------------------------------------------
(* Where an entry is, and what its fields say                               *)

\* An entry in timer_list can be activated, no earlier than prepare_time before its
\* begin, and if it is active it has a recording to start or stop.
Listed(r) ==
  /\ r.state # Ended /\ ~r.disabled
  /\ r.state = Waiting => r.begin <= r.prep + PrepareTime
  /\ Active(r) => r.begin <= now + WrongAhead /\ (r.justplay \/ r.rs # None)

\* An entry whose next occurrence is still to come.
Coming(r) == r.state \in {Waiting, Prepared} /\ r.begin > now /\ r.end > now

\* An entry that removeEntry has aborted and the next activations stop.
Closing(r) ==
  /\ ~r.repeated /\ ~r.auto /\ r.cancelled
  /\ r.state = Running \/ (r.state = Prepared /\ r.begin <= now)

\* An entry that is not active has no recording.
Unrecorded(r) == "rename" \notin Env => (~Active(r) \/ r.justplay => r.rs = None)

Stored(m, tl, pr, st, y) ==
  /\ y \in Range(tl) => Listed(m[y])
  /\ pr[y] > 0 \/ HeldIn(st, y) => m[y].state = Ended
  /\ Active(m[y]) => y \in Range(tl)
  /\ m[y].auto => ~m[y].repeated
  /\ Unrecorded(m[y])

\* What the frames of an event rely on.
Awaited(m, tl, pr, st, y) ==
  /\ HasFrame(st, On("again", y)) => y \in Range(tl) /\ Coming(m[y])
  /\ HasFrame(st, On("disable", y)) => /\ y \in Range(tl) /\ Coming(m[y])
                                       /\ m[y].state = Waiting /\ m[y].prep > now
  /\ HasFrame(st, On("next", y)) => pr[y] > 0 /\ m[y].disabled /\ m[y].repeated
  /\ HasFrame(st, On("remove", y)) =>
       /\ m[y].end = now
       /\ \/ pr[y] > 0 \/ HeldIn(st, y)
          \/ y \in Range(tl) /\ Closing(m[y]) /\ HasFrame(st, Calculating)

Rests(m, tl, pr, st, y) == Stored(m, tl, pr, st, y) /\ Awaited(m, tl, pr, st, y)

\* The invariant behind ListsAreConsistent, in every nested call.
LInv ==
  /\ ~raised /\ last <= now
  /\ Ordered(Keys(tm), timer_list)
  /\ Calm(stack)
  /\ \A y \in Timers : Rests(tm, timer_list, processed, stack, y)

\* Nobody sets the clock, edits or disables what is being recorded, makes a timer a repeated one or
\* edits one without timeChanged (or only after another's), and the durations are as the code has them (20 s, 100 s, 100 s), with some days of keep_timers.
Undisturbed ==
  /\ {"clockset", "stopcoming", "holdprepared", "editrepeated", "editactive",
      "editinplace", "conflict", "movepast"} \cap Env = {}
  /\ KeepTime > 0 /\ PrepareTime <= WrongAhead /\ MaxBackoff <= WrongAhead

LEMMA LInvImplies ==
  ASSUME IInv, LInv
  PROVE  ListsAreConsistent
<1>1. ASSUME stack = <<>>, NEW x \in Timers, Live(x)
      PROVE  tm[x].state = Ended <=> IsProcessed(x)
  <2>1. ~Held(x)
    BY <1>1 DEF Held
  <2>2. InList(x) \/ IsProcessed(x)
    BY <1>1, <2>1 DEF Live
  <2>3. InList(x) => tm[x].state # Ended /\ ~IsProcessed(x)
    BY DEF LInv, Rests, Stored, Listed, InList, IInv, Homes, IsProcessed
  <2>4. IsProcessed(x) => tm[x].state = Ended
    BY DEF LInv, Rests, Stored, IsProcessed
  <2> QED BY <2>2, <2>3, <2>4
<1> QED BY <1>1 DEF LInv, ListsAreConsistent, EndedIsProcessed, NoException

\* The stack ut has the frames of st about y, and calculates if st does.
Follows(st, ut, y) ==
  /\ \A pc \in Bases : HasFrame(ut, On(pc, y)) => HasFrame(st, On(pc, y))
  /\ HasFrame(st, Calculating) => HasFrame(ut, Calculating)

Continues(st, ut, y) == Follows(st, ut, y) /\ (HeldIn(ut, y) <=> HeldIn(st, y))

LEMMA OthersRest ==
  ASSUME NEW m, NEW tl, NEW pr, NEW st, NEW n, NEW ul, NEW qr, NEW ut, NEW y,
         Rests(m, tl, pr, st, y), n[y] = m[y], y \in Range(ul) <=> y \in Range(tl),
         qr[y] = pr[y], Continues(st, ut, y)
  PROVE  Rests(n, ul, qr, ut, y)
<1>1. Stored(n, ul, qr, ut, y)
  BY DEF Rests, Stored, Continues
<1>2. {"again", "disable", "next", "remove"} \subseteq Bases
  BY DEF Bases
<1>3. Awaited(n, ul, qr, ut, y)
  BY <1>2 DEF Rests, Awaited, Continues, Follows
<1> QED BY <1>1, <1>3 DEF Rests

LEMMA SameContinues ==
  ASSUME NEW st, NEW y PROVE Continues(st, st, y)
BY DEF Continues, Follows

LEMMA CalcContinues ==
  ASSUME NEW pc \in {"calc", "process"}, NEW st, Calm(st), StackOK(st)
  PROVE  LET ut == <<Call(pc, None, Nobody)>> \o st IN
         /\ Calm(ut) /\ HasFrame(ut, Calculating)
         /\ \A y \in Timers : Continues(st, ut, y)
<1> DEFINE f == Call(pc, None, Nobody)
           ut == <<f>> \o st
<1>1. f \in Frame /\ f.pc = pc
  BY DEF Call, Frame, Pcs, Nobody
<1>2. CalmFrame(f) /\ f.pc \notin Bases /\ f \in Calculating
  BY <1>1 DEF CalmFrame, Bases, Calculating
<1>3. \A y \in Timers : HeldIn(ut, y) <=> HeldIn(st, y)
  BY QuietFrame
<1> HIDE DEF f
<1>4. Calm(ut)
  BY <1>1, <1>2, PushedCalm
<1>5. \A S : HasFrame(ut, S) <=> f \in S \/ HasFrame(st, S)
  BY <1>1, PushedHas DEF Calm
<1>6. \A y \in Timers, p \in Bases : f \notin On(p, y)
  BY <1>2 DEF On
<1> HIDE DEF ut
<1>7. \A y \in Timers : Continues(st, ut, y)
  BY <1>3, <1>5, <1>6 DEF Continues, Follows
<1>8. HasFrame(ut, Calculating)
  BY <1>2, <1>5
<1> QED BY <1>4, <1>7, <1>8 DEF ut, f

\* What addTimerEntry asks of an entry: it is going to wait, or it is active and goes on.
Ready(q) ==
  /\ q \in TimerEntry /\ q.state # Ended
  /\ q.prep = q.begin - PrepareTime
  /\ Active(q) => /\ ~q.disabled /\ (q.repeated => q.end > now)
                  /\ q.begin <= now + WrongAhead /\ (q.justplay \/ q.rs # None)
  /\ q.auto => ~q.repeated
  /\ Unrecorded(q)

RetiresAs(r) == ShouldSkip(r) \/ r.state = Ended \/ (r.state = Waiting /\ r.disabled)

LEMMA ReadyNext ==
  ASSUME now \in Nat, NEW q, Ready(q)
  PROVE  LET r == NextOccurrence(q) IN
         /\ r \in TimerEntry /\ r.state = q.state
         /\ r.auto => ~r.repeated
         /\ Unrecorded(r)
         /\ RetiresAs(r) => ~Active(r)
         /\ ~RetiresAs(r) => Listed(r)
<1> DEFINE r == NextOccurrence(q)
<1>1. /\ q \in TimerEntry /\ SameBut(r, q)
      /\ ~q.repeated => r = q
      /\ q.repeated => /\ r.begin >= q.begin /\ r.end > now
                       /\ r.prep = r.begin - PrepareTime
                       /\ q.end > now => r.begin = q.begin
  BY NextFields DEF Ready
<1> HIDE DEF r
<1>2. r \in TimerEntry /\ r.state = q.state /\ (r.auto => ~r.repeated)
  BY <1>1 DEF SameBut, Ready
<1>3. Unrecorded(r)
  BY <1>1 DEF SameBut, Ready, Unrecorded, Active
<1>4. r.prep = r.begin - PrepareTime
  BY <1>1 DEF Ready
<1>5. r.begin <= r.prep + PrepareTime
  <2>1. r.begin \in Int /\ PrepareTime \in Int
    BY <1>2, Times DEF TimerEntry
  <2> QED BY <2>1, <1>4
<1>6. Active(r) => ~r.disabled /\ r.begin <= now + WrongAhead /\ (r.justplay \/ r.rs # None)
  <2> SUFFICES ASSUME Active(r)
               PROVE  ~r.disabled /\ r.begin <= now + WrongAhead /\ (r.justplay \/ r.rs # None)
    OBVIOUS
  <2>1. Active(q)
    BY <1>2 DEF Active
  <2>2. r.begin = q.begin
    BY <1>1, <2>1 DEF Ready
  <2> QED BY <1>1, <2>1, <2>2 DEF Ready, SameBut
<1>7. RetiresAs(r) => ~Active(r)
  BY <1>6 DEF RetiresAs, ShouldSkip, Active, Waiting, Prepared, Running, Ended
<1>8. ~RetiresAs(r) => Listed(r)
  <2> SUFFICES ASSUME ~RetiresAs(r) PROVE Listed(r)
    OBVIOUS
  <2>1. r.state # Ended
    BY DEF RetiresAs
  <2>2. Waiting .. Ended = {Waiting, Prepared, Running, Ended}
    BY DEF Waiting, Prepared, Running, Ended
  <2>3. r.state = Waiting \/ Active(r)
    BY <1>2, <2>1, <2>2 DEF TimerEntry, Active
  <2>4. ~r.disabled
    BY <1>6, <2>3 DEF RetiresAs
  <2> QED BY <2>1, <2>4, <1>5, <1>6 DEF Listed
<1> QED BY <1>2, <1>3, <1>7, <1>8 DEF r

LEMMA KeysOfEntries ==
  ASSUME NEW m \in [Timers -> TimerEntry]
  PROVE  /\ Keys(m) \in [Timers -> Int]
         /\ \A x \in Timers : Keys(m)[x] = NextActivation(m[x])
BY NextActivationOfEntry DEF Keys

\* The entries of the list tl are the same in m and n.
Agree(m, n, tl) == \A y \in Range(tl) : n[y] = m[y]

\* A list in which nothing has changed but entries that are not in it.
LEMMA OrderWithout ==
  ASSUME NEW m \in [Timers -> TimerEntry], NEW n \in [Timers -> TimerEntry],
         NEW tl \in Seq(Timers), Ordered(Keys(m), tl), Agree(m, n, tl)
  PROVE  Ordered(Keys(n), tl)
<1>1. \A y \in Range(tl) : y \in Timers
  BY DEF Range
<1>2. \A y \in Range(tl) : Keys(n)[y] = Keys(m)[y]
  BY <1>1, KeysOfEntries DEF Agree
<1> QED BY <1>2, SameOrder

\* What addTimerEntry leaves of x, the entry q: it is filed as ended, or waits its turn.
Placed(x, q, st) ==
  LET r == NextOccurrence(q) IN
  /\ UNCHANGED raised
  /\ Ordered(Keys(tm'), timer_list') /\ Calm(stack')
  /\ \A y \in Timers : Continues(st, stack', y)
  /\ Stored(tm', timer_list', processed', stack', x)
  /\ \/ /\ RetiresAs(r) /\ processed'[x] > 0
        /\ tm'[x] = [Skipped(r) EXCEPT !.state = Ended]
     \/ /\ ~RetiresAs(r) /\ x \in Range(timer_list') /\ tm'[x] = r
        /\ HasFrame(stack', Calculating)

LEMMA AddedRests ==
  ASSUME now \in Nat, NEW m \in [Timers -> TimerEntry], NEW x \in Timers, Ready(m[x]),
         NEW tl, NEW pr, NEW st, Homes(tl, pr, st), Nowhere(tl, pr, st, x), Calm(st),
         Ordered(Keys(m), tl), AddTimerEntry(m, x, tl, pr, st, FALSE)
  PROVE  /\ Placed(x, m[x], st)
         /\ \A y \in Timers : y # x /\ Rests(m, tl, pr, st, y) =>
                                Rests(tm', timer_list', processed', stack', y)
<1> DEFINE r == NextOccurrence(m[x])
           d == [Skipped(r) EXCEPT !.state = Ended]
           f == [m EXCEPT ![x] = d]
           n == [m EXCEPT ![x] = r]
<1>1. /\ r \in TimerEntry /\ (r.auto => ~r.repeated) /\ Unrecorded(r)
      /\ RetiresAs(r) => ~Active(r)
      /\ ~RetiresAs(r) => Listed(r)
  BY ReadyNext
<1>2. raised' = raised
  BY DEF AddTimerEntry
<1>3. \/ /\ RetiresAs(r)
         /\ tm' = f
         /\ processed' = [pr EXCEPT ![x] = @ + 1]
         /\ timer_list' = tl
         /\ stack' = st
      \/ /\ ~RetiresAs(r)
         /\ tm' = n
         /\ timer_list' \in Insorted(Keys(n), tl, x)
         /\ processed' = pr
         /\ stack' = <<Call("calc", None, Nobody)>> \o st
  BY DEF AddTimerEntry, RetiresAs
<1> HIDE DEF r
<1>4. /\ tl \in Seq(Timers) /\ Distinct(tl) /\ x \notin Range(tl) /\ pr[x] = 0 /\ ~HeldIn(st, x)
      /\ pr \in [Timers -> Nat] /\ StackOK(st)
      /\ \A y \in Range(tl) : y \in Timers /\ y # x
  <2>1. tl \in Seq(Timers) /\ x \notin Range(tl)
    BY DEF Homes, Nowhere
  <2>2. \A y \in Range(tl) : y \in Timers /\ y # x
    BY <2>1 DEF Range
  <2> QED BY <2>1, <2>2 DEF Homes, Nowhere
<1>5. CASE /\ RetiresAs(r)
           /\ tm' = f
           /\ processed' = [pr EXCEPT ![x] = @ + 1]
           /\ timer_list' = tl
           /\ stack' = st
  <2>1. /\ d \in TimerEntry /\ d.state = Ended /\ d.end = r.end /\ d.rs = r.rs
        /\ d.auto = r.auto /\ d.repeated = r.repeated
    BY <1>1, SkippedFields
  <2> HIDE DEF d
  <2>2. f \in [Timers -> TimerEntry] /\ f[x] = d /\ \A y \in Timers : y # x => f[y] = m[y]
    BY <2>1
  <2> HIDE DEF f
  <2>3. Ordered(Keys(f), tl)
    <3>1. Agree(m, f, tl)
      BY <1>4, <2>2 DEF Agree
    <3> QED BY <1>4, <2>2, <3>1, OrderWithout
  <2>4. processed'[x] > 0 /\ \A y \in Timers : y # x => processed'[y] = pr[y]
    BY <1>4, <1>5
  <2>5. \A y \in Timers : Continues(st, st, y)
    BY SameContinues
  <2>6. \A y \in Timers : y # x /\ Rests(m, tl, pr, st, y) => Rests(f, tl, processed', st, y)
    BY <2>2, <2>4, <2>5, OthersRest
  <2>7. ~Active(d)
    BY <2>1 DEF Active, Prepared, Running, Ended
  <2>8. Unrecorded(d)
    BY <1>1, <1>5, <2>1 DEF Unrecorded
  <2>9. Stored(f, tl, processed', st, x)
    BY <1>1, <1>4, <2>1, <2>2, <2>7, <2>8 DEF Stored
  <2>10. /\ tm' = f /\ timer_list' = tl /\ stack' = st /\ RetiresAs(r) /\ tm'[x] = d
    BY <1>5, <2>1, <2>2
  <2> QED BY <1>2, <2>3, <2>4, <2>5, <2>6, <2>9, <2>10 DEF d, r, Placed
<1>6. CASE /\ ~RetiresAs(r)
           /\ tm' = n
           /\ timer_list' \in Insorted(Keys(n), tl, x)
           /\ processed' = pr
           /\ stack' = <<Call("calc", None, Nobody)>> \o st
  <2>1. n \in [Timers -> TimerEntry] /\ n[x] = r /\ \A y \in Timers : y # x => n[y] = m[y]
    BY <1>1
  <2> HIDE DEF n
  <2>2. Ordered(Keys(n), tl)
    <3>1. Agree(m, n, tl)
      BY <1>4, <2>1 DEF Agree
    <3> QED BY <1>4, <2>1, <3>1, OrderWithout
  <2>3. Ordered(Keys(n), timer_list')
    BY <1>4, <1>6, <2>1, <2>2, KeysOfEntries, InsortedOrder
  <2>4. Range(timer_list') = Range(tl) \cup {x}
    BY <1>4, <1>6, InsortedEntry
  <2>5. /\ Calm(stack') /\ HasFrame(stack', Calculating)
        /\ \A y \in Timers : Continues(st, stack', y)
    BY <1>4, <1>6, CalcContinues
  <2>6. \A y \in Timers : y # x /\ Rests(m, tl, pr, st, y) =>
                            Rests(n, timer_list', pr, stack', y)
    <3> SUFFICES ASSUME NEW y \in Timers, y # x, Rests(m, tl, pr, st, y)
                 PROVE  Rests(n, timer_list', pr, stack', y)
      OBVIOUS
    <3>1. n[y] = m[y] /\ (y \in Range(timer_list') <=> y \in Range(tl)) /\ Continues(st, stack', y)
      BY <2>1, <2>4, <2>5
    <3> QED BY <3>1, OthersRest
  <2>7. ~HeldIn(stack', x)
    BY <1>4, <2>5 DEF Continues
  <2>8. Stored(n, timer_list', pr, stack', x)
    BY <1>1, <1>4, <1>6, <2>1, <2>4, <2>7 DEF Stored
  <2>9. x \in Range(timer_list') /\ tm'[x] = r
    BY <1>6, <2>1, <2>4
  <2>10. tm' = n /\ processed' = pr
    BY <1>6
  <2> QED BY <1>2, <1>6, <2>3, <2>5, <2>6, <2>8, <2>9, <2>10 DEF r, Placed
<1> QED BY <1>3, <1>5, <1>6

\* The entries but x rest where they are: what an action leaves of them.
OthersRested(x) == \A y \in Timers : y # x => Rests(tm', timer_list', processed', stack', y)

\* The stack st goes on where stack is, as far as the entries but x are concerned.
GoesOnWithout(st, x) ==
  /\ Homes(timer_list, processed, st) /\ Calm(st)
  /\ \A y \in Timers : y # x => Continues(stack, st, y)

\* addTimerEntry of an entry that was taken out of the lists tl and pr.
LEMMA AddedRested ==
  ASSUME IInv, LInv, NEW n \in [Timers -> TimerEntry], NEW x \in Timers,
         Ready(n[x]), \A y \in Timers : y # x => n[y] = tm[y],
         NEW st, GoesOnWithout(st, x), NEW tl, NEW pr, Homes(tl, pr, st),
         Nowhere(tl, pr, st, x), Range(tl) = Range(timer_list) \ {x}, Ordered(Keys(tm), tl),
         \A y \in Timers : y # x => pr[y] = processed[y],
         AddTimerEntry(n, x, tl, pr, st, FALSE)
  PROVE  Placed(x, n[x], st) /\ OthersRested(x)
<1>1. now \in Nat /\ tm \in [Timers -> TimerEntry] /\ Calm(st) /\ tl \in Seq(Timers)
  BY DEF IInv, Clocks, Homes, GoesOnWithout
<1>2. Agree(tm, n, tl)
  <2>1. \A y \in Range(tl) : y \in Timers /\ y # x
    BY <1>1 DEF Range
  <2> QED BY <2>1 DEF Agree
<1>3. Ordered(Keys(n), tl)
  BY <1>1, <1>2, OrderWithout
<1>4. \A y \in Timers : y # x => Rests(n, tl, pr, st, y)
  <2> SUFFICES ASSUME NEW y \in Timers, y # x PROVE Rests(n, tl, pr, st, y)
    OBVIOUS
  <2>1. /\ n[y] = tm[y] /\ pr[y] = processed[y] /\ Continues(stack, st, y)
        /\ (y \in Range(tl) <=> y \in Range(timer_list))
    BY DEF GoesOnWithout
  <2> QED BY <2>1, OthersRest DEF LInv
<1>5. /\ Placed(x, n[x], st)
      /\ \A y \in Timers : y # x /\ Rests(n, tl, pr, st, y) =>
                             Rests(tm', timer_list', processed', stack', y)
  BY <1>1, <1>3, AddedRests
<1> QED BY <1>4, <1>5 DEF OthersRested

\* The entry that timeChanged puts back.
PutBack(r) == IF r.state = Ended THEN [TimeMoved(r) EXCEPT !.state = Waiting] ELSE TimeMoved(r)

LEMMA ChangedRests ==
  ASSUME IInv, LInv, NEW m \in [Timers -> TimerEntry], NEW x \in Timers,
         \A y \in Timers : y # x => m[y] = tm[y],
         NEW st, GoesOnWithout(st, x),
         \/ InList(x) /\ m[x].state # Ended
         \/ IsProcessed(x) /\ m[x].state = Ended,
         Ready(PutBack(m[x])), TimeChanged(m, x, st)
  PROVE  Placed(x, PutBack(m[x]), st) /\ OthersRested(x)
<1> DEFINE q == PutBack(m[x])
           n == [m EXCEPT ![x] = q]
<1>1. /\ now \in Nat /\ tm \in [Timers -> TimerEntry] /\ timer_list \in Seq(Timers)
      /\ Homes(timer_list, processed, st) /\ Calm(st)
  BY DEF IInv, Clocks, Homes, GoesOnWithout
<1>3. q \in TimerEntry /\ Ready(q)
  BY DEF Ready
<1>4. \/ /\ InList(x)
         /\ AddTimerEntry(n, x, Without(timer_list, x), processed, st, FALSE)
      \/ /\ IsProcessed(x)
         /\ AddTimerEntry(n, x, timer_list, [processed EXCEPT ![x] = @ - 1], st, FALSE)
  <2>1. CASE m[x].state = Ended
    <3>1. IsProcessed(x)
      BY <2>1
    <3>2. TimeMoved(m[x]).state = Ended
      BY <2>1, MovedFields DEF SameBut
    <3>3. q = [TimeMoved(m[x]) EXCEPT !.state = Waiting]
      BY <2>1 DEF PutBack
    <3> HIDE DEF q
    <3> QED BY <3>1, <3>2, <3>3 DEF TimeChanged
  <2>2. CASE m[x].state # Ended
    <3>1. InList(x)
      BY <2>2
    <3>2. TimeMoved(m[x]).state # Ended
      BY <2>2, MovedFields DEF SameBut
    <3>3. q = TimeMoved(m[x])
      BY <2>2 DEF PutBack
    <3> HIDE DEF q
    <3> QED BY <3>1, <3>2, <3>3 DEF TimeChanged
  <2> QED BY <2>1, <2>2
<1> HIDE DEF q
<1>5. n \in [Timers -> TimerEntry] /\ n[x] = q /\ \A y \in Timers : y # x => n[y] = tm[y]
  BY <1>3
<1> HIDE DEF n
<1>6. ASSUME NEW tl, NEW pr, Homes(tl, pr, st), Nowhere(tl, pr, st, x),
             Range(tl) = Range(timer_list) \ {x}, Ordered(Keys(tm), tl),
             \A y \in Timers : y # x => pr[y] = processed[y],
             AddTimerEntry(n, x, tl, pr, st, FALSE)
      PROVE  Placed(x, q, st) /\ OthersRested(x)
  BY <1>3, <1>5, <1>6, AddedRested
<1>7. CASE /\ InList(x)
           /\ AddTimerEntry(n, x, Without(timer_list, x), processed, st, FALSE)
  <2>1. /\ Homes(Without(timer_list, x), processed, st)
        /\ Nowhere(Without(timer_list, x), processed, st, x)
    BY <1>1, <1>7, TakenOut DEF InList
  <2>2. /\ Range(Without(timer_list, x)) = Range(timer_list) \ {x}
        /\ Ordered(Keys(tm), Without(timer_list, x))
    BY <1>1, <1>7, WithoutEntry, WithoutOrder DEF InList, LInv, Homes
  <2> QED BY <1>6, <1>7, <2>1, <2>2 DEF q
<1>8. CASE /\ IsProcessed(x)
           /\ AddTimerEntry(n, x, timer_list, [processed EXCEPT ![x] = @ - 1], st, FALSE)
  <2> DEFINE pr == [processed EXCEPT ![x] = @ - 1]
  <2>1. Homes(timer_list, pr, st) /\ Nowhere(timer_list, pr, st, x)
    BY <1>1, <1>8, TakenOut DEF IsProcessed
  <2>2. \A y \in Timers : y # x => pr[y] = processed[y]
    BY <1>1 DEF Homes
  <2> HIDE DEF pr
  <2>3. Range(timer_list) = Range(timer_list) \ {x}
    BY <2>1 DEF Nowhere
  <2>4. AddTimerEntry(n, x, timer_list, pr, st, FALSE)
    BY <1>8 DEF pr
  <2> QED BY <1>6, <2>1, <2>2, <2>3, <2>4 DEF LInv, q
<1> QED BY <1>4, <1>7, <1>8

-----------------------------------------------------------------------------
(* An activation                                                            *)

\* What activate() may be called for: a due entry, or a running one.
Startable(r) ==
  /\ r \in TimerEntry /\ r.state # Ended /\ ~r.disabled
  /\ r.state = Waiting => r.prep <= now /\ r.begin <= r.prep + PrepareTime
  /\ r.state = Prepared => r.begin <= now
  /\ Active(r) => r.justplay \/ r.rs # None
  /\ r.auto => ~r.repeated /\ (r.state = Running => r.begin <= now + WrongAhead)
  /\ Unrecorded(r)

\* What becomes of r.
Activated(r, q) ==
  /\ q.repeated = r.repeated /\ q.auto = r.auto /\ q.cancelled = r.cancelled
  /\ q.disabled = r.disabled /\ Unrecorded(q)
  /\ ~Reached(q) => Listed(q)
  /\ Reached(q) => q.begin = r.begin /\ q.end = r.end
  /\ r.state = Waiting => /\ q.begin = r.begin /\ q.end = r.end
                          /\ r.end > now => q.state \in {Waiting, Prepared}
  /\ Closing(r) => q.end = r.end /\ (Reached(q) \/ Closing(q))
  /\ r.state = Running /\ ~r.auto => Reached(q)

\* What becomes of its recording, where an entry that waits has none.
Recording(r, q) == "rename" \notin Env =>
  \/ svc' = svc /\ q.rs = r.rs
  \/ \E s \in Services : svc' = [svc EXCEPT ![s] = "prepared"] /\ r.rs = None /\ q.rs = s
  \/ svc' = [svc EXCEPT ![r.rs] = "running"] /\ r.rs # None /\ q.rs = r.rs
  \/ svc' = [svc EXCEPT ![r.rs] = "none"] /\ r.rs # None /\ q.rs = None

Activating(r, q) == q \in TimerEntry /\ Activated(r, q) /\ Recording(r, q)

LEMMA StateNames ==
  /\ Waiting .. Ended = {Waiting, Prepared, Running, Ended}
  /\ Waiting # Prepared /\ Waiting # Running /\ Waiting # Ended
  /\ Prepared # Running /\ Prepared # Ended /\ Running # Ended
BY DEF Waiting, Prepared, Running, Ended

\* An entry whose time is over before it was prepared.
LEMMA ActivatingSkipped ==
  ASSUME now \in Nat, NEW r, Startable(r), ShouldSkip(r), svc' = svc
  PROVE  Activating(r, [Skipped(r) EXCEPT !.state = Ended])
<1> DEFINE q == [Skipped(r) EXCEPT !.state = Ended]
<1>1. r \in TimerEntry /\ ~r.disabled
  BY DEF Startable
<1>2. r.state = Waiting /\ r.end <= now
  BY <1>1 DEF ShouldSkip
<1>3. Skipped(r) = r
  BY <1>1 DEF Skipped
<1>4. /\ q \in TimerEntry /\ q.state = Ended /\ q.rs = r.rs /\ q.begin = r.begin /\ q.end = r.end
      /\ q.repeated = r.repeated /\ q.auto = r.auto /\ q.cancelled = r.cancelled
      /\ q.justplay = r.justplay /\ q.disabled = r.disabled
  BY <1>1, <1>3, StateNames DEF TimerEntry
<1> HIDE DEF q
<1>5. Reached(q) /\ ~Active(q) /\ ~Active(r) /\ ~Closing(r) /\ r.state # Running
  BY <1>2, <1>4, StateNames DEF Reached, Active, Closing
<1>6. Unrecorded(q)
  BY <1>4, <1>5 DEF Startable, Unrecorded
<1>7. ~(r.end > now)
  BY <1>1, <1>2 DEF TimerEntry
<1>8. Activated(r, q)
  BY <1>4, <1>5, <1>6, <1>7 DEF Activated
<1>9. Recording(r, q)
  BY <1>4 DEF Recording
<1> QED BY <1>4, <1>8, <1>9 DEF Activating, q

\* tryPrepare: q waits for another try, or is prepared.
LEMMA ActivatingWaiting ==
  ASSUME now \in Nat, Undisturbed, NEW r, Startable(r), r.state = Waiting, NEW q \in TimerEntry,
         q.repeated = r.repeated, q.auto = r.auto, q.cancelled = r.cancelled,
         q.disabled = r.disabled, q.justplay = r.justplay,
         q.begin = r.begin, q.end = r.end,
         \/ /\ q.state = Waiting /\ q.prep >= r.prep
            /\ "rename" \notin Env => q.rs = None
         \/ /\ q.state = Prepared
            /\ IF r.justplay THEN q.rs = r.rs ELSE q.rs # None
  PROVE  Activated(r, q)
<1>1. /\ r \in TimerEntry /\ ~r.disabled /\ r.prep <= now /\ r.begin <= r.prep + PrepareTime
      /\ Unrecorded(r)
  BY DEF Startable
<1>2. ~Active(r) /\ ~Closing(r) /\ r.state # Running /\ ~Reached(q)
      /\ q.state \in {Waiting, Prepared}
  BY StateNames DEF Active, Closing, Reached
<1>3. /\ q.state = Waiting => q.begin <= q.prep + PrepareTime
      /\ q.begin <= now + WrongAhead
  <2>1. /\ r.begin \in Int /\ r.prep \in Int /\ q.prep \in Int /\ PrepareTime \in Int
        /\ WrongAhead \in Int /\ PrepareTime <= WrongAhead /\ now \in Int
    BY <1>1, Times DEF TimerEntry, Undisturbed
  <2>2. q.state = Waiting => q.prep >= r.prep
    BY StateNames
  <2> QED BY <1>1, <2>1, <2>2
<1>4. Unrecorded(q)
  <2>1. CASE q.state = Waiting
    BY <2>1, StateNames DEF Unrecorded
  <2>2. CASE q.state = Prepared
    <3>1. q.justplay => q.rs = r.rs
      BY <2>2, StateNames
    <3>2. Active(q)
      BY <2>2 DEF Active
    <3> QED BY <1>1, <1>2, <3>1, <3>2 DEF Unrecorded
  <2> QED BY <1>2, <2>1, <2>2
<1>5. Active(q) => q.justplay \/ q.rs # None
  BY <1>2, StateNames DEF Active
<1>6. Listed(q)
  BY <1>1, <1>2, <1>3, <1>5, StateNames DEF Listed
<1> QED BY <1>2, <1>4, <1>6 DEF Activated

\* Another try: later, but by no more than the longest backoff.
LEMMA BackoffFields ==
  ASSUME NEW r \in TimerEntry, now \in Nat
  PROVE  /\ SameBut(RetryPrepare(r), r)
         /\ RetryPrepare(r).begin = r.begin /\ RetryPrepare(r).end = r.end
         /\ RetryPrepare(r).prep >= now
         /\ SameBut(RetryStart(r), r)
         /\ RetryStart(r).end = r.end
         /\ RetryStart(r).begin <= now + MaxBackoff
<1> DEFINE k == IF r.backoff = 0 THEN FirstBackoff
                ELSE IF 2 * r.backoff > MaxBackoff THEN MaxBackoff ELSE 2 * r.backoff
           b == [r EXCEPT !.backoff = k]
<1>1. r.backoff \in Nat /\ FirstBackoff \in Nat /\ MaxBackoff \in Nat /\ FirstBackoff <= MaxBackoff
  BY Times, TimeAssumption DEF TimerEntry
<1>2. k \in Nat /\ k <= MaxBackoff
  BY <1>1
<1> HIDE DEF k
<1>3. SameBut(b, r) /\ b.begin = r.begin /\ b.end = r.end /\ b.backoff = k
  BY <1>2 DEF TimerEntry, SameBut
<1>4. DoBackoff(r) = b
  BY DEF DoBackoff, k
<1> HIDE DEF b
<1>5. \A e \in Int : /\ LET q == [b EXCEPT !.prep = e] IN
                        SameBut(q, b) /\ q.begin = b.begin /\ q.end = b.end /\ q.prep = e
                     /\ LET q == [b EXCEPT !.begin = e] IN
                        SameBut(q, b) /\ q.end = b.end /\ q.begin = e
  BY <1>3 DEF TimerEntry, SameBut
<1>6. now + k \in Int /\ now + k >= now /\ now + k <= now + MaxBackoff
  BY <1>1, <1>2
<1>7. /\ RetryPrepare(r) = [b EXCEPT !.prep = now + k]
      /\ RetryStart(r) = [b EXCEPT !.begin = now + k]
  BY <1>3, <1>4 DEF RetryPrepare, RetryStart
<1> QED BY <1>3, <1>5, <1>6, <1>7 DEF SameBut

LEMMA ActivatingPrepare ==
  ASSUME now \in Nat, Undisturbed, NEW r, Startable(r), r.state = Waiting,
         NEW x, NEW st, Prepare(r, x, st)
  PROVE  \E q \in TimerEntry : Activating(r, q) /\ Settle(q, x, st)
<1>1. r \in TimerEntry /\ r.prep <= now /\ r.prep \in Int
  BY DEF Startable, TimerEntry
<1>2. "rename" \notin Env => r.rs = None
  BY StateNames DEF Startable, Unrecorded, Active
<1> DEFINE ready == [r EXCEPT !.state = Prepared, !.backoff = 0]
           lost == [r EXCEPT !.rs = None]
<1>3. /\ ready \in TimerEntry /\ ready.state = Prepared /\ ready.rs = r.rs
      /\ ready.repeated = r.repeated /\ ready.auto = r.auto /\ ready.cancelled = r.cancelled
      /\ ready.disabled = r.disabled /\ ready.justplay = r.justplay
      /\ ready.begin = r.begin /\ ready.end = r.end
  BY <1>1, StateNames DEF TimerEntry
<1> DEFINE Kind(q) == /\ q \in TimerEntry /\ q.state = Waiting
                      /\ q.repeated = r.repeated /\ q.auto = r.auto /\ q.cancelled = r.cancelled
                      /\ q.disabled = r.disabled /\ q.justplay = r.justplay
                      /\ q.begin = r.begin /\ q.end = r.end /\ q.prep >= r.prep
<1>4. ASSUME NEW v \in Services \cup {None}, NEW p \in TimerEntry
      PROVE  LET q == [p EXCEPT !.rs = v] IN
             /\ q \in TimerEntry /\ q.state = p.state /\ q.rs = v
             /\ q.repeated = p.repeated /\ q.auto = p.auto /\ q.cancelled = p.cancelled
             /\ q.disabled = p.disabled /\ q.justplay = p.justplay
             /\ q.begin = p.begin /\ q.end = p.end /\ q.prep = p.prep
  BY DEF TimerEntry
<1>5. /\ Kind(r) /\ Kind(lost) /\ lost.rs = None
      /\ \A v \in Services \cup {None} : Kind([r EXCEPT !.rs = v]) /\ [r EXCEPT !.rs = v].rs = v
  <2>1. r.prep >= r.prep
    BY <1>1
  <2>2. \A v \in Services \cup {None} : Kind([r EXCEPT !.rs = v]) /\ [r EXCEPT !.rs = v].rs = v
    BY <1>1, <1>4, <2>1
  <2> QED BY <1>1, <2>1, <2>2
<1> HIDE DEF ready, lost
<1>6. \A q : Kind(q) => Kind(RetryPrepare(q)) /\ RetryPrepare(q).rs = q.rs
  <2> SUFFICES ASSUME NEW q, Kind(q) PROVE Kind(RetryPrepare(q)) /\ RetryPrepare(q).rs = q.rs
    OBVIOUS
  <2> DEFINE p == RetryPrepare(q)
  <2>1. SameBut(p, q) /\ p.begin = q.begin /\ p.end = q.end /\ p.prep >= now
    BY BackoffFields
  <2> HIDE DEF p
  <2>2. p.prep \in Int /\ now \in Int
    BY <2>1 DEF SameBut, TimerEntry
  <2>3. p.prep >= r.prep
    BY ONLY <1>1, <2>1, <2>2
  <2> QED BY <2>1, <2>3 DEF SameBut, p
<1>7. ASSUME NEW q, Kind(q), "rename" \notin Env => q.rs = None PROVE Activated(r, q)
  BY <1>7, ActivatingWaiting
<1> HIDE DEF Kind
<1>8. CASE r.justplay /\ Settle(ready, x, st) /\ UNCHANGED svc
  <2>1. Activated(r, ready)
    BY <1>3, <1>8, ActivatingWaiting
  <2> QED BY <1>3, <1>8, <2>1 DEF Activating, Recording
<1>9. CASE UNCHANGED svc /\ \E q \in {RetryPrepare(r), r, lost, RetryPrepare(lost)} :
             Settle(q, x, st)
  <2>1. PICK q \in {RetryPrepare(r), r, lost, RetryPrepare(lost)} : Settle(q, x, st)
    BY <1>9
  <2>2. Kind(q) /\ ("rename" \notin Env => q.rs = None)
    BY <1>2, <1>5, <1>6
  <2>3. Activated(r, q)
    BY <1>7, <2>2
  <2>4. q \in TimerEntry
    BY <2>2 DEF Kind
  <2>5. Recording(r, q)
    BY <1>2, <1>9, <2>2 DEF Recording
  <2> QED BY <2>1, <2>3, <2>4, <2>5 DEF Activating
<1>10. ASSUME NEW s \in Services, "rename" \in Env, Settle(RetryPrepare([r EXCEPT !.rs = s]), x, st)
       PROVE  \E q \in TimerEntry : Activating(r, q) /\ Settle(q, x, st)
  <2> DEFINE q == RetryPrepare([r EXCEPT !.rs = s])
  <2>1. Kind(q)
    BY <1>5, <1>6
  <2> HIDE DEF q
  <2>2. Activated(r, q) /\ Recording(r, q)
    BY <1>7, <1>10, <2>1 DEF Recording
  <2>3. q \in TimerEntry
    BY <2>1 DEF Kind
  <2> QED BY <1>10, <2>2, <2>3 DEF Activating, q
<1>11. ASSUME NEW s \in Services, ~r.justplay, svc' = [svc EXCEPT ![s] = "prepared"],
              Settle([ready EXCEPT !.rs = s], x, st)
       PROVE  \E q \in TimerEntry : Activating(r, q) /\ Settle(q, x, st)
  <2> DEFINE q == [ready EXCEPT !.rs = s]
  <2>1. /\ q \in TimerEntry /\ q.state = Prepared /\ q.rs = s
        /\ q.repeated = r.repeated /\ q.auto = r.auto /\ q.cancelled = r.cancelled
        /\ q.disabled = r.disabled /\ q.justplay = r.justplay
        /\ q.begin = r.begin /\ q.end = r.end
    BY <1>3, <1>4
  <2> HIDE DEF q
  <2>2. q.rs # None
    BY <2>1, NoneAssumption
  <2>3. Activated(r, q)
    BY <1>11, <2>1, <2>2, ActivatingWaiting
  <2>4. Recording(r, q)
    BY <1>2, <1>11, <2>1 DEF Recording
  <2> QED BY <1>11, <2>1, <2>3, <2>4 DEF Activating, q
<1> QED BY <1>8, <1>9, <1>10, <1>11 DEF Prepare, ready, lost

LEMMA ActivatingStart ==
  ASSUME now \in Nat, Undisturbed, NEW r, Startable(r), r.state = Prepared,
         NEW x, NEW st, Start(r, x, st)
  PROVE  \E q \in TimerEntry : Activating(r, q) /\ Settle(q, x, st)
<1>1. /\ r \in TimerEntry /\ ~r.disabled /\ r.begin <= now /\ r.begin \in Int
      /\ (r.justplay \/ r.rs # None) /\ Unrecorded(r) /\ Active(r)
  BY DEF Startable, TimerEntry, Active
<1>2. /\ WrongAhead \in Nat /\ MaxBackoff \in Nat /\ MaxBackoff <= WrongAhead
  BY Times DEF Undisturbed
<1>3. ASSUME NEW q \in TimerEntry, q.state \in {Prepared, Running}, q.rs = r.rs,
             q.disabled = r.disabled, q.repeated = r.repeated, q.justplay = r.justplay,
             q.auto = r.auto, q.cancelled = r.cancelled, q.begin <= now + WrongAhead,
             Closing(r) => q.end = r.end /\ q.state = Running
      PROVE  Activated(r, q)
  <2>1. Active(q) /\ ~Reached(q) /\ q.state # Waiting /\ q.state # Ended
    BY <1>3, StateNames DEF Active, Reached
  <2>2. Listed(q)
    BY <1>1, <1>3, <2>1 DEF Listed
  <2>3. Unrecorded(q)
    BY <1>1, <1>3, <2>1 DEF Unrecorded
  <2>4. Closing(r) => Closing(q)
    BY <1>3 DEF Closing
  <2> QED BY <1>3, <2>1, <2>2, <2>3, <2>4, StateNames DEF Activated
<1> DEFINE going == [r EXCEPT !.state = Running]
<1>4. /\ going \in TimerEntry /\ going.state = Running /\ going.rs = r.rs
      /\ going.disabled = r.disabled /\ going.repeated = r.repeated
      /\ going.justplay = r.justplay /\ going.auto = r.auto
      /\ going.cancelled = r.cancelled /\ going.begin = r.begin /\ going.end = r.end
  BY <1>1, StateNames DEF TimerEntry
<1> HIDE DEF going
<1>5. Activated(r, going)
  <2>1. going.begin <= now + WrongAhead
    BY <1>1, <1>2, <1>4
  <2> QED BY <1>3, <1>4, <2>1
<1>6. CASE Settle(going, x, st) /\ UNCHANGED svc
  BY <1>4, <1>5, <1>6 DEF Activating, Recording
<1>7. CASE r.rs # None /\ svc' = [svc EXCEPT ![r.rs] = "running"] /\ Settle(going, x, st)
  BY <1>4, <1>5, <1>7 DEF Activating, Recording
<1>8. CASE ~r.cancelled /\ Settle(RetryStart(r), x, st) /\ UNCHANGED svc
  <2> DEFINE q == RetryStart(r)
  <2>1. SameBut(q, r) /\ q.end = r.end /\ q.begin <= now + MaxBackoff
    BY <1>1, BackoffFields
  <2> HIDE DEF q
  <2>2. q.begin \in Int
    BY <2>1 DEF SameBut, TimerEntry
  <2>3. q.begin <= now + WrongAhead
    BY ONLY <1>2, <2>1, <2>2, now \in Nat
  <2>4. q \in TimerEntry /\ q.state = Prepared /\ q.rs = r.rs
    BY <2>1 DEF SameBut
  <2>5. Activated(r, q)
    BY <1>3, <1>8, <2>1, <2>3, <2>4 DEF SameBut, Closing
  <2> QED BY <1>8, <2>4, <2>5 DEF Activating, Recording, q
<1>9. CASE r.rs = None /\ ~r.justplay
  BY <1>1, <1>9
<1> QED BY <1>6, <1>7, <1>8, <1>9 DEF Start, going

LEMMA ActivatingStop ==
  ASSUME now \in Nat, Undisturbed, NEW r, Startable(r), r.state = Running,
         NEW x, NEW st, Stop(r, x, st)
  PROVE  \E q \in TimerEntry : Activating(r, q) /\ Settle(q, x, st)
<1>1. /\ r \in TimerEntry /\ ~r.disabled
      /\ (r.justplay \/ r.rs # None) /\ Unrecorded(r) /\ Active(r)
      /\ r.auto => r.begin <= now + WrongAhead
  BY DEF Startable, Active
<1>2. CASE r.auto /\ UNCHANGED svc
           /\ \E end \in {now + 1, now + AutoTime} : Settle([r EXCEPT !.end = end], x, st)
  <2>1. PICK end \in {now + 1, now + AutoTime} : Settle([r EXCEPT !.end = end], x, st)
    BY <1>2
  <2> DEFINE q == [r EXCEPT !.end = end]
  <2>2. end \in Int
    BY <2>1, Times
  <2>3. /\ q \in TimerEntry /\ q.state = Running /\ q.rs = r.rs
        /\ q.disabled = r.disabled /\ q.repeated = r.repeated
        /\ q.justplay = r.justplay /\ q.auto = r.auto
        /\ q.cancelled = r.cancelled /\ q.begin = r.begin
    BY <1>1, <2>2 DEF TimerEntry
  <2> HIDE DEF q
  <2>4. Active(q) /\ ~Reached(q)
    BY <2>3, StateNames DEF Active, Reached
  <2>5. Listed(q)
    BY <1>1, <1>2, <2>3, StateNames DEF Listed
  <2>6. Unrecorded(q)
    BY <1>1, <2>3, <2>4 DEF Unrecorded
  <2>7. Activated(r, q)
    BY <1>2, <2>3, <2>4, <2>5, <2>6, StateNames DEF Activated, Closing
  <2> QED BY <1>2, <2>1, <2>3, <2>7 DEF Activating, Recording, q
<1>3. ASSUME NEW q \in TimerEntry, q.state = Ended, q.repeated = r.repeated, q.auto = r.auto,
             q.disabled = r.disabled, q.cancelled = r.cancelled, q.begin = r.begin, q.end = r.end,
             "rename" \notin Env => q.rs = None
      PROVE  Activated(r, q)
  <2>1. Reached(q) /\ ~Active(q)
    BY <1>3, StateNames DEF Reached, Active
  <2> QED BY <1>3, <2>1, StateNames DEF Activated, Unrecorded
<1>4. CASE r.justplay /\ Settle([r EXCEPT !.state = Ended], x, st) /\ UNCHANGED svc
  <2> DEFINE q == [r EXCEPT !.state = Ended]
  <2>1. /\ q \in TimerEntry /\ q.state = Ended /\ q.repeated = r.repeated /\ q.auto = r.auto
        /\ q.cancelled = r.cancelled /\ q.begin = r.begin /\ q.end = r.end /\ q.rs = r.rs
        /\ q.disabled = r.disabled
    BY <1>1, StateNames DEF TimerEntry
  <2> HIDE DEF q
  <2>2. "rename" \notin Env => q.rs = None
    BY <1>1, <1>4, <2>1 DEF Unrecorded
  <2>3. Activated(r, q)
    BY <1>3, <2>1, <2>2
  <2> QED BY <1>4, <2>1, <2>3 DEF Activating, Recording, q
<1>5. CASE /\ r.rs # None /\ svc' = [svc EXCEPT ![r.rs] = "none"]
           /\ Settle([r EXCEPT !.state = Ended, !.rs = None], x, st)
  <2> DEFINE q == [r EXCEPT !.state = Ended, !.rs = None]
  <2>1. /\ q \in TimerEntry /\ q.state = Ended /\ q.repeated = r.repeated /\ q.auto = r.auto
        /\ q.cancelled = r.cancelled /\ q.begin = r.begin /\ q.end = r.end /\ q.rs = None
        /\ q.disabled = r.disabled
    BY <1>1, StateNames DEF TimerEntry
  <2> HIDE DEF q
  <2>2. Activated(r, q)
    BY <1>3, <2>1
  <2> QED BY <1>5, <2>1, <2>2 DEF Activating, Recording, q
<1>6. CASE r.rs = None /\ ~r.justplay
  BY <1>1, <1>6
<1> QED BY <1>2, <1>4, <1>5, <1>6 DEF Stop

LEMMA ActivatingEntry ==
  ASSUME now \in Nat, Undisturbed, NEW r, Startable(r), NEW x, NEW st, DoActivate(r, x, st)
  PROVE  \E q \in TimerEntry : Activating(r, q) /\ Settle(q, x, st)
<1>1. CASE ShouldSkip(r) /\ Settle([Skipped(r) EXCEPT !.state = Ended], x, st) /\ UNCHANGED svc
  <2>1. Activating(r, [Skipped(r) EXCEPT !.state = Ended])
    BY <1>1, ActivatingSkipped
  <2> QED BY <1>1, <2>1 DEF Activating
<1>2. CASE r.state = Waiting /\ Prepare(r, x, st)
  BY <1>2, ActivatingPrepare
<1>3. CASE r.state = Prepared /\ Start(r, x, st)
  BY <1>3, ActivatingStart
<1>4. CASE r.state = Running /\ Stop(r, x, st)
  BY <1>4, ActivatingStop
<1> QED BY <1>1, <1>2, <1>3, <1>4 DEF DoActivate

\* What doActivate leaves of x when r is what activate() made of it.
Settled(r, x, st) ==
  /\ UNCHANGED raised
  /\ Ordered(Keys(tm'), timer_list') /\ Calm(stack')
  /\ OthersRested(x)
  /\ Stored(tm', timer_list', processed', stack', x)
  /\ \A y \in Timers : Follows(st, stack', y)
  /\ ~Reached(r) => tm'[x] = r /\ x \in Range(timer_list') /\ stack' = st
  /\ Reached(r) /\ ~r.repeated => tm'[x] = r /\ HeldIn(stack', x)
  /\ Reached(r) /\ r.repeated => Placed(x, [NextOccurrence(r) EXCEPT !.state = Waiting], st)

\* An entry that starts over waits for its next occurrence.
LEMMA ReadyAgain ==
  ASSUME now \in Nat, NEW r \in TimerEntry, Reached(r), r.repeated, r.auto => ~r.repeated,
         Unrecorded(r)
  PROVE  Ready([NextOccurrence(r) EXCEPT !.state = Waiting])
<1> DEFINE n == NextOccurrence(r)
           q == [n EXCEPT !.state = Waiting]
<1>1. SameBut(n, r) /\ n.prep = n.begin - PrepareTime
  BY NextFields
<1> HIDE DEF n
<1>2. /\ q \in TimerEntry /\ q.state = Waiting /\ q.prep = n.prep /\ q.begin = n.begin
      /\ q.auto = n.auto /\ q.repeated = n.repeated /\ q.rs = n.rs
  BY <1>1, StateNames DEF SameBut, TimerEntry
<1> HIDE DEF q
<1>3. ~Active(q) /\ ~Active(r)
  BY <1>2, StateNames DEF Active, Reached
<1>4. Unrecorded(q)
  BY <1>1, <1>2, <1>3 DEF Unrecorded, SameBut
<1>5. q.prep = q.begin - PrepareTime
  BY <1>1, <1>2
<1>6. ~q.auto
  BY <1>1, <1>2 DEF SameBut
<1>7. Ready(q)
  BY <1>2, <1>3, <1>4, <1>5, <1>6, StateNames DEF Ready
<1> QED BY <1>7 DEF q, n

\* checkWrongRunningTimers finds nothing.
LEMMA NothingWrong ==
  ASSUME IInv, LInv, NEW x \in Timers, InList(x), NEW r
  PROVE  WrongRunning(Without(timer_list, x), [tm EXCEPT ![x] = r]) = Nobody
<1> DEFINE tl == Without(timer_list, x)
           m == [tm EXCEPT ![x] = r]
<1>1. Range(tl) = Range(timer_list) \ {x}
  BY WithoutEntry DEF IInv, Homes, InList
<1> HIDE DEF tl
<1>2. \A y \in Timers : y # x => m[y] = tm[y]
  BY DEF IInv
<1> HIDE DEF m
<1>3. WrongAhead \in Nat /\ now \in Nat
  BY Times DEF IInv, Clocks
<1>4. ASSUME NEW t \in Timers, t \in Range(tl) \/ IsProcessed(t), m[t].state \in {Prepared, Running}
      PROVE  ~(m[t].begin > now + WrongAhead)
  <2>1. t # x
    BY <1>1, <1>4 DEF IsProcessed, InList, IInv, Homes
  <2>2. m[t] = tm[t] /\ Rests(tm, timer_list, processed, stack, t)
    BY <1>2, <2>1 DEF LInv
  <2>3. ~IsProcessed(t)
    BY <1>4, <2>2, StateNames DEF Rests, Stored, IsProcessed
  <2>4. Listed(tm[t]) /\ Active(tm[t])
    BY <1>1, <1>4, <2>2, <2>3 DEF Rests, Stored, Active
  <2>5. tm[t].begin <= now + WrongAhead /\ tm[t].begin \in Int
    BY <2>4 DEF Listed, IInv, TimerEntry
  <2> QED BY <2>2, <2>5, <1>3
<1>5. WrongRunning(tl, m) = [t \in Timers |-> 0]
  BY <1>4 DEF WrongRunning
<1> QED BY <1>5 DEF Nobody, tl, m

LEMMA SettledRests ==
  ASSUME IInv, LInv, NEW x \in Timers, InList(x), NEW r \in TimerEntry,
         r.auto => ~r.repeated, Unrecorded(r), ~Reached(r) => Listed(r),
         NEW st, GoesOnWithout(st, x), Settle(r, x, st)
  PROVE  Settled(r, x, st)
<1> DEFINE tl == Without(timer_list, x)
           m == [tm EXCEPT ![x] = r]
           q == [NextOccurrence(r) EXCEPT !.state = Waiting]
           f == Call("finish", x, WrongRunning(tl, m))
<1>1. /\ now \in Nat /\ tm \in [Timers -> TimerEntry] /\ timer_list \in Seq(Timers)
      /\ Homes(timer_list, processed, st) /\ Calm(st) /\ StackOK(st) /\ st \in Seq(Frame)
      /\ processed \in [Timers -> Nat] /\ Distinct(timer_list)
  BY DEF IInv, Clocks, Homes, GoesOnWithout, Calm
<1>2. \/ /\ ~Reached(r)
         /\ tm' = m
         /\ timer_list' \in Insorted(Keys(m), tl, x)
         /\ stack' = st
         /\ UNCHANGED <<processed, raised>>
      \/ /\ Reached(r) /\ r.repeated
         /\ AddTimerEntry([tm EXCEPT ![x] = q], x, tl, processed, st, FALSE)
      \/ /\ Reached(r) /\ ~r.repeated
         /\ tm' = m
         /\ timer_list' = tl
         /\ stack' = <<f>> \o st
         /\ UNCHANGED <<processed, raised>>
  BY DEF Settle
<1>3. Homes(tl, processed, st) /\ Nowhere(tl, processed, st, x)
  BY <1>1, TakenOut DEF InList
<1>4. /\ Range(tl) = Range(timer_list) \ {x} /\ Ordered(Keys(tm), tl)
      /\ tl \in Seq(Timers) /\ Distinct(tl) /\ x \notin Range(tl)
  BY <1>1, <1>3, WithoutEntry, WithoutOrder DEF InList, LInv
<1>5. f.pc = "finish" /\ f.x = x /\ f.rest = Nobody /\ f \in Frame
  <2>1. Nobody \in [Timers -> Nat]
    BY DEF Nobody
  <2>2. WrongRunning(tl, m) = Nobody
    BY NothingWrong
  <2> QED BY <2>1, <2>2 DEF Call, Frame, Pcs
<1> HIDE DEF tl
<1>6. m \in [Timers -> TimerEntry] /\ m[x] = r /\ \A y \in Timers : y # x => m[y] = tm[y]
  BY <1>1
<1>7. Ordered(Keys(m), tl)
  <2>1. \A y \in Range(tl) : y \in Timers /\ y # x
    BY <1>4 DEF Range
  <2>2. Agree(tm, m, tl)
    BY <1>6, <2>1 DEF Agree
  <2> QED BY <1>1, <1>4, <1>6, <2>2, OrderWithout
<1> HIDE DEF m
<1>8. \A y \in Timers : y # x => /\ Rests(tm, timer_list, processed, stack, y)
                                 /\ Continues(stack, st, y)
  BY DEF LInv, GoesOnWithout
<1>9. processed[x] = 0 /\ ~HeldIn(st, x)
  BY <1>3 DEF Nowhere
<1>10. \A y \in Timers : Follows(st, st, y)
  BY DEF Follows
<1>11. CASE /\ ~Reached(r)
            /\ tm' = m
            /\ timer_list' \in Insorted(Keys(m), tl, x)
            /\ stack' = st
            /\ UNCHANGED <<processed, raised>>
  <2>1. Range(timer_list') = Range(tl) \cup {x}
    BY <1>4, <1>11, InsortedEntry
  <2>2. Ordered(Keys(m), timer_list')
    <3>1. Keys(m) \in [Timers -> Int]
      BY <1>6, KeysOfEntries
    <3> QED BY <1>4, <1>7, <1>11, <3>1, InsortedOrder
  <2>3. OthersRested(x)
    <3> SUFFICES ASSUME NEW y \in Timers, y # x
                 PROVE  Rests(m, timer_list', processed, st, y)
      BY <1>11 DEF OthersRested
    <3>1. m[y] = tm[y] /\ (y \in Range(timer_list') <=> y \in Range(timer_list))
      BY <1>4, <1>6, <2>1
    <3> QED BY <1>8, <3>1, OthersRest
  <2>4. Stored(m, timer_list', processed, st, x)
    BY <1>6, <1>9, <1>11, <2>1 DEF Stored
  <2>5. x \in Range(timer_list') /\ m[x] = r
    BY <1>6, <2>1
  <2> QED BY <1>1, <1>10, <1>11, <2>2, <2>3, <2>4, <2>5 DEF Settled
<1>12. CASE /\ Reached(r) /\ r.repeated
            /\ AddTimerEntry([tm EXCEPT ![x] = q], x, tl, processed, st, FALSE)
  <2> DEFINE n == [tm EXCEPT ![x] = q]
  <2>1. Ready(q)
    BY <1>1, <1>12, ReadyAgain
  <2> HIDE DEF q
  <2>2. n \in [Timers -> TimerEntry] /\ n[x] = q /\ \A y \in Timers : y # x => n[y] = tm[y]
    BY <1>1, <2>1 DEF Ready
  <2>3. AddTimerEntry(n, x, tl, processed, st, FALSE)
    BY <1>12
  <2> HIDE DEF n
  <2>4. Placed(x, n[x], st) /\ OthersRested(x)
    BY <1>3, <1>4, <2>1, <2>2, <2>3, AddedRested
  <2>5. Placed(x, q, st)
    BY <2>2, <2>4
  <2>6. /\ UNCHANGED raised /\ Ordered(Keys(tm'), timer_list') /\ Calm(stack')
        /\ \A y \in Timers : Continues(st, stack', y)
        /\ Stored(tm', timer_list', processed', stack', x)
    BY <2>5 DEF Placed
  <2> QED BY <1>12, <2>4, <2>5, <2>6 DEF Settled, Continues, q
<1>13. CASE /\ Reached(r) /\ ~r.repeated
            /\ tm' = m
            /\ timer_list' = tl
            /\ stack' = <<f>> \o st
            /\ UNCHANGED <<processed, raised>>
  <2>1. StackOK(stack') /\ \A y \in Timers : HeldIn(stack', y) <=> y = x \/ HeldIn(st, y)
    <3>1. WrongRunning(tl, m) \in [Timers -> Nat]
      BY DEF WrongRunning
    <3> QED BY <1>1, <1>9, <1>13, <3>1, FinishFrame
  <2> HIDE DEF f
  <2>2. /\ CalmFrame(f) /\ f.pc \notin Bases /\ f \notin Calculating
        /\ \A y \in Timers, p \in Bases : f \notin On(p, y)
    BY <1>5 DEF CalmFrame, Bases, Calculating, On
  <2>3. Calm(stack')
    BY <1>1, <1>5, <1>13, <2>2, PushedCalm
  <2>4. \A S : HasFrame(stack', S) <=> f \in S \/ HasFrame(st, S)
    BY <1>1, <1>5, <1>13, PushedHas
  <2>5. \A y \in Timers : Follows(st, stack', y)
    BY <2>2, <2>4 DEF Follows
  <2>6. OthersRested(x)
    <3> SUFFICES ASSUME NEW y \in Timers, y # x
                 PROVE  Rests(m, tl, processed, stack', y)
      BY <1>13 DEF OthersRested
    <3>1. m[y] = tm[y] /\ (y \in Range(tl) <=> y \in Range(timer_list))
      BY <1>4, <1>6
    <3>2. Continues(st, stack', y)
      BY <2>1, <2>5 DEF Continues
    <3>3. Continues(stack, stack', y)
      BY <1>8, <3>2 DEF Continues, Follows
    <3> QED BY <1>8, <3>1, <3>3, OthersRest
  <2>7. Stored(m, tl, processed, stack', x)
    <3>1. r.state = Ended /\ ~Active(r)
      BY <1>13, StateNames DEF Reached, Active
    <3> QED BY <1>4, <1>6, <3>1 DEF Stored
  <2>8. HeldIn(stack', x) /\ tm'[x] = r
    BY <1>6, <1>13, <2>1
  <2> QED BY <1>7, <1>13, <2>3, <2>5, <2>6, <2>7, <2>8 DEF Settled
<1> QED BY <1>2, <1>11, <1>12, <1>13

-----------------------------------------------------------------------------
(* What each action leaves of the lists                                     *)

LEMMA RestsNext ==
  ASSUME now' = now, NEW y \in Timers, Rests(tm', timer_list', processed', stack', y)
  PROVE  Rests(tm, timer_list, processed, stack, y)'
<1>1. ASSUME NEW S PROVE HasFrame(stack, S)' <=> HasFrame(stack', S')
  BY DEF HasFrame
<1>2. HeldIn(stack, y)' <=> HeldIn(stack', y)
  BY DEF HeldIn, Holds
<1>3. /\ Listed(tm[y])' <=> Listed(tm'[y])
      /\ Coming(tm[y])' <=> Coming(tm'[y])
      /\ Closing(tm[y])' <=> Closing(tm'[y])
      /\ Unrecorded(tm[y])' <=> Unrecorded(tm'[y])
      /\ Active(tm[y])' <=> Active(tm'[y])
  BY DEF Listed, Coming, Closing, Unrecorded, Active
<1>4. Stored(tm, timer_list, processed, stack, y)'
  BY <1>2, <1>3 DEF Rests, Stored
<1>5. Awaited(tm, timer_list, processed, stack, y)'
  BY <1>1, <1>2, <1>3 DEF Rests, Awaited, On, Calculating
<1> QED BY <1>4, <1>5 DEF Rests

\* An action after which everything rests keeps the invariant.
AllRest ==
  /\ now' = now /\ last' <= now /\ ~raised'
  /\ Ordered(Keys(tm'), timer_list') /\ Calm(stack')
  /\ \A y \in Timers : Rests(tm', timer_list', processed', stack', y)

LEMMA AllRestLInv == AllRest => LInv'
<1> SUFFICES ASSUME AllRest PROVE LInv'
  OBVIOUS
<1>1. \A y \in Timers : Rests(tm, timer_list, processed, stack, y)'
  BY RestsNext DEF AllRest
<1>2. Calm(stack)'
  BY DEF AllRest, Calm, CalmFrame
<1>3. Ordered(Keys(tm), timer_list)'
  BY DEF AllRest, Ordered, Keys, NextActivation
<1> QED BY <1>1, <1>2, <1>3 DEF AllRest, LInv

\* No event has a frame about y in st.
FreeOf(st, y) == \A pc \in Bases : ~HasFrame(st, On(pc, y))

LEMMA FreeAwaits ==
  ASSUME NEW st, NEW ut, NEW y \in Timers, FreeOf(st, y), Follows(st, ut, y),
         NEW m, NEW tl, NEW pr
  PROVE  Awaited(m, tl, pr, ut, y)
<1>1. {"again", "disable", "next", "remove"} \subseteq Bases
  BY DEF Bases
<1> QED BY <1>1 DEF Awaited, FreeOf, Follows

\* The entry an action was about has found its place, the others rest.
LEMMA RestsAgain ==
  ASSUME LInv, Clockless, NEW x \in Timers, OthersRested(x), UNCHANGED raised,
         Ordered(Keys(tm'), timer_list'), Calm(stack'),
         Stored(tm', timer_list', processed', stack', x),
         Awaited(tm', timer_list', processed', stack', x)
  PROVE  AllRest
BY DEF LInv, Clockless, OthersRested, Rests, AllRest

LEMMA PlacedFree ==
  ASSUME LInv, Clockless, NEW x \in Timers, NEW q, NEW st, Placed(x, q, st), OthersRested(x),
         FreeOf(st, x)
  PROVE  AllRest
<1>1. Follows(st, stack', x)
  BY DEF Placed, Continues
<1>2. Awaited(tm', timer_list', processed', stack', x)
  BY <1>1, FreeAwaits
<1> QED BY <1>2, RestsAgain DEF Placed

LEMMA SettledFree ==
  ASSUME LInv, Clockless, NEW x \in Timers, NEW r, NEW st, Settled(r, x, st), FreeOf(st, x)
  PROVE  AllRest
<1>1. Follows(st, stack', x)
  BY DEF Settled
<1>2. Awaited(tm', timer_list', processed', stack', x)
  BY <1>1, FreeAwaits
<1> QED BY <1>2, RestsAgain DEF Settled

\* The top frame and the frames it returns to.
LEMMA CalmTop ==
  ASSUME IInv, LInv, stack # <<>>
  PROVE  /\ Top \in Frame /\ FrameOK(Top) /\ CalmFrame(Top)
         /\ Calm(Return) /\ Homes(timer_list, processed, Return)
         /\ Top.pc \in Bases => Return = <<>>
         /\ \A S : HasFrame(stack, S) <=> Top \in S \/ HasFrame(Return, S)
         /\ \A y \in Timers : HeldIn(stack, y) <=> Holds(Top, y) \/ HeldIn(Return, y)
<1>1. /\ Calm(Return) /\ CalmFrame(Top)
      /\ Top.pc \in Bases => Return = <<>>
  BY PoppedCalm DEF LInv, Top, Return
<1>2. stack \in Seq(Frame)
  BY DEF IInv, Homes, StackOK
<1>3. \A S : HasFrame(stack, S) <=> Top \in S \/ HasFrame(Return, S)
  BY <1>2, PoppedHas DEF Top, Return
<1>4. Top \in Frame
  BY <1>2 DEF Top
<1> QED BY <1>1, <1>3, <1>4, Returning

\* A frame that returns, or makes place for another, that is about x alone.
LEMMA ReturnsWithout ==
  ASSUME IInv, LInv, stack # <<>>, NEW x \in Timers, Top.pc \notin {"calc", "process"},
         \A y \in Timers : y # x => ~Holds(Top, y),
         \A y \in Timers, pc \in Bases : y # x => Top \notin On(pc, y)
  PROVE  GoesOnWithout(Return, x)
<1>1. /\ Calm(Return) /\ Homes(timer_list, processed, Return)
      /\ \A S : HasFrame(stack, S) <=> Top \in S \/ HasFrame(Return, S)
      /\ \A y \in Timers : HeldIn(stack, y) <=> Holds(Top, y) \/ HeldIn(Return, y)
  BY CalmTop
<1>2. Top \notin Calculating
  BY DEF Calculating
<1>3. \A y \in Timers : y # x => Continues(stack, Return, y)
  BY <1>1, <1>2 DEF Continues, Follows
<1> QED BY <1>1, <1>3 DEF GoesOnWithout

LEMMA IdleCalm ==
  ASSUME IInv, LInv, stack = <<>>, NEW x \in Timers
  PROVE  /\ GoesOnWithout(<<>>, x)
         /\ \A y \in Timers : FreeOf(<<>>, y) /\ ~HeldIn(<<>>, y)
         /\ \A S : ~HasFrame(<<>>, S)
<1>1. \A S : ~HasFrame(stack, S)
  BY DEF HasFrame
<1>2. \A y \in Timers : ~HeldIn(stack, y)
  BY DEF HeldIn
<1>3. \A y \in Timers : Continues(stack, stack, y)
  BY SameContinues
<1>4. GoesOnWithout(stack, x)
  BY <1>3 DEF GoesOnWithout, IInv, LInv
<1> QED BY <1>1, <1>2, <1>4 DEF FreeOf

LEMMA IdleHomes ==
  ASSUME IInv, LInv, stack = <<>>, NEW x \in Timers, Live(x)
  PROVE  /\ tm[x].state # Ended => InList(x)
         /\ tm[x].state = Ended => IsProcessed(x)
         /\ IsProcessed(x) => tm[x].state = Ended
         /\ InList(x) => Listed(tm[x])
<1>1. InList(x) \/ IsProcessed(x)
  BY DEF Live, Held
<1> QED BY <1>1 DEF LInv, Rests, Stored, InList, IsProcessed, Listed

\* timer_list and processed_timers stay, the frames go on.
LEMMA SameLists ==
  ASSUME LInv, UNCHANGED <<tm, timer_list, processed, raised, now>>, last' <= now,
         Calm(stack'), \A y \in Timers : Continues(stack, stack', y)
  PROVE  AllRest
<1>1. \A y \in Timers : Rests(tm', timer_list', processed', stack', y)
  BY OthersRest DEF LInv
<1> QED BY <1>1 DEF LInv, AllRest

LEMMA EnterCalcRests == IInv /\ LInv /\ EnterCalc => AllRest
<1> SUFFICES ASSUME IInv, LInv, EnterCalc PROVE AllRest
  OBVIOUS
<1>1. /\ stack # <<>> /\ Top.pc = "calc" /\ Clockless
      /\ stack' = <<Call("process", None, Nobody)>> \o Return
      /\ UNCHANGED <<tm, timer_list, processed, svc, raised>>
  <2>1. last <= now /\ last \in Nat /\ now \in Nat
    BY DEF LInv, IInv, Clocks
  <2> QED BY <2>1 DEF EnterCalc, In
<1>2. /\ Calm(Return) /\ StackOK(Return) /\ Top \in Frame
      /\ \A S : HasFrame(stack, S) <=> Top \in S \/ HasFrame(Return, S)
      /\ \A y \in Timers : HeldIn(stack, y) <=> Holds(Top, y) \/ HeldIn(Return, y)
  BY <1>1, CalmTop DEF Homes
<1>3. /\ Calm(stack') /\ HasFrame(stack', Calculating)
      /\ \A y \in Timers : Continues(Return, stack', y)
  BY <1>1, <1>2, CalcContinues
<1>4. \A y \in Timers : ~Holds(Top, y)
  BY <1>1 DEF Holds
<1>5. \A y \in Timers : Continues(stack, stack', y)
  BY <1>2, <1>3, <1>4 DEF Continues, Follows
<1> QED BY <1>1, <1>3, <1>5, SameLists DEF Clockless, LInv

LEMMA ResetProcessedRests == IInv /\ LInv /\ ResetProcessed => AllRest
<1> SUFFICES ASSUME IInv, LInv, ResetProcessed PROVE FALSE
  OBVIOUS
<1>1. stack # <<>> /\ Top.pc = "reset"
  BY DEF ResetProcessed, In
<1> QED BY <1>1, CalmTop DEF CalmFrame

LEMMA TimerFiresRests == IInv /\ LInv /\ TimerFires => AllRest
<1> SUFFICES ASSUME IInv, LInv, TimerFires PROVE AllRest
  OBVIOUS
<1>1. /\ stack = <<>> /\ Clockless /\ stack' = <<Call("calc", None, Nobody)>>
      /\ UNCHANGED <<tm, timer_list, processed, svc, raised>>
  BY DEF TimerFires, Idle
<1> DEFINE f == Call("calc", None, Nobody)
<1>2. f \in Frame
  BY DEF Call, Frame, Pcs, Nobody
<1> HIDE DEF f
<1>3. <<f>> = <<f>> \o stack
  BY <1>1, <1>2
<1>4. Calm(stack) /\ StackOK(stack)
  BY DEF LInv, IInv, Homes
<1>5. stack' = <<Call("calc", None, Nobody)>> \o stack
  BY <1>1, <1>3 DEF f
<1>6. Calm(stack') /\ \A y \in Timers : Continues(stack, stack', y)
  BY <1>4, <1>5, CalcContinues
<1> QED BY <1>1, <1>6, SameLists DEF Clockless, LInv

\* Time only brings an entry nearer to its begin.
LEMMA TickRests == IInv /\ LInv /\ Tick => LInv'
<1> SUFFICES ASSUME IInv, LInv, Tick PROVE LInv'
  OBVIOUS
<1>1. /\ stack = <<>> /\ now' = now + 1
      /\ UNCHANGED <<tm, timer_list, processed, svc, last, stack, raised>>
  BY DEF Tick, Idle
<1>2. now \in Nat /\ last \in Nat /\ WrongAhead \in Nat
  BY Times DEF IInv, Clocks
<1>3. ASSUME NEW y \in Timers PROVE Rests(tm, timer_list, processed, stack, y)'
  <2>1. Stored(tm, timer_list, processed, stack, y) /\ tm[y].begin \in Int
    BY DEF LInv, Rests, IInv, TimerEntry
  <2>2. Listed(tm[y]) => Listed(tm[y])'
    <3>1. tm[y].begin <= now + WrongAhead => tm[y].begin <= now' + WrongAhead
      BY <1>1, <1>2, <2>1
    <3> QED BY <1>1, <3>1 DEF Listed, Active
  <2>3. Stored(tm, timer_list, processed, stack, y)'
    BY <1>1, <2>1, <2>2 DEF Stored, Unrecorded, Active, HeldIn
  <2>4. \A S : ~HasFrame(stack', S)
    BY <1>1 DEF HasFrame
  <2>5. Awaited(tm, timer_list, processed, stack, y)'
    BY <1>1 DEF Awaited, HasFrame
  <2> QED BY <2>3, <2>5 DEF Rests
<1>4. last' <= now'
  BY <1>1, <1>2 DEF LInv
<1>5. Ordered(Keys(tm), timer_list)' /\ Calm(stack)' /\ ~raised'
  BY <1>1 DEF LInv, Ordered, Keys, NextActivation, Calm, CalmFrame
<1> QED BY <1>3, <1>4, <1>5 DEF LInv

LEMMA InitLInv == Init => LInv
<1> SUFFICES ASSUME Init PROVE LInv
  OBVIOUS
<1>1. Calm(stack)
  BY DEF Init, Calm
<1>2. Ordered(Keys(tm), timer_list)
  BY DEF Init, Ordered
<1>3. ASSUME NEW y \in Timers PROVE Rests(tm, timer_list, processed, stack, y)
  <2>1. tm[y] = Fresh /\ processed[y] = 0 /\ ~HeldIn(stack, y) /\ y \notin Range(timer_list)
    BY <1>3 DEF Init, Nobody, HeldIn, Range
  <2>2. ~Active(Fresh) /\ ~Fresh.auto /\ Fresh.rs = None
    BY StateNames DEF Fresh, Active
  <2>3. Stored(tm, timer_list, processed, stack, y)
    BY <2>1, <2>2 DEF Stored, Unrecorded
  <2>4. Awaited(tm, timer_list, processed, stack, y)
    BY DEF Init, Awaited, HasFrame
  <2> QED BY <2>3, <2>4 DEF Rests
<1> QED BY <1>1, <1>2, <1>3 DEF Init, LInv

\* timeChanged after an event that left entry x as it may be put back.
LEMMA MovedRests ==
  ASSUME IInv, LInv, Idle, Clockless, NEW x \in Timers, Live(x), NEW r \in TimerEntry,
         r.state = tm[x].state, Ready(PutBack(r)),
         TimeChanged([tm EXCEPT ![x] = r], x, <<>>)
  PROVE  AllRest
<1> DEFINE m == [tm EXCEPT ![x] = r]
<1>1. m \in [Timers -> TimerEntry] /\ m[x] = r /\ \A y \in Timers : y # x => m[y] = tm[y]
  BY DEF IInv
<1>2. TimeChanged(m, x, <<>>)
  OBVIOUS
<1> HIDE DEF m
<1>3. stack = <<>>
  BY DEF Idle
<1>4. GoesOnWithout(<<>>, x) /\ FreeOf(<<>>, x)
  BY <1>3, IdleCalm
<1>5. (InList(x) /\ m[x].state # Ended) \/ (IsProcessed(x) /\ m[x].state = Ended)
  BY <1>1, <1>3, IdleHomes
<1>6. Placed(x, PutBack(m[x]), <<>>) /\ OthersRested(x)
  BY <1>1, <1>2, <1>4, <1>5, ChangedRests
<1> QED BY <1>4, <1>6, PlacedFree

\* An entry that is not active is put back as one that waits.
LEMMA ReadyBack ==
  ASSUME NEW r \in TimerEntry, ~Active(r), r.auto => ~r.repeated, Unrecorded(r)
  PROVE  Ready(PutBack(r))
<1> DEFINE n == TimeMoved(r)
           w == [n EXCEPT !.state = Waiting]
<1>1. SameBut(n, r) /\ n.prep = n.begin - PrepareTime
  BY MovedFields
<1> HIDE DEF n
<1>2. /\ w \in TimerEntry /\ w.state = Waiting /\ w.prep = n.prep /\ w.begin = n.begin
      /\ w.auto = n.auto /\ w.repeated = n.repeated /\ w.rs = n.rs
  BY <1>1, StateNames DEF SameBut, TimerEntry
<1> HIDE DEF w
<1>3. CASE r.state = Ended
  <2>1. Ready(w)
    BY <1>1, <1>2, StateNames DEF Ready, Active, Unrecorded, SameBut
  <2> QED BY <1>3, <2>1 DEF PutBack, w, n
<1>4. CASE r.state # Ended
  <2>1. Ready(n)
    BY <1>1, <1>4, StateNames DEF Ready, Active, Unrecorded, SameBut
  <2> QED BY <1>4, <2>1 DEF PutBack, n
<1> QED BY <1>3, <1>4

LEMMA UserDisablesRests ==
  ASSUME Undisturbed PROVE \A x \in Timers : IInv /\ LInv /\ UserDisables(x) => AllRest
<1> SUFFICES ASSUME NEW x \in Timers, IInv, LInv, UserDisables(x) PROVE AllRest
  OBVIOUS
<1>1. Idle /\ Live(x) /\ Clockless /\ ~Active(tm[x])
  BY DEF UserDisables, Undisturbed, Active
<1>2. /\ tm[x] \in TimerEntry /\ (tm[x].auto => ~tm[x].repeated) /\ Unrecorded(tm[x])
  BY DEF IInv, LInv, Rests, Stored
<1> DEFINE r == [tm[x] EXCEPT !.disabled = TRUE]
<1>3. /\ r \in TimerEntry /\ r.state = tm[x].state /\ r.auto = tm[x].auto
      /\ r.repeated = tm[x].repeated /\ r.rs = tm[x].rs /\ r.justplay = tm[x].justplay
  BY <1>2 DEF TimerEntry
<1>4. TimeChanged([tm EXCEPT ![x] = r], x, <<>>)
  <2>1. [tm EXCEPT ![x].disabled = TRUE] = [tm EXCEPT ![x] = r]
    BY Zenon
  <2> HIDE DEF r
  <2> QED BY <2>1 DEF UserDisables
<1> HIDE DEF r
<1>5. Ready(PutBack(r))
  BY <1>1, <1>2, <1>3, ReadyBack DEF Active, Unrecorded
<1> QED BY <1>1, <1>3, <1>4, <1>5, MovedRests

LEMMA UserEnablesRests == \A x \in Timers : IInv /\ LInv /\ UserEnables(x) => AllRest
<1> SUFFICES ASSUME NEW x \in Timers, IInv, LInv, UserEnables(x) PROVE AllRest
  OBVIOUS
<1>1. /\ tm[x] \in TimerEntry /\ (tm[x].auto => ~tm[x].repeated) /\ Unrecorded(tm[x])
  BY DEF IInv, LInv, Rests, Stored
<1>2. Idle /\ Live(x) /\ Clockless /\ ~Active(tm[x])
  <2>1. Idle /\ Live(x) /\ Clockless /\ tm[x].disabled
    BY DEF UserEnables
  <2>2. ~InList(x)
    BY <2>1, IdleHomes DEF Listed, Idle
  <2> QED BY <2>1, <2>2 DEF LInv, Rests, Stored, InList
<1>3. PICK b \in BOOLEAN : TimeChanged([tm EXCEPT ![x].disabled = b], x, <<>>)
  BY DEF UserEnables
<1> DEFINE r == [tm[x] EXCEPT !.disabled = b]
<1>4. /\ r \in TimerEntry /\ r.state = tm[x].state /\ r.auto = tm[x].auto
      /\ r.repeated = tm[x].repeated /\ r.rs = tm[x].rs /\ r.justplay = tm[x].justplay
  BY <1>1 DEF TimerEntry
<1>5. TimeChanged([tm EXCEPT ![x] = r], x, <<>>)
  <2>1. [tm EXCEPT ![x].disabled = b] = [tm EXCEPT ![x] = r]
    BY Zenon
  <2> HIDE DEF r
  <2> QED BY <1>3, <2>1
<1> HIDE DEF r
<1>6. Ready(PutBack(r))
  BY <1>1, <1>2, <1>4, ReadyBack DEF Active, Unrecorded
<1> QED BY <1>2, <1>4, <1>5, <1>6, MovedRests

LEMMA UserEditsRests ==
  ASSUME Undisturbed PROVE \A x \in Timers : IInv /\ LInv /\ UserEdits(x) => AllRest
<1> SUFFICES ASSUME NEW x \in Timers, IInv, LInv, UserEdits(x) PROVE AllRest
  OBVIOUS
<1>1. /\ tm[x] \in TimerEntry /\ (tm[x].auto => ~tm[x].repeated) /\ Unrecorded(tm[x])
  BY DEF IInv, LInv, Rests, Stored
<1>2. Idle /\ Live(x) /\ Clockless /\ ~Active(tm[x])
  BY DEF UserEdits, Undisturbed, Active
<1>3. PICK begin \in {now, now + Ahead}, length \in Lengths,
           repeated \in BOOLEAN, justplay \in BOOLEAN :
        /\ repeated # tm[x].repeated => {"repeated", "editrepeated"} \subseteq Env
        /\ TimeChanged([tm EXCEPT ![x] = Edited(@, begin, begin + length, repeated,
                                                justplay)], x, <<>>)
  BY DEF UserEdits, InPlace, Undisturbed
<1> DEFINE r == Edited(tm[x], begin, begin + length, repeated, justplay)
<1>4. begin \in Int /\ begin + length \in Int
  BY Times DEF IInv, Clocks
<1>5. repeated = tm[x].repeated
  BY <1>3 DEF Undisturbed
<1>6. /\ r \in TimerEntry /\ r.state = tm[x].state /\ r.auto = tm[x].auto
      /\ r.repeated = repeated /\ r.rs = tm[x].rs
  BY <1>1, <1>4 DEF Edited, TimerEntry
<1>7. TimeChanged([tm EXCEPT ![x] = r], x, <<>>)
  BY <1>3
<1> HIDE DEF r
<1>8. Ready(PutBack(r))
  BY <1>1, <1>2, <1>5, <1>6, ReadyBack DEF Active, Unrecorded
<1> QED BY <1>2, <1>6, <1>7, <1>8, MovedRests

LEMMA UserMovesEndRests ==
  ASSUME Undisturbed PROVE \A x \in Timers : IInv /\ LInv /\ UserMovesEnd(x) => AllRest
<1> SUFFICES ASSUME NEW x \in Timers, IInv, LInv, UserMovesEnd(x) PROVE AllRest
  OBVIOUS
<1>1. Idle /\ InList(x) /\ Live(x) /\ Clockless /\ tm[x].state = Running /\ Active(tm[x])
  BY DEF UserMovesEnd, Active, Live
<1>2. tm[x] \in TimerEntry /\ Listed(tm[x]) /\ Unrecorded(tm[x])
  BY <1>1 DEF IInv, LInv, Rests, Stored, InList
<1>3. PICK end \in {now, now + Ahead} :
        /\ tm[x].repeated /\ end <= now => "movepast" \in Env
        /\ TimeChanged([tm EXCEPT ![x].end = end, ![x].auto = FALSE], x, <<>>)
  BY DEF UserMovesEnd
<1> DEFINE r == [tm[x] EXCEPT !.end = end, !.auto = FALSE]
<1>4. end \in Int /\ now \in Int
  BY Times DEF IInv, Clocks
<1>5. /\ r \in TimerEntry /\ r.state = Running /\ ~r.auto /\ r.end = end /\ r.begin = tm[x].begin
      /\ r.repeated = tm[x].repeated /\ r.rs = tm[x].rs /\ r.justplay = tm[x].justplay
      /\ r.disabled = tm[x].disabled
  BY <1>1, <1>2, <1>4 DEF TimerEntry
<1>6. [tm EXCEPT ![x].end = end, ![x].auto = FALSE] = [tm EXCEPT ![x] = r]
  BY DEF IInv
<1> HIDE DEF r
<1> DEFINE q == TimeMoved(r)
<1>7. /\ SameBut(q, r) /\ q.begin = r.begin /\ q.end = r.end /\ q.prep = q.begin - PrepareTime
  BY <1>5, MovedFields
<1> HIDE DEF q
<1>8. q.repeated => q.end > now
  BY <1>3, <1>4, <1>5, <1>7 DEF Undisturbed, SameBut
<1>9. Active(r) /\ Active(q)
  BY <1>5, <1>7 DEF Active, SameBut
<1>10. Unrecorded(q)
  BY <1>1, <1>2, <1>5, <1>7, <1>9 DEF Unrecorded, SameBut
<1>11. Ready(q)
  BY <1>1, <1>2, <1>5, <1>7, <1>8, <1>10, StateNames DEF Ready, SameBut, Listed
<1>12. PutBack(r) = q
  BY <1>5, StateNames DEF PutBack, q
<1> QED BY <1>1, <1>3, <1>5, <1>6, <1>11, <1>12, MovedRests

LEMMA RecordRests ==
  ASSUME Undisturbed PROVE \A x \in Timers : IInv /\ LInv /\ Record(x) => AllRest
<1> SUFFICES ASSUME NEW x \in Timers, IInv, LInv, Record(x) PROVE AllRest
  OBVIOUS
<1>1. Idle /\ ~Live(x) /\ Clockless
  BY DEF Record
<1>2. PICK begin \in now - 1 .. now + Ahead, length \in Lengths,
        repeated \in BOOLEAN, justplay \in BOOLEAN, auto \in BOOLEAN :
       /\ auto => x \in Instant /\ ~repeated /\ ~justplay
       /\ AddTimerEntry([tm EXCEPT ![x] = TimeMoved([Fresh EXCEPT !.begin = begin,
                            !.end = begin + length, !.repeated = repeated,
                            !.justplay = justplay, !.auto = auto])],
                        x, timer_list, processed, <<>>, FALSE)
  BY Zenon DEF Record
<1> DEFINE r == [Fresh EXCEPT !.begin = begin, !.end = begin + length,
                              !.repeated = repeated, !.justplay = justplay, !.auto = auto]
           q == TimeMoved(r)
           n == [tm EXCEPT ![x] = q]
<1>3. begin \in Int /\ begin + length \in Int
  BY Times DEF IInv, Clocks
<1>4. /\ r \in TimerEntry /\ r.state = Waiting /\ r.auto = auto /\ r.repeated = repeated
      /\ r.rs = None
  BY <1>3, FreshEntry DEF TimerEntry, Fresh
<1>5. AddTimerEntry(n, x, timer_list, processed, <<>>, FALSE)
  BY <1>2
<1> HIDE DEF r
<1>6. SameBut(q, r) /\ q.prep = q.begin - PrepareTime
  BY <1>4, MovedFields
<1> HIDE DEF q
<1>7. Ready(q)
  BY <1>2, <1>4, <1>6, StateNames DEF Ready, SameBut, Active, Unrecorded
<1>8. n \in [Timers -> TimerEntry] /\ n[x] = q /\ \A y \in Timers : y # x => n[y] = tm[y]
  BY <1>6 DEF IInv, SameBut
<1> HIDE DEF n
<1>9. stack = <<>>
  BY <1>1 DEF Idle
<1>10. GoesOnWithout(<<>>, x) /\ FreeOf(<<>>, x) /\ ~HeldIn(<<>>, x)
  BY <1>9, IdleCalm
<1>11. /\ Homes(timer_list, processed, <<>>) /\ Nowhere(timer_list, processed, <<>>, x)
  BY <1>1, <1>10 DEF GoesOnWithout, Live, InList, IsProcessed, Homes, Nowhere
<1>12. Range(timer_list) = Range(timer_list) \ {x} /\ Ordered(Keys(tm), timer_list)
  BY <1>11 DEF Nowhere, LInv
<1>13. Placed(x, n[x], <<>>) /\ OthersRested(x)
  BY <1>5, <1>7, <1>8, <1>10, <1>11, <1>12, AddedRested
<1> QED BY <1>1, <1>10, <1>13, PlacedFree

LEMMA UserCleansUpRests == IInv /\ LInv /\ UserCleansUp => AllRest
<1> SUFFICES ASSUME IInv, LInv, UserCleansUp PROVE AllRest
  OBVIOUS
<1>1. /\ stack = <<>> /\ Clockless
      /\ processed' = [x \in Timers |-> IF tm[x].disabled THEN processed[x] ELSE 0]
      /\ tm' = [x \in Timers |-> IF IsProcessed(x) /\ ~tm[x].disabled THEN Fresh ELSE tm[x]]
      /\ UNCHANGED <<timer_list, svc, stack, raised>>
  BY DEF UserCleansUp, Idle
<1>2. \A y \in Timers : IF IsProcessed(y) /\ ~tm[y].disabled
                        THEN tm'[y] = Fresh /\ processed'[y] = 0 /\ ~InList(y)
                        ELSE tm'[y] = tm[y] /\ processed'[y] = processed[y]
  BY <1>1 DEF IInv, Homes, IsProcessed, InList
<1>3. tm' \in [Timers -> TimerEntry]
  BY <1>1, FreshEntry DEF IInv
<1>4. Ordered(Keys(tm'), timer_list')
  <2>1. Agree(tm, tm', timer_list)
    BY <1>2 DEF Agree, InList, IInv, Homes, Range
  <2> QED BY <1>1, <1>3, <2>1, OrderWithout DEF IInv, Homes, LInv
<1>5. ~Active(Fresh) /\ ~Fresh.auto /\ Fresh.rs = None
  BY StateNames DEF Fresh, Active
<1>6. \A S : ~HasFrame(stack, S)
  BY <1>1 DEF HasFrame
<1>7. ASSUME NEW y \in Timers PROVE Rests(tm', timer_list', processed', stack', y)
  <2>1. Awaited(tm', timer_list', processed', stack', y)
    BY <1>1, <1>6 DEF Awaited
  <2>2. CASE IsProcessed(y) /\ ~tm[y].disabled
    <3>1. ~HeldIn(stack', y)
      BY <1>1 DEF HeldIn
    <3>2. Stored(tm', timer_list', processed', stack', y)
      BY <1>1, <1>2, <1>5, <2>2, <3>1 DEF Stored, Unrecorded, InList
    <3> QED BY <2>1, <3>2 DEF Rests
  <2>3. CASE ~(IsProcessed(y) /\ ~tm[y].disabled)
    BY <1>1, <1>2, <2>3, OthersRest, SameContinues DEF LInv
  <2> QED BY <2>2, <2>3
<1> QED BY <1>1, <1>4, <1>7 DEF LInv, Clockless, AllRest

\* A running entry, as doActivate finds it when its recording ends.
LEMMA EndingStartable ==
  ASSUME IInv, LInv, NEW x \in Timers, InList(x), tm[x].state = Running
  PROVE  LET q == [tm[x] EXCEPT !.disabled = FALSE]
             r == ProcessRepeated(q, now + 1, FALSE)
         IN /\ Startable(r) /\ r.state = Running
            /\ r.auto = tm[x].auto /\ r.repeated = tm[x].repeated
            /\ tm[x].repeated => /\ r.begin > now /\ r.prep = r.begin - PrepareTime
                                 /\ ~r.auto
<1> DEFINE q == [tm[x] EXCEPT !.disabled = FALSE]
           r == ProcessRepeated(q, now + 1, FALSE)
<1>1. /\ tm[x] \in TimerEntry /\ Listed(tm[x]) /\ (tm[x].auto => ~tm[x].repeated)
      /\ Unrecorded(tm[x])
  BY DEF IInv, LInv, Rests, Stored, InList
<1>2. /\ q \in TimerEntry /\ ~q.disabled /\ q.state = Running /\ q.begin = tm[x].begin
      /\ q.auto = tm[x].auto /\ q.repeated = tm[x].repeated /\ q.rs = tm[x].rs
      /\ q.justplay = tm[x].justplay
  BY <1>1 DEF TimerEntry
<1> HIDE DEF q
<1>3. now + 1 \in Int /\ now \in Int
  BY DEF IInv, Clocks
<1>4. /\ SameBut(r, q)
      /\ ~q.repeated => r = q
      /\ q.repeated => r.begin >= now + 1 /\ r.prep = r.begin - PrepareTime
  BY <1>2, <1>3, RepeatedFields
<1> HIDE DEF r
<1>5. r \in TimerEntry /\ r.begin \in Int
  BY <1>4 DEF SameBut, TimerEntry
<1>6. r.begin >= now + 1 => r.begin > now
  BY ONLY <1>3, <1>5
<1>7. Active(r) /\ Active(tm[x])
  BY <1>2, <1>4 DEF Active, SameBut
<1>8. Unrecorded(r) /\ (r.justplay \/ r.rs # None)
  BY <1>1, <1>2, <1>4, <1>7 DEF Unrecorded, SameBut, Listed
<1>9. r.auto => ~r.repeated /\ r.begin <= now + WrongAhead
  BY <1>1, <1>2, <1>4, <1>7 DEF SameBut, Listed
<1>10. Startable(r)
  BY <1>2, <1>4, <1>5, <1>7, <1>8, <1>9, StateNames DEF Startable, SameBut
<1>11. tm[x].repeated => ~r.auto
  BY <1>1, <1>2, <1>4 DEF SameBut
<1> QED BY <1>2, <1>4, <1>6, <1>10, <1>11 DEF SameBut, r, q

LEMMA RecordingEndsRests ==
  ASSUME Undisturbed PROVE \A x \in Timers : IInv /\ LInv /\ RecordingEnds(x) => AllRest
<1> SUFFICES ASSUME NEW x \in Timers, IInv, LInv, RecordingEnds(x) PROVE AllRest
  OBVIOUS
<1>1. Idle /\ InList(x) /\ Clockless /\ tm[x].state = Running /\ ~tm[x].disabled
  BY DEF RecordingEnds, LInv, Rests, Stored, InList, Listed
<1> DEFINE r == ProcessRepeated([tm[x] EXCEPT !.disabled = FALSE], now + 1, FALSE)
<1>2. DoActivate(r, x, <<>>)
  <2>1. PICK b \in {tm[x].disabled} \cup (IF tm[x].repeated THEN {FALSE} ELSE {}) :
          DoActivate(ProcessRepeated([tm[x] EXCEPT !.disabled = b], now + 1, FALSE), x, <<>>)
    BY DEF RecordingEnds
  <2>2. tm[x].disabled \in BOOLEAN
    BY DEF IInv, TimerEntry
  <2>3. b = FALSE
    BY <1>1, <2>1, <2>2
  <2> QED BY <2>1, <2>3
<1>3. Startable(r) /\ r.state = Running /\ r.auto = tm[x].auto /\ r.repeated = tm[x].repeated
  BY <1>1, EndingStartable
<1> HIDE DEF r
<1>4. now \in Nat
  BY DEF IInv, Clocks
<1>5. PICK q \in TimerEntry : Activating(r, q) /\ Settle(q, x, <<>>)
  BY <1>2, <1>3, <1>4, ActivatingEntry
<1>6. stack = <<>>
  BY <1>1 DEF Idle
<1>7. GoesOnWithout(<<>>, x) /\ FreeOf(<<>>, x)
  BY <1>6, IdleCalm
<1>8. Unrecorded(q) /\ (~Reached(q) => Listed(q)) /\ (q.auto => ~q.repeated)
  BY <1>3, <1>5 DEF Activating, Activated, Startable
<1>9. Settled(q, x, <<>>)
  BY <1>1, <1>5, <1>7, <1>8, SettledRests
<1> QED BY <1>1, <1>7, <1>9, SettledFree

\* An event that begins with a frame of its own.
LEMMA OneBase ==
  ASSUME IInv, LInv, stack = <<>>, NEW x \in Timers,
         NEW pc \in {"remove", "again", "disable", "next"}
  PROVE  LET st == <<Call(pc, x, Nobody)>> IN
         /\ GoesOnWithout(st, x)
         /\ \A p \in Bases : HasFrame(st, On(p, x)) => p = pc
<1> DEFINE f == Call(pc, x, Nobody)
<1>1. f \in Frame /\ f.pc = pc /\ f.x = x
  BY DEF Call, Frame, Pcs, Nobody
<1>2. Homes(timer_list, processed, <<f>>)
  BY FirstCall
<1>3. CalmFrame(f)
  BY <1>1 DEF CalmFrame
<1>4. \A y \in Timers : ~Holds(f, y)
  BY <1>1 DEF Holds
<1>5. \A p \in Bases, y \in Timers : f \in On(p, y) => p = pc /\ y = x
  BY <1>1 DEF On
<1> HIDE DEF f
<1>6. <<f>> = <<f>> \o stack
  BY <1>1
<1>7. \A S : ~HasFrame(stack, S)
  BY DEF HasFrame
<1>8. \A S : HasFrame(<<f>>, S) <=> f \in S
  <2>1. \A S : HasFrame(<<f>> \o stack, S) <=> f \in S \/ HasFrame(stack, S)
    BY <1>1, PushedHas DEF IInv, Homes, StackOK
  <2> QED BY <1>6, <1>7, <2>1
<1>9. Calm(<<f>>)
  BY <1>1, <1>3, <1>6, PushedCalm DEF LInv
<1>10. \A y \in Timers : ~HeldIn(stack, y) /\ ~HeldIn(<<f>>, y)
  BY <1>4 DEF HeldIn
<1>11. \A y \in Timers : y # x => Continues(stack, <<f>>, y)
  BY <1>5, <1>7, <1>8, <1>10 DEF Continues, Follows
<1>12. GoesOnWithout(<<f>>, x)
  BY <1>2, <1>9, <1>11 DEF GoesOnWithout
<1> QED BY <1>5, <1>8, <1>12 DEF f

\* The entry as removeEntry leaves it before timeChanged.
LEMMA AbortedFields ==
  ASSUME now \in Nat, NEW r \in TimerEntry
  PROVE  LET q == Abort([r EXCEPT !.repeated = FALSE, !.auto = FALSE]) IN
         /\ q \in TimerEntry /\ q.state = r.state /\ q.disabled = r.disabled
         /\ q.justplay = r.justplay /\ q.rs = r.rs /\ ~q.repeated /\ ~q.auto
         /\ q.cancelled /\ q.end = now /\ q.begin <= now
<1> DEFINE p == [r EXCEPT !.repeated = FALSE, !.auto = FALSE]
<1>1. /\ p \in TimerEntry /\ p.state = r.state /\ p.disabled = r.disabled
      /\ p.justplay = r.justplay /\ p.rs = r.rs /\ ~p.repeated /\ ~p.auto
  BY DEF TimerEntry
<1> HIDE DEF p
<1> DEFINE b == IF p.begin > now THEN now ELSE p.begin
<1>2. b \in Int /\ b <= now /\ now \in Int
  BY <1>1 DEF TimerEntry
<1>3. Abort(p) = [p EXCEPT !.end = now, !.begin = b, !.cancelled = TRUE]
  BY DEF Abort
<1> HIDE DEF b
<1> DEFINE q == [p EXCEPT !.end = now, !.begin = b, !.cancelled = TRUE]
<1>4. /\ q \in TimerEntry /\ q.state = p.state /\ q.disabled = p.disabled
      /\ q.justplay = p.justplay /\ q.rs = p.rs
      /\ q.repeated = p.repeated /\ q.auto = p.auto
  BY <1>1, <1>2 DEF TimerEntry
<1>5. q.end = now /\ q.begin = b /\ q.cancelled
  BY <1>1 DEF TimerEntry
<1> HIDE DEF q
<1>6. Abort(p) = q
  BY <1>3 DEF q
<1> QED BY <1>1, <1>2, <1>4, <1>5, <1>6 DEF p

LEMMA BeginRemovalRests ==
  ASSUME Undisturbed, IInv, LInv, Idle, Clockless, NEW x \in Timers, Live(x), BeginRemoval(x)
  PROVE  AllRest
<1> DEFINE gone == Abort([tm[x] EXCEPT !.repeated = FALSE, !.auto = FALSE])
           m == [tm EXCEPT ![x] = gone]
           st == <<Call("remove", x, Nobody)>>
<1>1. /\ stack = <<>> /\ now \in Nat /\ WrongAhead \in Nat /\ tm[x] \in TimerEntry
      /\ Unrecorded(tm[x])
  BY Times DEF Idle, IInv, Clocks, LInv, Rests, Stored
<1>2. /\ gone \in TimerEntry /\ gone.state = tm[x].state /\ gone.disabled = tm[x].disabled
      /\ gone.justplay = tm[x].justplay /\ gone.rs = tm[x].rs /\ ~gone.repeated
      /\ ~gone.auto /\ gone.cancelled /\ gone.end = now /\ gone.begin <= now
  BY <1>1, AbortedFields
<1>3. \/ tm[x].state # Ended /\ TimeChanged(m, x, st)
      \/ /\ tm[x].state = Ended
         /\ tm' = m
         /\ stack' = st
         /\ UNCHANGED <<timer_list, processed, raised>>
  BY DEF BeginRemoval
<1> HIDE DEF gone
<1>4. m \in [Timers -> TimerEntry] /\ m[x] = gone /\ \A y \in Timers : y # x => m[y] = tm[y]
  BY <1>2 DEF IInv
<1> HIDE DEF m
<1>5. GoesOnWithout(st, x) /\ \A p \in Bases : HasFrame(st, On(p, x)) => p = "remove"
  BY <1>1, OneBase
<1> HIDE DEF st
<1>6. /\ tm[x].state # Ended => InList(x) /\ Listed(tm[x])
      /\ tm[x].state = Ended => IsProcessed(x)
  BY <1>1, IdleHomes
<1>7. {"again", "disable", "next", "remove"} \subseteq Bases
  BY DEF Bases
<1>8. Unrecorded(gone)
  BY <1>1, <1>2 DEF Unrecorded, Active
<1>9. CASE tm[x].state # Ended /\ TimeChanged(m, x, st)
  <2> DEFINE q == TimeMoved(gone)
  <2>1. /\ SameBut(q, gone) /\ q.begin = gone.begin /\ q.end = now
        /\ q.prep = q.begin - PrepareTime
    BY <1>2, MovedFields
  <2>2. PutBack(m[x]) = q
    BY <1>2, <1>4, <1>9 DEF PutBack
  <2> HIDE DEF q
  <2>3. Ready(q)
    <3>1. q.begin <= now /\ q.begin <= now + WrongAhead
      <4>1. q.begin \in Int
        BY <2>1 DEF SameBut, TimerEntry
      <4> QED BY <1>1, <1>2, <2>1, <4>1
    <3>2. Unrecorded(q)
      BY <1>8, <2>1 DEF Unrecorded, Active, SameBut
    <3>3. Active(q) => ~q.disabled /\ (q.justplay \/ q.rs # None)
      BY <1>2, <1>6, <1>9, <2>1 DEF SameBut, Listed, Active
    <3> QED BY <1>2, <1>9, <2>1, <3>1, <3>2, <3>3 DEF Ready, SameBut
  <2>4. Placed(x, q, st) /\ OthersRested(x)
    BY <1>2, <1>4, <1>5, <1>6, <1>9, <2>2, <2>3, ChangedRests
  <2>5. NextOccurrence(q) = q
    BY <1>1, <1>2, <2>1, NextFields DEF SameBut
  <2>6. /\ tm'[x].end = now
        /\ \/ processed'[x] > 0
           \/ x \in Range(timer_list') /\ Closing(tm'[x]) /\ HasFrame(stack', Calculating)
    <3>1. CASE RetiresAs(q) /\ processed'[x] > 0 /\ tm'[x] = [Skipped(q) EXCEPT !.state = Ended]
      BY <2>1, <3>1, SkippedFields DEF SameBut
    <3>2. CASE /\ ~RetiresAs(q) /\ x \in Range(timer_list') /\ tm'[x] = q
               /\ HasFrame(stack', Calculating)
      <4>1. q.state # Waiting /\ q.state # Ended
        BY <1>1, <2>1, <3>2 DEF RetiresAs, ShouldSkip
      <4>2. q.state \in {Prepared, Running}
        BY <2>1, <4>1, StateNames DEF SameBut, TimerEntry
      <4>3. Closing(q)
        BY <1>2, <2>1, <4>2 DEF Closing, SameBut
      <4> QED BY <2>1, <3>2, <4>3
    <3> QED BY <2>4, <2>5, <3>1, <3>2 DEF Placed
  <2>7. Follows(st, stack', x)
    BY <2>4 DEF Placed, Continues
  <2>8. Awaited(tm', timer_list', processed', stack', x)
    BY <1>5, <1>7, <2>6, <2>7 DEF Awaited, Follows
  <2> QED BY <2>4, <2>8, RestsAgain DEF Placed
<1>10. CASE /\ tm[x].state = Ended
            /\ tm' = m
            /\ stack' = st
            /\ UNCHANGED <<timer_list, processed, raised>>
  <2>1. processed[x] > 0 /\ x \notin Range(timer_list)
    BY <1>6, <1>10 DEF IsProcessed, IInv, Homes
  <2>2. Ordered(Keys(m), timer_list)
    <3>1. Agree(tm, m, timer_list)
      BY <1>4, <2>1 DEF Agree, IInv, Homes, Range
    <3> QED BY <1>4, <3>1, OrderWithout DEF IInv, Homes, LInv
  <2>3. OthersRested(x)
    BY <1>4, <1>5, <1>10, OthersRest DEF OthersRested, GoesOnWithout, LInv
  <2>4. Stored(m, timer_list, processed, st, x)
    BY <1>2, <1>4, <1>8, <1>10, <2>1, StateNames DEF Stored, Active
  <2>5. Awaited(m, timer_list, processed, st, x)
    BY <1>2, <1>4, <1>5, <1>7, <2>1 DEF Awaited
  <2> QED BY <1>5, <1>10, <2>2, <2>3, <2>4, <2>5, RestsAgain DEF GoesOnWithout
<1> QED BY <1>3, <1>9, <1>10

LEMMA RemovalsRest ==
  ASSUME Undisturbed
  PROVE  \A x \in Timers : IInv /\ LInv /\ (UserRemoves(x) \/ RecordingAborted(x)) => AllRest
BY BeginRemovalRests DEF UserRemoves, RecordingAborted

LEMMA UserSkipsNextRests ==
  ASSUME Undisturbed PROVE \A x \in Timers : IInv /\ LInv /\ UserSkipsNext(x) => AllRest
<1> SUFFICES ASSUME NEW x \in Timers, IInv, LInv, UserSkipsNext(x) PROVE AllRest
  OBVIOUS
<1>1. Idle /\ stack = <<>> /\ Live(x) /\ Clockless /\ ~Active(tm[x]) /\ tm[x].repeated
  BY DEF UserSkipsNext, Undisturbed, Active, Idle
<1>2. /\ tm[x] \in TimerEntry /\ (tm[x].auto => ~tm[x].repeated) /\ Unrecorded(tm[x])
      /\ now \in Nat
  BY DEF IInv, Clocks, LInv, Rests, Stored
<1> DEFINE r == [tm[x] EXCEPT !.disabled = TRUE]
           m == [tm EXCEPT ![x] = r]
           st == <<Call("next", x, Nobody)>>
           q == PutBack(r)
<1>3. /\ r \in TimerEntry /\ r.state = tm[x].state /\ r.auto = tm[x].auto /\ r.disabled
      /\ r.repeated = tm[x].repeated /\ r.rs = tm[x].rs /\ r.justplay = tm[x].justplay
  BY <1>2 DEF TimerEntry
<1>4. TimeChanged(m, x, st)
  <2>1. [tm EXCEPT ![x].disabled = TRUE] = m
    BY Zenon
  <2> HIDE DEF m
  <2> QED BY <2>1 DEF UserSkipsNext
<1> HIDE DEF r
<1>5. m \in [Timers -> TimerEntry] /\ m[x] = r /\ \A y \in Timers : y # x => m[y] = tm[y]
  BY <1>3 DEF IInv
<1> HIDE DEF m
<1>6. GoesOnWithout(st, x) /\ \A p \in Bases : HasFrame(st, On(p, x)) => p = "next"
  BY <1>1, OneBase
<1> HIDE DEF st
<1>7. Ready(q)
  BY <1>1, <1>2, <1>3, ReadyBack DEF Active, Unrecorded
<1>8. /\ tm[x].state # Ended => InList(x)
      /\ tm[x].state = Ended => IsProcessed(x)
  BY <1>1, IdleHomes
<1>9. q \in TimerEntry /\ q.state = Waiting /\ q.disabled /\ q.repeated
  <2>1. r.state = Waiting \/ r.state = Ended
    BY <1>1, <1>3, StateNames DEF Active, TimerEntry
  <2>2. SameBut(TimeMoved(r), r)
    BY <1>3, MovedFields
  <2>3. TimeMoved(r) \in TimerEntry
    BY <2>2 DEF SameBut
  <2>4. CASE r.state = Waiting
    BY <1>1, <1>3, <2>2, <2>4, StateNames DEF PutBack, SameBut
  <2>5. CASE r.state = Ended
    <3> DEFINE p == TimeMoved(r)
    <3>1. p \in TimerEntry /\ p.disabled /\ p.repeated
      BY <1>1, <1>3, <2>2 DEF SameBut
    <3>2. q = [p EXCEPT !.state = Waiting]
      BY <2>5 DEF PutBack
    <3> HIDE DEF p, q
    <3> QED BY <3>1, <3>2, StateNames DEF TimerEntry
  <2> QED BY <2>1, <2>4, <2>5
<1>10. Placed(x, q, st) /\ OthersRested(x)
  BY <1>3, <1>4, <1>5, <1>6, <1>7, <1>8, ChangedRests
<1> HIDE DEF q
<1> DEFINE n == NextOccurrence(q)
<1>11. SameBut(n, q)
  BY <1>2, <1>9, NextFields
<1> HIDE DEF n
<1>12. n \in TimerEntry /\ RetiresAs(n) /\ n.disabled /\ n.repeated
  BY <1>9, <1>11 DEF SameBut, RetiresAs
<1>13. processed'[x] > 0 /\ tm'[x] = [Skipped(n) EXCEPT !.state = Ended]
  BY <1>10, <1>12 DEF Placed, n
<1>14. tm'[x].disabled /\ tm'[x].repeated
  BY <1>12, <1>13, SkippedFields
<1>15. Follows(st, stack', x)
  BY <1>10 DEF Placed, Continues
<1>16. {"again", "disable", "next", "remove"} \subseteq Bases
  BY DEF Bases
<1>17. Awaited(tm', timer_list', processed', stack', x)
  BY <1>6, <1>13, <1>14, <1>15, <1>16 DEF Awaited, Follows
<1> QED BY <1>1, <1>10, <1>17, RestsAgain DEF Placed

LEMMA UserStopsEventRests ==
  ASSUME Undisturbed PROVE \A x \in Timers : IInv /\ LInv /\ UserStopsEvent(x) => AllRest
<1> SUFFICES ASSUME NEW x \in Timers, IInv, LInv, UserStopsEvent(x) PROVE AllRest
  OBVIOUS
<1>1. /\ stack = <<>> /\ InList(x) /\ Clockless /\ tm[x].state = Running /\ tm[x].repeated
      /\ now \in Nat
  BY DEF UserStopsEvent, Idle, IInv, Clocks
<1> DEFINE r == ProcessRepeated([tm[x] EXCEPT !.disabled = FALSE], now + 1, FALSE)
<1>2. /\ Startable(r) /\ r.state = Running /\ ~r.auto /\ r.repeated
      /\ r.begin > now /\ r.prep = r.begin - PrepareTime
  BY <1>1, EndingStartable
<1>3. PICK pc \in {"again", "disable"} :
        /\ pc = "disable" => r.prep > now
        /\ DoActivate(r, x, <<Call(pc, x, Nobody)>>)
  <2> HIDE DEF r
  <2>1. r.prep \in Int /\ now \in Int
    BY <1>1, <1>2 DEF Startable, TimerEntry
  <2>2. (~(r.prep <= now)) => r.prep > now
    BY ONLY <2>1
  <2>3. PICK pc \in {"again", "disable"} :
          /\ pc = "disable" /\ r.prep <= now => "holdprepared" \in Env
          /\ DoActivate(r, x, <<Call(pc, x, Nobody)>>)
    BY DEF UserStopsEvent, Undisturbed, r
  <2> QED BY <2>2, <2>3 DEF Undisturbed
<1> HIDE DEF r
<1> DEFINE st == <<Call(pc, x, Nobody)>>
<1>4. GoesOnWithout(st, x) /\ \A p \in Bases : HasFrame(st, On(p, x)) => p = pc
  BY <1>1, OneBase
<1>5. PICK q \in TimerEntry : Activating(r, q) /\ Settle(q, x, st)
  BY <1>1, <1>2, <1>3, ActivatingEntry
<1> HIDE DEF st
<1>6. /\ Unrecorded(q) /\ (~Reached(q) => Listed(q)) /\ ~q.auto /\ q.repeated
      /\ Reached(q) /\ q.begin = r.begin
  BY <1>2, <1>5 DEF Activating, Activated
<1>7. Settled(q, x, st)
  BY <1>1, <1>4, <1>5, <1>6, SettledRests
<1> DEFINE n == NextOccurrence(q)
           w == [n EXCEPT !.state = Waiting]
           k == NextOccurrence(w)
<1>8. Placed(x, w, st) /\ OthersRested(x)
  BY <1>6, <1>7 DEF Settled
<1>9. SameBut(n, q) /\ n.begin >= q.begin
  BY <1>1, <1>6, NextFields
<1> HIDE DEF n
<1>10. /\ w \in TimerEntry /\ w.state = Waiting /\ w.repeated /\ w.begin = n.begin
       /\ w.disabled = n.disabled
  BY <1>6, <1>9, StateNames DEF SameBut, TimerEntry
<1> HIDE DEF w
<1>11. /\ SameBut(k, w) /\ k.begin >= w.begin /\ k.end > now /\ k.prep = k.begin - PrepareTime
  BY <1>1, <1>10, NextFields
<1> HIDE DEF k
<1>12. /\ k.begin \in Int /\ w.begin \in Int /\ r.begin \in Int
       /\ now \in Int /\ PrepareTime \in Int
  <2>1. k \in TimerEntry /\ w \in TimerEntry /\ r \in TimerEntry
    BY <1>2, <1>10, <1>11 DEF SameBut, Startable
  <2> QED BY <1>1, <2>1, Times DEF TimerEntry
<1>13. k.begin > now /\ (r.prep > now => k.prep > now)
  <2>1. k.begin >= w.begin /\ w.begin >= r.begin /\ r.begin > now
    BY <1>2, <1>6, <1>9, <1>10, <1>11
  <2>2. k.begin > now /\ k.begin >= r.begin
    BY ONLY <1>12, <2>1
  <2>3. r.begin - PrepareTime > now => k.begin - PrepareTime > now
    BY ONLY <1>12, <2>2
  <2> QED BY <1>2, <1>11, <2>2, <2>3
<1>14. k \in TimerEntry /\ k.state = Waiting /\ ~k.disabled /\ k.end \in Int
  <2>1. ~q.disabled /\ w.disabled = n.disabled
    BY <1>2, <1>5, <1>10 DEF Activating, Activated, Startable
  <2> QED BY <1>9, <1>10, <1>11, <2>1 DEF SameBut, TimerEntry
<1>15. ~RetiresAs(k)
  <2>1. ~(k.end <= now)
    BY <1>11, <1>12, <1>14
  <2> QED BY <1>14, <2>1, StateNames DEF RetiresAs, ShouldSkip
<1>16. x \in Range(timer_list') /\ tm'[x] = k /\ Follows(st, stack', x)
  BY <1>8, <1>15 DEF Placed, Continues, k
<1>17. Coming(k)
  BY <1>11, <1>13, <1>14 DEF Coming
<1>18. {"again", "disable", "next", "remove"} \subseteq Bases
  BY DEF Bases
<1>19. Awaited(tm', timer_list', processed', stack', x)
  BY <1>3, <1>4, <1>13, <1>14, <1>16, <1>17, <1>18 DEF Awaited, Follows
<1> QED BY <1>1, <1>8, <1>19, RestsAgain DEF Placed

LEMMA DueStartable ==
  ASSUME IInv, LInv, NEW x \in Timers, IsDue(x)
  PROVE  InList(x) /\ Startable(tm[x])
<1>1. InList(x) /\ NextActivation(tm[x]) <= now
  BY DEF IsDue, IsFirst, InList, Range
<1>2. /\ tm[x] \in TimerEntry /\ Listed(tm[x]) /\ (tm[x].auto => ~tm[x].repeated)
      /\ Unrecorded(tm[x])
  BY <1>1 DEF IInv, LInv, Rests, Stored, InList
<1>3. /\ tm[x].state = Waiting => tm[x].prep <= now
      /\ tm[x].state = Prepared => tm[x].begin <= now
  BY <1>1, StateNames DEF NextActivation
<1> QED BY <1>1, <1>2, <1>3 DEF Startable, Listed, Active

LEMMA ActivateHeadRests ==
  ASSUME Undisturbed PROVE IInv /\ LInv /\ ActivateHead => AllRest
<1> SUFFICES ASSUME IInv, LInv, ActivateHead PROVE AllRest
  OBVIOUS
<1>1. PICK x \in Timers : IsDue(x) /\ DoActivate(tm[x], x, stack)
  BY DEF ActivateHead
<1>2. InList(x) /\ Startable(tm[x]) /\ Clockless /\ now \in Nat
  BY <1>1, DueStartable DEF ActivateHead, IInv, Clocks
<1>3. PICK q \in TimerEntry : Activating(tm[x], q) /\ Settle(q, x, stack)
  BY <1>1, <1>2, ActivatingEntry
<1>4. /\ Activated(tm[x], q) /\ Unrecorded(q) /\ (~Reached(q) => Listed(q))
      /\ q.auto => ~q.repeated
  BY <1>2, <1>3 DEF Activating, Activated, Startable
<1>5. GoesOnWithout(stack, x)
  BY SameContinues DEF GoesOnWithout, IInv, LInv
<1>6. Settled(q, x, stack)
  BY <1>2, <1>3, <1>4, <1>5, SettledRests
<1>7. /\ ~Reached(q) => tm'[x] = q /\ x \in Range(timer_list') /\ stack' = stack
      /\ Reached(q) /\ ~q.repeated => tm'[x] = q /\ HeldIn(stack', x)
      /\ Follows(stack, stack', x)
  BY <1>6 DEF Settled
<1>8. Awaited(tm, timer_list, processed, stack, x) /\ processed[x] = 0 /\ ~HeldIn(stack, x)
  BY <1>2 DEF LInv, Rests, IInv, Homes, InList
<1>9. {"again", "disable", "next", "remove"} \subseteq Bases
  BY DEF Bases
<1>10. /\ tm[x] \in TimerEntry /\ now \in Int
       /\ tm[x].begin \in Int /\ tm[x].end \in Int /\ tm[x].prep \in Int
  BY <1>2 DEF Startable, TimerEntry
<1>11. ASSUME HasFrame(stack', On("again", x)) PROVE x \in Range(timer_list') /\ Coming(tm'[x])
  <2>1. Coming(tm[x])
    BY <1>7, <1>8, <1>9, <1>11 DEF Awaited, Follows
  <2>2. tm[x].state = Waiting /\ tm[x].begin > now /\ tm[x].end > now
    BY <1>2, <1>10, <2>1 DEF Coming, Startable
  <2>3. q.state \in {Waiting, Prepared} /\ q.begin > now /\ q.end > now
    BY <1>4, <2>2 DEF Activated
  <2>4. ~Reached(q) /\ Coming(q)
    BY <2>3, StateNames DEF Reached, Coming
  <2> QED BY <1>7, <2>4
<1>12. ~HasFrame(stack', On("disable", x))
  <2>1. HasFrame(stack, On("disable", x)) => tm[x].state = Waiting /\ tm[x].prep > now
    BY <1>8 DEF Awaited
  <2>2. tm[x].state = Waiting => tm[x].prep <= now
    BY <1>2 DEF Startable
  <2> QED BY <1>7, <1>9, <1>10, <2>1, <2>2 DEF Follows
<1>13. ~HasFrame(stack', On("next", x))
  BY <1>7, <1>8, <1>9 DEF Awaited, Follows
<1>14. ASSUME HasFrame(stack', On("remove", x))
       PROVE  /\ tm'[x].end = now
              /\ \/ HeldIn(stack', x)
                 \/ /\ x \in Range(timer_list') /\ Closing(tm'[x])
                    /\ HasFrame(stack', Calculating)
  <2>1. tm[x].end = now /\ Closing(tm[x]) /\ HasFrame(stack, Calculating)
    BY <1>7, <1>8, <1>9, <1>14 DEF Awaited, Follows
  <2>2. q.end = now /\ (Reached(q) \/ Closing(q)) /\ q.repeated = tm[x].repeated
    BY <1>4, <2>1 DEF Activated
  <2>3. ~q.repeated
    BY <2>1, <2>2 DEF Closing
  <2> QED BY <1>7, <2>1, <2>2, <2>3
<1>15. Awaited(tm', timer_list', processed', stack', x)
  BY <1>11, <1>12, <1>13, <1>14 DEF Awaited
<1> QED BY <1>2, <1>6, <1>15, RestsAgain DEF Settled

\* The list is in order: when its head is not due, nothing is.
LEMMA NothingIsDue ==
  ASSUME IInv, LInv, \A x \in Timers : ~IsDue(x), NEW y \in Timers, InList(y)
  PROVE  ~(NextActivation(tm[y]) <= now)
<1>1. timer_list \in Seq(Timers) /\ now \in Int /\ \A x \in Timers : NextActivation(tm[x]) \in Int
  BY NextActivationOfEntry DEF IInv, Clocks, Homes
<1>2. PICK j \in DOMAIN timer_list : timer_list[j] = y
  BY DEF InList, Range
<1>3. /\ DOMAIN timer_list = 1 .. Len(timer_list) /\ Len(timer_list) \in Nat
      /\ j \in Int /\ 1 <= j /\ 1 \in DOMAIN timer_list
  BY <1>1, <1>2
<1> DEFINE h == timer_list[1]
<1>4. h \in Timers /\ h \in Range(timer_list)
  BY <1>1, <1>3 DEF Range
<1>5. ~tm[h].disabled
  BY <1>4 DEF LInv, Rests, Stored, Listed
<1>6. IsFirst(h)
  <2>1. \A i \in DOMAIN timer_list : ~(i < 1)
    BY <1>3
  <2> QED BY <1>3, <1>5, <2>1 DEF IsFirst
<1>7. ~(NextActivation(tm[h]) <= now)
  BY <1>4, <1>6 DEF IsDue
<1>8. NextActivation(tm[h]) <= NextActivation(tm[y])
  <2>1. CASE j = 1
    BY <1>1, <1>2, <1>4, <2>1
  <2>2. CASE 1 < j
    <3>1. Keys(tm)[timer_list[1]] <= Keys(tm)[timer_list[j]]
      BY <1>2, <1>3, <2>2 DEF LInv, Ordered
    <3> QED BY <1>2, <1>4, <3>1 DEF Keys
  <2> QED BY <1>3, <2>1, <2>2
<1> HIDE DEF h
<1>9. NextActivation(tm[h]) \in Int /\ NextActivation(tm[y]) \in Int
  BY <1>1, <1>4
<1> QED BY ONLY <1>1, <1>7, <1>8, <1>9

LEMMA ScheduleNextRests == IInv /\ LInv /\ ScheduleNext => AllRest
<1> SUFFICES ASSUME IInv, LInv, ScheduleNext PROVE AllRest
  OBVIOUS
<1>1. /\ stack # <<>> /\ Top.pc = "process" /\ stack' = Return /\ last' = now
      /\ UNCHANGED <<now, tm, processed, svc, raised>>
      /\ \A x \in Timers : ~IsDue(x)
      /\ timer_list' \in SortsOf(Keys(tm), timer_list)
  BY DEF ScheduleNext, In
<1>2. /\ Top \in Frame /\ Calm(Return)
      /\ \A S : HasFrame(stack, S) <=> Top \in S \/ HasFrame(Return, S)
      /\ \A y \in Timers : HeldIn(stack, y) <=> Holds(Top, y) \/ HeldIn(Return, y)
  BY <1>1, CalmTop
<1>3. /\ timer_list \in Seq(Timers) /\ Keys(tm) \in [Timers -> Int]
      /\ now \in Int /\ tm \in [Timers -> TimerEntry]
  BY KeysOfEntries DEF IInv, Homes, Clocks
<1>4. Range(timer_list') = Range(timer_list)
  BY <1>1, SortedEntries DEF IInv, Homes
<1>5. Ordered(Keys(tm'), timer_list')
  BY <1>1, <1>3, SortedOrder
<1>6. ASSUME NEW y \in Timers PROVE Rests(tm', timer_list', processed', stack', y)
  <2>1. Rests(tm, timer_list, processed, stack, y)
    BY DEF LInv
  <2>2. /\ HeldIn(Return, y) <=> HeldIn(stack, y)
        /\ \A pc \in Bases : HasFrame(Return, On(pc, y)) <=> HasFrame(stack, On(pc, y))
    BY <1>1, <1>2 DEF Holds, On, Bases
  <2>3. Stored(tm', timer_list', processed', stack', y)
    BY <1>1, <1>4, <2>1, <2>2 DEF Rests, Stored
  <2>4. y \in Range(timer_list) /\ Closing(tm[y]) => tm[y].end # now
    <3> SUFFICES ASSUME y \in Range(timer_list), Closing(tm[y]), tm[y].end = now PROVE FALSE
      OBVIOUS
    <3>1. tm[y].state = Running \/ (tm[y].state = Prepared /\ tm[y].begin <= now)
      BY DEF Closing
    <3>2. NextActivation(tm[y]) <= now
      BY <1>3, <3>1, StateNames DEF NextActivation
    <3> QED BY <1>1, <3>2, NothingIsDue DEF InList
  <2>5. {"again", "disable", "next", "remove"} \subseteq Bases
    BY DEF Bases
  <2>6. Awaited(tm', timer_list', processed', stack', y)
    BY <1>1, <1>4, <2>1, <2>2, <2>4, <2>5 DEF Rests, Awaited
  <2> QED BY <2>3, <2>6 DEF Rests
<1>7. now' = now /\ last' <= now /\ ~raised'
  BY <1>1, <1>3 DEF LInv
<1> QED BY <1>1, <1>2, <1>5, <1>6, <1>7 DEF AllRest

\* cleanupDisabled and cleanupDaily forget nothing that a handler goes on with.
LEMMA FinishRests == Undisturbed /\ IInv /\ LInv /\ Finish => AllRest
<1> SUFFICES ASSUME Undisturbed, IInv, LInv, Finish PROVE AllRest
  OBVIOUS
<1>1. stack # <<>> /\ Top.pc = "finish" /\ Clockless
  BY DEF Finish, In
<1>2. /\ Top \in Frame /\ FrameOK(Top) /\ CalmFrame(Top) /\ Calm(Return)
      /\ \A S : HasFrame(stack, S) <=> Top \in S \/ HasFrame(Return, S)
      /\ \A y \in Timers : HeldIn(stack, y) <=> Holds(Top, y) \/ HeldIn(Return, y)
  BY <1>1, CalmTop
<1> DEFINE z == Top.x
<1>3. /\ z \in Timers /\ Top.rest = Nobody
      /\ \A y \in Timers : Holds(Top, y) <=> y = z
      /\ Top \notin Calculating /\ \A y \in Timers, pc \in Bases : Top \notin On(pc, y)
  BY <1>1, <1>2 DEF FrameOK, NeedsEntry, CalmFrame, Holds, Calculating, On, Bases
<1>4. /\ processed' = [y \in Timers |->
                         IF y = z THEN (IF Kept(y) THEN processed[y] ELSE 0) + 1
                         ELSE IF Kept(y) THEN processed[y] ELSE 0]
      /\ tm' = [y \in Timers |->
                  IF IsProcessed(y) /\ y # z THEN IF Kept(y) THEN Skipped(tm[y]) ELSE Fresh
                  ELSE tm[y]]
      /\ stack' = Return
      /\ UNCHANGED <<timer_list, raised>>
  BY <1>3 DEF Finish, Nobody
<1> HIDE DEF z
<1>5. /\ tm \in [Timers -> TimerEntry] /\ timer_list \in Seq(Timers) /\ now \in Nat
      /\ processed \in [Timers -> Nat]
      /\ \A y \in Timers : processed[y] > 0 \/ HeldIn(stack, y) => y \notin Range(timer_list)
      /\ \A y \in Timers : processed[y] > 0 => ~HeldIn(stack, y)
  BY DEF IInv, Clocks, Homes
<1>6. KeepTime \in Nat /\ KeepTime > 0
  BY Times DEF Undisturbed
<1>7. tm' \in [Timers -> TimerEntry]
  BY <1>4, <1>5, FreshEntry, SkippedEntry DEF SameService
<1>8. Ordered(Keys(tm'), timer_list')
  <2>1. Agree(tm, tm', timer_list)
    BY <1>4, <1>5 DEF Agree, Range, IsProcessed
  <2> QED BY <1>4, <1>5, <1>7, <2>1, OrderWithout DEF LInv
<1>9. {"again", "disable", "next", "remove"} \subseteq Bases
  BY DEF Bases
<1>10. ASSUME NEW y \in Timers PROVE Rests(tm', timer_list', processed', stack', y)
  <2>1. Stored(tm, timer_list, processed, stack, y) /\ Awaited(tm, timer_list, processed, stack, y)
    BY DEF LInv, Rests
  <2>2. /\ \A pc \in Bases : HasFrame(Return, On(pc, y)) <=> HasFrame(stack, On(pc, y))
        /\ HasFrame(Return, Calculating) <=> HasFrame(stack, Calculating)
    BY <1>2, <1>3
  <2>3. CASE y = z
    <3>1. processed'[y] > 0 /\ tm'[y] = tm[y]
      BY <1>4, <1>5, <2>3
    <3>2. HeldIn(stack, y) /\ y \notin Range(timer_list) /\ ~(processed[y] > 0)
      BY <1>2, <1>3, <1>5, <2>3
    <3>3. Stored(tm', timer_list', processed', stack', y)
      BY <1>4, <2>1, <3>1, <3>2 DEF Stored
    <3>4. Awaited(tm', timer_list', processed', stack', y)
      BY <1>4, <1>9, <2>1, <2>2, <3>1, <3>2 DEF Awaited
    <3> QED BY <3>3, <3>4 DEF Rests
  <2>4. CASE y # z /\ ~IsProcessed(y)
    <3>1. tm'[y] = tm[y] /\ processed'[y] = processed[y]
      BY <1>4, <1>5, <2>4 DEF IsProcessed
    <3>2. Continues(stack, Return, y)
      BY <1>2, <1>3, <2>2, <2>4 DEF Continues, Follows
    <3> QED BY <1>4, <3>1, <3>2, OthersRest DEF LInv
  <2>5. CASE y # z /\ IsProcessed(y) /\ Kept(y)
    <3>1. tm'[y] = Skipped(tm[y]) /\ processed'[y] = processed[y] /\ processed[y] > 0
      BY <1>4, <2>5 DEF IsProcessed
    <3>2. y \notin Range(timer_list) /\ tm[y].state = Ended
      BY <1>5, <2>1, <3>1 DEF Stored
    <3>3. /\ tm'[y].state = tm[y].state /\ tm'[y].end = tm[y].end /\ tm'[y].rs = tm[y].rs
          /\ tm'[y].auto = tm[y].auto /\ tm'[y].repeated = tm[y].repeated
          /\ tm'[y].justplay = tm[y].justplay
          /\ tm[y].repeated => tm'[y] = tm[y]
      <4>1. \A r \in TimerEntry :
              /\ Skipped(r).state = r.state /\ Skipped(r).end = r.end /\ Skipped(r).rs = r.rs
              /\ Skipped(r).auto = r.auto /\ Skipped(r).repeated = r.repeated
              /\ Skipped(r).justplay = r.justplay
              /\ r.repeated => Skipped(r) = r
        BY DEF Skipped, TimerEntry
      <4> QED BY <1>5, <3>1, <4>1
    <3>4. Stored(tm', timer_list', processed', stack', y)
      BY <1>4, <2>1, <3>1, <3>2, <3>3 DEF Stored, Unrecorded, Active
    <3>5. Awaited(tm', timer_list', processed', stack', y)
      BY <1>4, <1>9, <2>1, <2>2, <3>1, <3>2, <3>3 DEF Awaited
    <3> QED BY <3>4, <3>5 DEF Rests
  <2>6. CASE y # z /\ IsProcessed(y) /\ ~Kept(y)
    <3>1. tm'[y] = Fresh /\ processed'[y] = 0 /\ processed[y] > 0
      BY <1>4, <2>6 DEF IsProcessed
    <3>2. y \notin Range(timer_list) /\ ~HeldIn(Return, y)
      BY <1>2, <1>5, <3>1
    <3>3. ~Active(Fresh) /\ ~Fresh.auto /\ Fresh.rs = None
      BY StateNames DEF Fresh, Active
    <3>4. Stored(tm', timer_list', processed', stack', y)
      BY <1>4, <3>1, <3>2, <3>3 DEF Stored, Unrecorded
    <3>5. ~(tm[y].disabled /\ tm[y].repeated) /\ tm[y].end # now
      BY <1>5, <1>6, <2>6 DEF Kept
    <3>6. Awaited(tm', timer_list', processed', stack', y)
      BY <1>4, <1>9, <2>1, <2>2, <3>2, <3>5 DEF Awaited
    <3> QED BY <3>4, <3>6 DEF Rests
  <2> QED BY <2>3, <2>4, <2>5, <2>6
<1> QED BY <1>1, <1>2, <1>4, <1>8, <1>10 DEF LInv, Clockless, AllRest

\* The frame of an event is the only one when it is the first.
LEMMA BaseTop ==
  ASSUME IInv, LInv, stack # <<>>, Top.pc \in Bases, NEW x, x = Top.x
  PROVE  /\ x \in Timers /\ Return = <<>> /\ Top \in Frame
         /\ GoesOnWithout(Return, x)
         /\ \A S : ~HasFrame(Return, S) /\ (HasFrame(stack, S) <=> Top \in S)
         /\ \A y \in Timers : FreeOf(Return, y) /\ ~HeldIn(stack, y) /\ ~HeldIn(Return, y)
         /\ HasFrame(stack, On(Top.pc, x)) /\ Rests(tm, timer_list, processed, stack, x)
<1>1. /\ Top \in Frame /\ FrameOK(Top) /\ Return = <<>>
      /\ \A S : HasFrame(stack, S) <=> Top \in S \/ HasFrame(Return, S)
      /\ \A y \in Timers : HeldIn(stack, y) <=> Holds(Top, y) \/ HeldIn(Return, y)
  BY CalmTop
<1>2. x \in Timers
  BY <1>1 DEF FrameOK, NeedsEntry, Bases
<1>3. \A S : ~HasFrame(Return, S)
  BY <1>1 DEF HasFrame
<1>4. \A y \in Timers : ~Holds(Top, y) /\ ~HeldIn(Return, y)
  BY <1>1 DEF Holds, HeldIn, Bases
<1>5. \A y \in Timers, pc \in Bases : y # x => Top \notin On(pc, y)
  BY DEF On
<1>6. Top.pc \notin {"calc", "process"}
  BY DEF Bases
<1>7. GoesOnWithout(Return, x)
  BY <1>2, <1>4, <1>5, <1>6, ReturnsWithout
<1>8. Top \in On(Top.pc, x)
  BY <1>1 DEF On
<1> QED BY <1>1, <1>2, <1>3, <1>4, <1>7, <1>8 DEF FreeOf, LInv

LEMMA StoppedCurrentRests == IInv /\ LInv /\ StoppedCurrent => AllRest
<1> SUFFICES ASSUME IInv, LInv, StoppedCurrent PROVE AllRest
  OBVIOUS
<1> DEFINE x == Top.x
           b == tm[x].disabled \/ In("disable")
           r == [tm[x] EXCEPT !.disabled = b]
           m == [tm EXCEPT ![x] = r]
<1>1. stack # <<>> /\ Top.pc \in {"again", "disable"} /\ Top.pc \in Bases /\ Clockless
  BY DEF StoppedCurrent, In, Bases
<1>2. /\ x \in Timers /\ Return = <<>> /\ GoesOnWithout(Return, x) /\ FreeOf(Return, x)
      /\ HasFrame(stack, On(Top.pc, x)) /\ Rests(tm, timer_list, processed, stack, x)
  BY <1>1, BaseTop
<1>3. /\ tm[x] \in TimerEntry /\ x \in Range(timer_list) /\ Listed(tm[x]) /\ Coming(tm[x])
      /\ Top.pc = "disable" => tm[x].state = Waiting
      /\ (tm[x].auto => ~tm[x].repeated) /\ Unrecorded(tm[x])
  BY <1>1, <1>2 DEF Rests, Stored, Awaited, IInv
<1>4. TimeChanged(m, x, Return)
  <2>1. [tm EXCEPT ![x].disabled = @ \/ In("disable")] = m
    BY Zenon
  <2> HIDE DEF m
  <2> QED BY <2>1 DEF StoppedCurrent
<1>5. b \in BOOLEAN /\ (b <=> Top.pc = "disable")
  BY <1>1, <1>3 DEF In, Listed
<1> HIDE DEF x, b
<1>6. /\ r \in TimerEntry /\ r.state = tm[x].state /\ r.disabled = b /\ r.begin = tm[x].begin
      /\ r.end = tm[x].end /\ r.auto = tm[x].auto /\ r.repeated = tm[x].repeated
      /\ r.rs = tm[x].rs /\ r.justplay = tm[x].justplay
  BY <1>3, <1>5 DEF TimerEntry
<1> HIDE DEF r
<1>7. m \in [Timers -> TimerEntry] /\ m[x] = r /\ \A y \in Timers : y # x => m[y] = tm[y]
  BY <1>2, <1>6 DEF IInv
<1> HIDE DEF m
<1>8. r.state # Ended
  BY <1>3, <1>6 DEF Listed
<1>9. Ready(PutBack(r))
  <2>1. CASE Active(r)
    <3> DEFINE q == TimeMoved(r)
    <3>1. SameBut(q, r) /\ q.begin = r.begin /\ q.end = r.end /\ q.prep = q.begin - PrepareTime
      BY <1>6, MovedFields
    <3>2. PutBack(r) = q
      BY <1>8 DEF PutBack
    <3> HIDE DEF q
    <3>3. Active(tm[x]) /\ Active(q) /\ tm[x].state # Waiting
      BY <1>6, <2>1, <3>1, StateNames DEF Active, SameBut
    <3>4. ~r.disabled
      BY <1>3, <1>5, <1>6, <3>3
    <3>5. Unrecorded(q)
      BY <1>3, <1>6, <3>1, <3>3 DEF Unrecorded, SameBut
    <3>6. Ready(q)
      BY <1>3, <1>6, <1>8, <3>1, <3>3, <3>4, <3>5 DEF Ready, SameBut, Listed, Coming
    <3> QED BY <3>2, <3>6
  <2>2. CASE ~Active(r)
    BY <1>3, <1>6, <2>2, ReadyBack DEF Active, Unrecorded
  <2> QED BY <2>1, <2>2
<1>10. Placed(x, PutBack(r), Return) /\ OthersRested(x)
  BY <1>2, <1>3, <1>4, <1>7, <1>8, <1>9, ChangedRests DEF InList
<1> QED BY <1>1, <1>2, <1>10, PlacedFree

LEMMA SkippedNextRests == IInv /\ LInv /\ SkippedNext => AllRest
<1> SUFFICES ASSUME IInv, LInv, SkippedNext PROVE AllRest
  OBVIOUS
<1> DEFINE x == Top.x
           n == ProcessRepeated(tm[x], tm[x].end + 1, TRUE)
           r == [n EXCEPT !.disabled = FALSE]
           m == [tm EXCEPT ![x] = r]
<1>1. stack # <<>> /\ Top.pc = "next" /\ Top.pc \in Bases /\ Clockless
  BY DEF SkippedNext, In, Bases
<1>2. /\ x \in Timers /\ Return = <<>> /\ GoesOnWithout(Return, x) /\ FreeOf(Return, x)
      /\ HasFrame(stack, On(Top.pc, x)) /\ Rests(tm, timer_list, processed, stack, x)
  BY <1>1, BaseTop
<1>3. /\ tm[x] \in TimerEntry /\ processed[x] > 0 /\ tm[x].state = Ended
      /\ (tm[x].auto => ~tm[x].repeated) /\ Unrecorded(tm[x])
  BY <1>1, <1>2 DEF Rests, Stored, Awaited, IInv
<1>4. TimeChanged(m, x, Return)
  BY DEF SkippedNext
<1> HIDE DEF x
<1>5. SameBut(n, tm[x])
  <2>1. tm[x].end + 1 \in Int
    BY <1>3 DEF TimerEntry
  <2> QED BY <1>3, <2>1, RepeatedFields
<1> HIDE DEF n
<1>6. /\ r \in TimerEntry /\ r.state = Ended /\ r.auto = tm[x].auto
      /\ r.repeated = tm[x].repeated /\ r.rs = tm[x].rs /\ r.justplay = tm[x].justplay
  BY <1>3, <1>5 DEF SameBut, TimerEntry
<1> HIDE DEF r
<1>7. m \in [Timers -> TimerEntry] /\ m[x] = r /\ \A y \in Timers : y # x => m[y] = tm[y]
  BY <1>2, <1>6 DEF IInv
<1> HIDE DEF m
<1>8. Ready(PutBack(r))
  BY <1>3, <1>6, ReadyBack, StateNames DEF Active, Unrecorded
<1>9. Placed(x, PutBack(r), Return) /\ OthersRested(x)
  BY <1>2, <1>3, <1>4, <1>6, <1>7, <1>8, ChangedRests DEF IsProcessed
<1> QED BY <1>1, <1>2, <1>9, PlacedFree

\* An instant recording that another's removal extends.
LEMMA ExtendedRests ==
  ASSUME IInv, LInv, NEW y \in Timers, InList(y), tm[y].auto, NEW end \in Int,
         NEW st, GoesOnWithout(st, y), FreeOf(st, y), Clockless,
         TimeChanged([tm EXCEPT ![y].end = end], y, st)
  PROVE  AllRest
<1> DEFINE r == [tm[y] EXCEPT !.end = end]
           m == [tm EXCEPT ![y] = r]
<1>1. /\ tm[y] \in TimerEntry /\ Listed(tm[y]) /\ ~tm[y].repeated /\ Unrecorded(tm[y])
  BY DEF InList, IInv, LInv, Rests, Stored
<1>2. /\ r \in TimerEntry /\ r.state = tm[y].state /\ r.disabled = tm[y].disabled
      /\ r.begin = tm[y].begin /\ r.auto = tm[y].auto /\ r.repeated = tm[y].repeated
      /\ r.rs = tm[y].rs /\ r.justplay = tm[y].justplay
  BY <1>1 DEF TimerEntry
<1>3. TimeChanged(m, y, st)
  <2>1. [tm EXCEPT ![y].end = end] = m
    BY Zenon
  <2> HIDE DEF m
  <2> QED BY <2>1
<1> HIDE DEF r
<1>4. m \in [Timers -> TimerEntry] /\ m[y] = r /\ \A u \in Timers : u # y => m[u] = tm[u]
  BY <1>2 DEF IInv
<1> HIDE DEF m
<1>5. r.state # Ended
  BY <1>1, <1>2 DEF Listed
<1> DEFINE q == TimeMoved(r)
<1>6. SameBut(q, r) /\ q.begin = r.begin /\ q.prep = q.begin - PrepareTime
  BY <1>2, MovedFields
<1>7. PutBack(r) = q
  BY <1>5 DEF PutBack
<1> HIDE DEF q
<1>8. Active(q) <=> Active(tm[y])
  BY <1>2, <1>6 DEF Active, SameBut
<1>9. Unrecorded(q)
  BY <1>1, <1>2, <1>6, <1>8 DEF Unrecorded, SameBut
<1>10. Ready(q)
  BY <1>1, <1>2, <1>5, <1>6, <1>8, <1>9 DEF Ready, SameBut, Listed
<1>11. Placed(y, q, st) /\ OthersRested(y)
  BY <1>3, <1>4, <1>5, <1>7, <1>10, ChangedRests
<1> QED BY <1>11, PlacedFree

\* removeEntry finds its entry among the processed ones and forgets it.
LEMMA ForgottenRests ==
  ASSUME IInv, LInv, Clockless, stack # <<>>, Top.pc = "remove", NEW x, x = Top.x,
         IsProcessed(x), processed' = [processed EXCEPT ![x] = @ - 1],
         tm' = [tm EXCEPT ![x] = Fresh], stack' = Return, UNCHANGED <<timer_list, raised>>
  PROVE  AllRest
<1>1. Top.pc \in Bases
  BY DEF Bases
<1>2. /\ x \in Timers /\ Return = <<>> /\ GoesOnWithout(Return, x)
      /\ FreeOf(Return, x) /\ ~HeldIn(Return, x)
  BY <1>1, BaseTop
<1>3. /\ processed[x] = 1 /\ x \notin Range(timer_list) /\ timer_list \in Seq(Timers)
      /\ processed \in [Timers -> Nat] /\ tm \in [Timers -> TimerEntry]
  BY <1>2 DEF IsProcessed, IInv, Homes
<1>4. /\ processed'[x] = 0 /\ tm'[x] = Fresh
      /\ \A y \in Timers : y # x => processed'[y] = processed[y] /\ tm'[y] = tm[y]
  BY <1>2, <1>3
<1>5. Ordered(Keys(tm'), timer_list')
  <2>1. Agree(tm, tm', timer_list)
    BY <1>3, <1>4 DEF Agree, Range
  <2>2. tm' \in [Timers -> TimerEntry]
    BY <1>3, FreshEntry
  <2> QED BY <1>3, <2>1, <2>2, OrderWithout DEF LInv
<1>6. OthersRested(x)
  <2> SUFFICES ASSUME NEW y \in Timers, y # x
               PROVE  Rests(tm', timer_list', processed', stack', y)
    BY DEF OthersRested
  <2>1. /\ tm'[y] = tm[y] /\ processed'[y] = processed[y]
        /\ Continues(stack, Return, y) /\ Rests(tm, timer_list, processed, stack, y)
    BY <1>2, <1>4 DEF GoesOnWithout, LInv
  <2>2. Rests(tm', timer_list, processed', Return, y)
    BY ONLY <2>1, OthersRest
  <2> QED BY <2>2
<1>7. ~Active(Fresh) /\ ~Fresh.auto /\ Fresh.rs = None
  BY StateNames DEF Fresh, Active
<1>8. Stored(tm', timer_list', processed', stack', x)
  BY <1>2, <1>3, <1>4, <1>7 DEF Stored, Unrecorded
<1>9. Awaited(tm', timer_list', processed', stack', x)
  BY <1>2, FreeAwaits DEF Follows
<1> QED BY <1>2, <1>5, <1>6, <1>8, <1>9, RestsAgain DEF GoesOnWithout

LEMMA RemoveEntryRests == IInv /\ LInv /\ RemoveEntry => AllRest
<1> SUFFICES ASSUME IInv, LInv, RemoveEntry PROVE AllRest
  OBVIOUS
<1> DEFINE x == Top.x
<1>1. stack # <<>> /\ Top.pc = "remove" /\ Top.pc \in Bases /\ Clockless
  BY DEF RemoveEntry, In, Bases
<1>2. /\ x \in Timers /\ Return = <<>> /\ Top \in Frame
      /\ \A S : ~HasFrame(Return, S) /\ (HasFrame(stack, S) <=> Top \in S)
      /\ \A y \in Timers : ~HeldIn(stack, y) /\ ~HeldIn(Return, y)
      /\ HasFrame(stack, On(Top.pc, x)) /\ Rests(tm, timer_list, processed, stack, x)
  BY <1>1, BaseTop
<1>3. IsProcessed(x)
  <2>1. ~HasFrame(stack, Calculating)
    BY <1>1, <1>2 DEF Calculating
  <2> QED BY <1>1, <1>2, <2>1 DEF Rests, Awaited, IsProcessed
<1>4. ASSUME NEW j \in DOMAIN timer_list, tm[timer_list[j]].auto,
             LET y == timer_list[j]
                 goOn == <<[Top EXCEPT !.i = j]>> \o Return
             IN \/ \E end \in {now + 1, now + AutoTime} :
                     TimeChanged([tm EXCEPT ![y].end = end], y, goOn)
                \/ stack' = goOn /\ UNCHANGED <<tm, timer_list, processed, raised>>
      PROVE  AllRest
  <2> DEFINE f == [Top EXCEPT !.i = j]
             y == timer_list[j]
             st == <<f>> \o Return
  <2>1. j \in Nat /\ y \in Timers /\ InList(y)
    BY DEF IInv, Homes, InList, Range
  <2>2. f \in Frame /\ f.pc = Top.pc /\ f.x = Top.x /\ f.rest = Top.rest
    BY <1>2, <2>1 DEF Frame
  <2>3. \/ \E end \in {now + 1, now + AutoTime} :
             TimeChanged([tm EXCEPT ![y].end = end], y, st)
        \/ stack' = st /\ UNCHANGED <<tm, timer_list, processed, raised>>
    BY <1>4
  <2> HIDE DEF f, y, x
  <2>4. y # x
    BY <1>3, <2>1 DEF IsProcessed, InList, IInv, Homes
  <2>5. FrameOK(f) /\ \A u \in Timers : ~Holds(f, u)
    BY <1>1, <1>2, <2>2 DEF FrameOK, Holds, x
  <2>6. /\ Homes(timer_list, processed, st)
        /\ \A u \in Timers : ~HeldIn(st, u)
    BY <1>1, <1>2, <2>5, Replaced
  <2>7. \A S : HasFrame(st, S) <=> f \in S
    <3>1. Return \in Seq(Frame)
      BY <1>2
    <3>2. \A S : HasFrame(st, S) <=> f \in S \/ HasFrame(Return, S)
      BY <2>2, <3>1, PushedHas
    <3> QED BY <1>2, <3>2
  <2>8. Calm(st)
    <3>1. Calm(Return) /\ Return = <<>> /\ CalmFrame(f)
      BY <1>1, <1>2, <2>2, CalmTop DEF CalmFrame
    <3> QED BY <2>2, <3>1, PushedCalm
  <2>9. \A pc \in Bases, u \in Timers : f \in On(pc, u) <=> Top \in On(pc, u)
    BY <1>2, <2>2 DEF On
  <2>10. Top \notin Calculating /\ f \notin Calculating
    BY <1>1, <2>2 DEF Calculating
  <2>11. \A u \in Timers : Continues(stack, st, u)
    BY <1>2, <2>6, <2>7, <2>9, <2>10 DEF Continues, Follows
  <2>12. FreeOf(st, y)
    <3>1. \A pc \in Bases : f \notin On(pc, y)
      BY <2>2, <2>4 DEF On, x
    <3> QED BY <2>7, <3>1 DEF FreeOf
  <2> HIDE DEF st
  <2>13. GoesOnWithout(st, y)
    BY <2>6, <2>8, <2>11 DEF GoesOnWithout
  <2>14. CASE stack' = st /\ UNCHANGED <<tm, timer_list, processed, raised>>
    BY <1>1, <2>8, <2>11, <2>14, SameLists DEF Clockless, LInv
  <2>15. ASSUME NEW end \in {now + 1, now + AutoTime},
                TimeChanged([tm EXCEPT ![y].end = end], y, st)
         PROVE  AllRest
    <3>1. end \in Int
      BY Times DEF IInv, Clocks
    <3> QED BY <1>1, <1>4, <2>1, <2>12, <2>13, <2>15, <3>1, ExtendedRests DEF y
  <2> QED BY <2>3, <2>14, <2>15
<1>5. ASSUME IF IsProcessed(x)
             THEN /\ processed' = [processed EXCEPT ![x] = @ - 1]
                  /\ tm' = [tm EXCEPT ![x] = Fresh]
                  /\ stack' = Return
                  /\ UNCHANGED <<timer_list, raised>>
             ELSE Raise
      PROVE  AllRest
  BY <1>1, <1>3, <1>5, ForgottenRests
<1> QED BY <1>4, <1>5 DEF RemoveEntry

LEMMA NextLInv ==
  ASSUME Undisturbed
  PROVE  IInv /\ LInv /\ [Next]_vars => LInv'
<1> SUFFICES ASSUME IInv, LInv, [Next]_vars PROVE LInv'
  OBVIOUS
<1>1. CASE Step
  BY <1>1, EnterCalcRests, ResetProcessedRests, ActivateHeadRests, ScheduleNextRests,
     FinishRests, RemoveEntryRests, StoppedCurrentRests, SkippedNextRests, AllRestLInv DEF Step
<1>2. CASE TimerFires \/ UserCleansUp \/ Tick
  BY <1>2, TimerFiresRests, UserCleansUpRests, TickRests, AllRestLInv
<1>3. CASE ClockSet
  BY <1>3 DEF ClockSet, Undisturbed
<1>4. CASE \E x \in Timers : User(x)
  BY <1>4, RecordRests, RemovalsRest, RecordingEndsRests, UserDisablesRests,
     UserEnablesRests, UserStopsEventRests, UserSkipsNextRests, UserEditsRests,
     UserMovesEndRests, AllRestLInv DEF User
<1>5. CASE UNCHANGED vars
  <2>1. UNCHANGED <<now, tm, timer_list, processed, last, stack, raised>>
    BY <1>5 DEF vars
  <2>2. Calm(stack') /\ last' <= now
    BY <2>1 DEF LInv
  <2>3. \A y \in Timers : Continues(stack, stack', y)
    BY <2>1, SameContinues
  <2>4. AllRest
    BY <2>1, <2>2, <2>3, SameLists
  <2> QED BY <2>4, AllRestLInv
<1> QED BY <1>1, <1>2, <1>3, <1>4, <1>5 DEF Next

\* While users and the clock keep out of what is being recorded, no handler raises: each
\* removal (timer.py:246-250, RecordTimer.py:1255-1263) finds its entry in the list that
\* the entry's state says it is in, however addTimerEntry, calcNextActivation and
\* doActivate nest, and every recording that is to start or to stop exists.
THEOREM ListsAreConsistentAlways ==
  ASSUME Undisturbed
  PROVE  Spec => []ListsAreConsistent
<1>1. IInv /\ LInv /\ [Next]_vars => (IInv /\ LInv)'
  BY NextIInv, NextLInv
<1>2. Init => IInv /\ LInv
  BY InitIInv, InitLInv
<1>3. IInv /\ LInv => ListsAreConsistent
  BY LInvImplies
<1> QED BY <1>1, <1>2, <1>3, PTL DEF Spec

-----------------------------------------------------------------------------
(* No recording is forgotten                                                *)

\* Every recording the navigation core knows belongs to an entry.
Recorded(m, sv) == \A s \in Services : sv[s] # "none" => \E x \in Timers : m[x].rs = s

\* The actions that start or stop no recording: an entry keeps the one it has.
KeepsRecordings ==
  /\ svc' = svc
  /\ \A y \in Timers : tm[y].rs # None => tm'[y].rs = tm[y].rs

SameServices(m, n) == \A y \in Timers : n[y].rs = m[y].rs

LEMMA KeepsRecorded ==
  ASSUME Recorded(tm, svc), KeepsRecordings
  PROVE  Recorded(tm', svc')
<1> SUFFICES ASSUME NEW s \in Services, svc'[s] # "none"
             PROVE  \E x \in Timers : tm'[x].rs = s
  BY DEF Recorded
<1>1. PICK x \in Timers : tm[x].rs = s
  BY DEF Recorded, KeepsRecordings
<1> QED BY <1>1, NoneAssumption DEF KeepsRecordings

LEMMA AddedServices ==
  ASSUME now \in Nat, NEW m \in [Timers -> TimerEntry], NEW x \in Timers,
         NEW tl, NEW pr, NEW st, NEW noRecalc, AddTimerEntry(m, x, tl, pr, st, noRecalc)
  PROVE  SameServices(m, tm')
<1> DEFINE r == NextOccurrence(m[x])
<1>1. r \in TimerEntry /\ r.rs = m[x].rs
  BY NextOccurrenceEntry DEF SameService
<1> HIDE DEF r
<1>2. Skipped(r) \in TimerEntry /\ Skipped(r).rs = m[x].rs
  BY <1>1, SkippedEntry DEF SameService
<1>3. [Skipped(r) EXCEPT !.state = Ended].rs = m[x].rs
  BY <1>2 DEF TimerEntry
<1>4. CASE tm' = [m EXCEPT ![x] = [Skipped(r) EXCEPT !.state = Ended]]
  BY <1>3, <1>4 DEF SameServices
<1>5. CASE tm' = [m EXCEPT ![x] = r]
  BY <1>1, <1>5 DEF SameServices
<1> QED BY <1>4, <1>5 DEF AddTimerEntry, r

\* TimeChanged of an entry that was changed before, its recording excepted.
LEMMA ChangedServices ==
  ASSUME IInv, NEW m \in [Timers -> TimerEntry], SameServices(tm, m),
         NEW x \in Timers, NEW st, TimeChanged(m, x, st), UNCHANGED svc
  PROVE  KeepsRecordings
<1> DEFINE r == TimeMoved(m[x])
           w == [r EXCEPT !.state = Waiting]
<1>1. r \in TimerEntry /\ r.rs = m[x].rs
  BY TimeMovedEntry DEF SameService
<1>2. w \in TimerEntry /\ w.rs = m[x].rs
  <2> HIDE DEF r
  <2> QED BY <1>1, StateNames DEF TimerEntry
<1> HIDE DEF r, w
<1>3. /\ [m EXCEPT ![x] = w] \in [Timers -> TimerEntry]
      /\ [m EXCEPT ![x] = r] \in [Timers -> TimerEntry]
      /\ SameServices(tm, [m EXCEPT ![x] = w]) /\ SameServices(tm, [m EXCEPT ![x] = r])
      /\ now \in Nat
  BY <1>1, <1>2 DEF SameServices, IInv, Clocks
<1>4. ASSUME NEW n \in [Timers -> TimerEntry], SameServices(tm, n),
             NEW tl, NEW pr, AddTimerEntry(n, x, tl, pr, st, FALSE)
      PROVE  SameServices(tm, tm')
  <2>1. SameServices(n, tm')
    BY <1>3, <1>4, AddedServices
  <2> QED BY <1>4, <2>1 DEF SameServices
<1>5. tm' = [m EXCEPT ![x] = r] => SameServices(tm, tm')
  BY <1>3
<1>6. Raise => SameServices(tm, tm')
  BY DEF Raise, SameServices
<1>7. SameServices(tm, tm')
  BY <1>3, <1>4, <1>5, <1>6 DEF TimeChanged, r, w
<1> QED BY <1>7 DEF SameServices, KeepsRecordings

\* An entry that is in processed_timers, or was forgotten, has no recording.
LEMMA DoneUnrecorded ==
  ASSUME IInv, LInv, "rename" \notin Env, NEW x \in Timers, ~InList(x)
  PROVE  tm[x].rs = None
<1>1. Stored(tm, timer_list, processed, stack, x)
  BY DEF LInv, Rests
<1> QED BY <1>1 DEF Stored, Unrecorded, InList

\* The fields that users and handlers write.
LEMMA WrittenServices ==
  ASSUME NEW r \in TimerEntry
  PROVE  /\ \A b \in BOOLEAN : SameService([r EXCEPT !.disabled = b], r)
         /\ \A e \in Int : SameService([r EXCEPT !.end = e], r)
         /\ \A e \in Int : SameService([r EXCEPT !.end = e, !.auto = FALSE], r)
         /\ SameService([r EXCEPT !.state = Waiting], r)
         /\ SameService([r EXCEPT !.repeated = FALSE, !.auto = FALSE], r)
         /\ \A b, e \in Int, p, j \in BOOLEAN :
              SameService([r EXCEPT !.begin = b, !.end = e, !.repeated = p, !.justplay = j], r)
<1>1. Waiting \in Waiting .. Ended
  BY StateNames
<1> QED BY <1>1 DEF TimerEntry, SameService

LEMMA ChangedEntry ==
  ASSUME IInv, NEW x \in Timers, NEW q, SameService(q, tm[x]), NEW st,
         TimeChanged([tm EXCEPT ![x] = q], x, st), UNCHANGED svc
  PROVE  KeepsRecordings
<1> DEFINE m == [tm EXCEPT ![x] = q]
<1>1. m \in [Timers -> TimerEntry] /\ SameServices(tm, m)
  BY DEF IInv, SameService, SameServices
<1> HIDE DEF m
<1>2. TimeChanged(m, x, st)
  BY DEF m
<1> QED BY <1>1, <1>2, ChangedServices

\* The frames but processActivation.
LEMMA FramesKeepRecordings ==
  ASSUME IInv, EnterCalc \/ ResetProcessed \/ ScheduleNext \/ StoppedCurrent \/ SkippedNext
  PROVE  KeepsRecordings
<1>1. CASE EnterCalc
  BY <1>1 DEF EnterCalc, KeepsRecordings
<1>2. CASE ScheduleNext
  BY <1>2 DEF ScheduleNext, KeepsRecordings
<1>3. CASE ResetProcessed
  <2>1. ASSUME NEW x \in Timers, NEW st,
               AddTimerEntry([tm EXCEPT ![x] = ResetState(@)], x, timer_list, processed, st, TRUE)
        PROVE  SameServices(tm, tm')
    <3> DEFINE m == [tm EXCEPT ![x] = ResetState(tm[x])]
    <3>1. AddTimerEntry(m, x, timer_list, processed, st, TRUE)
      BY <2>1
    <3>2. SameService(ResetState(tm[x]), tm[x])
      BY ResetEntry DEF IInv
    <3>3. m \in [Timers -> TimerEntry] /\ SameServices(tm, m)
      BY <3>2 DEF IInv, SameService, SameServices
    <3> HIDE DEF m
    <3>4. SameServices(m, tm')
      BY <3>1, <3>3, AddedServices DEF IInv, Clocks
    <3> QED BY <3>3, <3>4 DEF SameServices
  <2>2. tm' = tm => SameServices(tm, tm')
    BY DEF SameServices
  <2> QED BY <1>3, <2>1, <2>2 DEF ResetProcessed, SameServices, KeepsRecordings
<1>4. CASE StoppedCurrent
  <2>1. /\ Top.x \in Timers /\ UNCHANGED svc /\ tm[Top.x] \in TimerEntry
        /\ TimeChanged([tm EXCEPT ![Top.x].disabled = @ \/ In("disable")], Top.x, Return)
    BY <1>4, Returning DEF StoppedCurrent, In, FrameOK, NeedsEntry, IInv
  <2> DEFINE b == tm[Top.x].disabled \/ In("disable")
             q == [tm[Top.x] EXCEPT !.disabled = b]
  <2>2. SameService(q, tm[Top.x])
    <3>1. b \in BOOLEAN
      OBVIOUS
    <3> HIDE DEF b
    <3> QED BY <2>1, <3>1, WrittenServices
  <2>3. TimeChanged([tm EXCEPT ![Top.x] = q], Top.x, Return)
    BY <2>1
  <2> HIDE DEF q
  <2> QED BY <2>1, <2>2, <2>3, ChangedEntry
<1>5. CASE SkippedNext
  <2> DEFINE r == ProcessRepeated(tm[Top.x], tm[Top.x].end + 1, TRUE)
             q == [r EXCEPT !.disabled = FALSE]
  <2>1. /\ Top.x \in Timers /\ UNCHANGED svc /\ tm[Top.x] \in TimerEntry
        /\ TimeChanged([tm EXCEPT ![Top.x] = q], Top.x, Return)
    BY <1>5, Returning DEF SkippedNext, In, FrameOK, NeedsEntry, IInv
  <2>2. tm[Top.x].end + 1 \in Int
    BY <2>1 DEF TimerEntry
  <2>3. SameService(r, tm[Top.x])
    BY <2>1, <2>2, RepeatedEntry
  <2> HIDE DEF r
  <2>4. SameService(q, r)
    BY <2>3, WrittenServices DEF SameService
  <2>5. SameService(q, tm[Top.x])
    BY <2>3, <2>4 DEF SameService
  <2> HIDE DEF q
  <2> QED BY <2>1, <2>5, ChangedEntry
<1> QED BY <1>1, <1>2, <1>3, <1>4, <1>5

LEMMA FinishRecordings ==
  ASSUME IInv, LInv, "rename" \notin Env, Finish
  PROVE  KeepsRecordings
<1>1. ASSUME NEW y \in Timers, NEW st,
             TimeChanged([tm EXCEPT ![y].state = Waiting], y, st), UNCHANGED svc
      PROVE  KeepsRecordings
  <2> DEFINE q == [tm[y] EXCEPT !.state = Waiting]
  <2>1. SameService(q, tm[y])
    BY WrittenServices DEF IInv
  <2>2. TimeChanged([tm EXCEPT ![y] = q], y, st)
    BY <1>1
  <2> HIDE DEF q
  <2> QED BY <1>1, <2>1, <2>2, ChangedEntry
<1>2. ASSUME tm' = [y \in Timers |->
                      IF IsProcessed(y) /\ y # Top.x
                      THEN IF Kept(y) THEN Skipped(tm[y]) ELSE Fresh
                      ELSE tm[y]],
             UNCHANGED svc
      PROVE  KeepsRecordings
  <2> SUFFICES ASSUME NEW y \in Timers, tm[y].rs # None PROVE tm'[y].rs = tm[y].rs
    BY <1>2 DEF KeepsRecordings
  <2>1. ~IsProcessed(y)
    BY DoneUnrecorded DEF IInv, Homes, IsProcessed, InList
  <2> QED BY <1>2, <2>1
<1> QED BY <1>1, <1>2 DEF Finish

LEMMA RemoveEntryRecordings ==
  ASSUME IInv, LInv, "rename" \notin Env, RemoveEntry
  PROVE  KeepsRecordings
<1>1. Top.x \in Timers /\ UNCHANGED svc
  BY Returning DEF RemoveEntry, In, FrameOK, NeedsEntry
<1>2. ASSUME NEW y \in Timers, NEW st, NEW end \in {now + 1, now + AutoTime},
             TimeChanged([tm EXCEPT ![y].end = end], y, st)
      PROVE  KeepsRecordings
  <2> DEFINE q == [tm[y] EXCEPT !.end = end]
  <2>1. end \in Int /\ tm[y] \in TimerEntry
    BY Times DEF IInv, Clocks
  <2>2. SameService(q, tm[y])
    BY <2>1, WrittenServices
  <2>3. TimeChanged([tm EXCEPT ![y] = q], y, st)
    BY <1>2
  <2> HIDE DEF q
  <2> QED BY <1>1, <2>2, <2>3, ChangedEntry
<1>3. tm' = tm => KeepsRecordings
  BY <1>1 DEF KeepsRecordings
<1>4. IsProcessed(Top.x) /\ tm' = [tm EXCEPT ![Top.x] = Fresh] => KeepsRecordings
  <2>1. IsProcessed(Top.x) => tm[Top.x].rs = None
    BY <1>1, DoneUnrecorded DEF IInv, Homes, IsProcessed, InList
  <2> QED BY <1>1, <2>1 DEF KeepsRecordings, IInv
<1>5. \A j \in DOMAIN timer_list : timer_list[j] \in Timers
  BY DEF IInv, Homes
<1> QED BY <1>2, <1>3, <1>4, <1>5 DEF RemoveEntry, Raise

\* The events that activate nothing.
LEMMA EventsKeepRecordings ==
  ASSUME Undisturbed, IInv, LInv, "rename" \notin Env, NEW x \in Timers,
         \/ UserRemoves(x) \/ RecordingAborted(x) \/ UserDisables(x) \/ UserEnables(x)
         \/ UserSkipsNext(x) \/ UserEdits(x) \/ UserMovesEnd(x)
  PROVE  KeepsRecordings
<1>1. tm[x] \in TimerEntry /\ now \in Nat /\ UNCHANGED svc
  BY DEF IInv, Clocks, UserRemoves, RecordingAborted, UserDisables, UserEnables,
         UserSkipsNext, UserEdits, UserMovesEnd
<1>2. ASSUME NEW q, SameService(q, tm[x]), NEW st,
             \/ TimeChanged([tm EXCEPT ![x] = q], x, st)
             \/ tm' = [tm EXCEPT ![x] = q]
      PROVE  KeepsRecordings
  <2>1. tm' = [tm EXCEPT ![x] = q] => KeepsRecordings
    BY <1>1, <1>2 DEF KeepsRecordings, SameService, IInv
  <2> QED BY <1>1, <1>2, <2>1, ChangedEntry
<1>3. CASE BeginRemoval(x)
  <2> DEFINE r == [tm[x] EXCEPT !.repeated = FALSE, !.auto = FALSE]
  <2>1. SameService(r, tm[x])
    BY <1>1, WrittenServices
  <2>2. \/ TimeChanged([tm EXCEPT ![x] = Abort(r)], x, <<Call("remove", x, Nobody)>>)
        \/ tm' = [tm EXCEPT ![x] = Abort(r)]
    BY <1>3 DEF BeginRemoval
  <2> HIDE DEF r
  <2>3. SameService(Abort(r), tm[x])
    BY <1>1, <2>1, AbortedEntry DEF SameService
  <2> QED BY <1>2, <2>2, <2>3
<1>4. ASSUME NEW b \in BOOLEAN, NEW st, TimeChanged([tm EXCEPT ![x].disabled = b], x, st)
      PROVE  KeepsRecordings
  <2> DEFINE q == [tm[x] EXCEPT !.disabled = b]
  <2>1. SameService(q, tm[x])
    BY <1>1, WrittenServices
  <2>2. TimeChanged([tm EXCEPT ![x] = q], x, st)
    BY <1>4
  <2> HIDE DEF q
  <2> QED BY <1>2, <2>1, <2>2
<1>5. CASE UserEdits(x)
  <2>1. PICK begin \in {now, now + Ahead}, length \in Lengths,
             repeated \in BOOLEAN, justplay \in BOOLEAN :
          TimeChanged([tm EXCEPT ![x] = Edited(@, begin, begin + length, repeated,
                                               justplay)], x, <<>>)
    BY <1>5 DEF UserEdits, InPlace, Undisturbed
  <2> DEFINE q == Edited(tm[x], begin, begin + length, repeated, justplay)
  <2>2. begin \in Int /\ begin + length \in Int
    BY <1>1, Times
  <2>3. SameService(q, tm[x])
    BY <1>1, <2>2, WrittenServices DEF Edited
  <2>4. TimeChanged([tm EXCEPT ![x] = q], x, <<>>)
    BY <2>1
  <2> HIDE DEF q
  <2> QED BY <1>2, <2>3, <2>4
<1>6. CASE UserMovesEnd(x)
  <2>1. PICK end \in {now, now + Ahead} :
          TimeChanged([tm EXCEPT ![x].end = end, ![x].auto = FALSE], x, <<>>)
    BY <1>6 DEF UserMovesEnd
  <2> DEFINE q == [tm[x] EXCEPT !.end = end, !.auto = FALSE]
  <2>2. end \in Int
    BY <1>1, Times
  <2>3. SameService(q, tm[x])
    BY <1>1, <2>2, WrittenServices
  <2>4. [tm EXCEPT ![x].end = end, ![x].auto = FALSE] = [tm EXCEPT ![x] = q]
    BY DEF IInv
  <2> HIDE DEF q
  <2> QED BY <1>2, <2>1, <2>3, <2>4
<1> QED BY <1>3, <1>4, <1>5, <1>6 DEF UserRemoves, RecordingAborted, UserDisables,
           UserEnables, UserSkipsNext

LEMMA RecordRecordings ==
  ASSUME IInv, LInv, "rename" \notin Env, NEW x \in Timers, Record(x)
  PROVE  KeepsRecordings
<1>1. PICK begin \in now - 1 .. now + Ahead, length \in Lengths,
        repeated \in BOOLEAN, justplay \in BOOLEAN, auto \in BOOLEAN :
       /\ begin + length <= MaxTime
       /\ repeated => "repeated" \in Env
       /\ justplay => "justplay" \in Env
       /\ auto => x \in Instant /\ ~repeated /\ ~justplay
       /\ AddTimerEntry([tm EXCEPT ![x] = TimeMoved([Fresh EXCEPT !.begin = begin,
                            !.end = begin + length, !.repeated = repeated,
                            !.justplay = justplay, !.auto = auto])],
                        x, timer_list, processed, <<>>, FALSE)
  BY Zenon DEF Record
<1> DEFINE r == [Fresh EXCEPT !.begin = begin, !.end = begin + length,
                              !.repeated = repeated, !.justplay = justplay, !.auto = auto]
           q == TimeMoved(r)
           m == [tm EXCEPT ![x] = q]
<1>2. begin \in Int /\ begin + length \in Int /\ now \in Nat
  BY Times DEF IInv, Clocks
<1>3. SameService(r, Fresh)
  BY <1>2, FreshEntry DEF TimerEntry, SameService
<1> HIDE DEF r
<1>4. SameService(q, Fresh)
  BY <1>3, TimeMovedEntry DEF SameService
<1>5. AddTimerEntry(m, x, timer_list, processed, <<>>, FALSE)
  BY <1>1 DEF r
<1> HIDE DEF q
<1>6. m \in [Timers -> TimerEntry] /\ \A y \in Timers : y # x => m[y].rs = tm[y].rs
  BY <1>4 DEF IInv, SameService
<1> HIDE DEF m
<1>7. SameServices(m, tm')
  BY <1>2, <1>5, <1>6, AddedServices
<1>8. tm[x].rs = None /\ UNCHANGED svc
  BY DoneUnrecorded DEF Record, Live
<1> QED BY <1>6, <1>7, <1>8 DEF SameServices, KeepsRecordings

LEMMA UserCleansUpRecordings ==
  ASSUME IInv, LInv, "rename" \notin Env, UserCleansUp
  PROVE  KeepsRecordings
<1> SUFFICES ASSUME NEW y \in Timers, tm[y].rs # None PROVE tm'[y].rs = tm[y].rs
  BY DEF UserCleansUp, KeepsRecordings
<1>1. ~IsProcessed(y)
  BY DoneUnrecorded DEF IInv, Homes, IsProcessed, InList
<1> QED BY <1>1 DEF UserCleansUp

LEMMA SettledServices ==
  ASSUME IInv, NEW q \in TimerEntry, NEW x \in Timers, InList(x), NEW st, Settle(q, x, st)
  PROVE  SameServices([tm EXCEPT ![x] = q], tm')
<1> DEFINE n == NextOccurrence(q)
           w == [n EXCEPT !.state = Waiting]
           m == [tm EXCEPT ![x] = w]
<1>1. now \in Nat /\ tm \in [Timers -> TimerEntry]
  BY DEF IInv, Clocks
<1>2. n \in TimerEntry /\ n.rs = q.rs
  BY <1>1, NextOccurrenceEntry DEF SameService
<1> HIDE DEF n
<1>3. w \in TimerEntry /\ w.rs = q.rs
  BY <1>2, StateNames DEF TimerEntry
<1> HIDE DEF w
<1>4. m \in [Timers -> TimerEntry] /\ SameServices([tm EXCEPT ![x] = q], m)
  BY <1>1, <1>3 DEF SameServices
<1> HIDE DEF m
<1>5. ASSUME NEW tl, NEW pr, AddTimerEntry(m, x, tl, pr, st, FALSE)
      PROVE  SameServices([tm EXCEPT ![x] = q], tm')
  <2>1. SameServices(m, tm')
    BY <1>1, <1>4, <1>5, AddedServices
  <2> QED BY <1>4, <2>1 DEF SameServices
<1>6. tm' = [tm EXCEPT ![x] = q] => SameServices([tm EXCEPT ![x] = q], tm')
  BY DEF SameServices
<1> QED BY <1>5, <1>6 DEF Settle, m, w, n

\* doActivate registers the service it gives the entry, and unregisters the one it takes.
LEMMA ActivationRecorded ==
  ASSUME Undisturbed, "rename" \notin Env, IInv, Recorded(tm, svc),
         NEW x \in Timers, InList(x), NEW r, Startable(r), r.rs = tm[x].rs,
         NEW st, DoActivate(r, x, st)
  PROVE  Recorded(tm', svc')
<1>1. /\ now \in Nat /\ svc \in [Services -> SvcStates] /\ r \in TimerEntry
      /\ tm \in [Timers -> TimerEntry] /\ None \notin Services
      /\ r.rs \in Services \cup {None}
  BY NoneAssumption DEF IInv, Clocks, Startable, TimerEntry
<1>2. PICK q \in TimerEntry : Activating(r, q) /\ Settle(q, x, st)
  BY <1>1, ActivatingEntry
<1>3. /\ tm'[x].rs = q.rs
      /\ \A y \in Timers : y # x => tm'[y].rs = tm[y].rs
  <2>1. SameServices([tm EXCEPT ![x] = q], tm')
    BY <1>2, SettledServices
  <2> QED BY <1>1, <2>1 DEF SameServices
<1> SUFFICES ASSUME NEW s \in Services, svc'[s] # "none"
             PROVE  \E y \in Timers : tm'[y].rs = s
  BY DEF Recorded
<1>4. ASSUME svc[s] # "none", tm[x].rs # s
      PROVE  \E y \in Timers : tm'[y].rs = s
  BY <1>3, <1>4 DEF Recorded
<1>5. CASE svc' = svc /\ q.rs = r.rs
  BY <1>3, <1>4, <1>5
<1>6. ASSUME NEW t \in Services, svc' = [svc EXCEPT ![t] = "prepared"], r.rs = None, q.rs = t
      PROVE  \E y \in Timers : tm'[y].rs = s
  BY <1>1, <1>3, <1>4, <1>6
<1>7. CASE svc' = [svc EXCEPT ![r.rs] = "running"] /\ r.rs # None /\ q.rs = r.rs
  BY <1>1, <1>3, <1>4, <1>7
<1>8. CASE svc' = [svc EXCEPT ![r.rs] = "none"] /\ r.rs # None /\ q.rs = None
  BY <1>1, <1>3, <1>4, <1>8
<1> QED BY <1>2, <1>5, <1>6, <1>7, <1>8 DEF Activating, Recording

LEMMA ActivationsRecorded ==
  ASSUME Undisturbed, "rename" \notin Env, IInv, LInv, Recorded(tm, svc), NEW x \in Timers,
         \/ IsDue(x) /\ DoActivate(tm[x], x, stack)
         \/ RecordingEnds(x)
         \/ UserStopsEvent(x)
  PROVE  Recorded(tm', svc')
<1>1. CASE IsDue(x) /\ DoActivate(tm[x], x, stack)
  BY <1>1, DueStartable, ActivationRecorded
<1> DEFINE r == ProcessRepeated([tm[x] EXCEPT !.disabled = FALSE], now + 1, FALSE)
<1>2. InList(x) /\ tm[x].state = Running => Startable(r) /\ r.rs = tm[x].rs
  BY EndingStartable, EndedRecording DEF SameService
<1>3. ASSUME NEW st, InList(x), tm[x].state = Running, DoActivate(r, x, st)
      PROVE  Recorded(tm', svc')
  <2> HIDE DEF r
  <2> QED BY <1>2, <1>3, ActivationRecorded
<1>4. CASE RecordingEnds(x)
  <2>1. InList(x) /\ tm[x].state = Running /\ ~tm[x].disabled /\ tm[x].disabled \in BOOLEAN
    BY <1>4 DEF RecordingEnds, LInv, Rests, Stored, InList, Listed, IInv, TimerEntry
  <2>2. PICK b \in {tm[x].disabled} \cup (IF tm[x].repeated THEN {FALSE} ELSE {}) :
          DoActivate(ProcessRepeated([tm[x] EXCEPT !.disabled = b], now + 1, FALSE), x, <<>>)
    BY <1>4 DEF RecordingEnds
  <2>3. b = FALSE
    BY <2>1, <2>2
  <2> QED BY <1>3, <2>1, <2>2, <2>3
<1>5. CASE UserStopsEvent(x)
  <2>1. InList(x) /\ tm[x].state = Running
    BY <1>5 DEF UserStopsEvent
  <2>2. ASSUME NEW st, TimeChanged([tm EXCEPT ![x].disabled = TRUE], x, st), UNCHANGED svc
        PROVE  Recorded(tm', svc')
    <3> DEFINE q == [tm[x] EXCEPT !.disabled = TRUE]
    <3>1. SameService(q, tm[x])
      BY WrittenServices DEF IInv
    <3>2. TimeChanged([tm EXCEPT ![x] = q], x, st)
      BY <2>2
    <3> HIDE DEF q
    <3> QED BY <2>2, <3>1, <3>2, ChangedEntry, KeepsRecorded
  <2> QED BY <1>3, <1>5, <2>1, <2>2 DEF UserStopsEvent
<1> QED BY <1>1, <1>4, <1>5

LEMMA NextRecorded ==
  ASSUME Undisturbed, "rename" \notin Env
  PROVE  IInv /\ LInv /\ Recorded(tm, svc) /\ [Next]_vars => Recorded(tm', svc')
<1> SUFFICES ASSUME IInv, LInv, Recorded(tm, svc), [Next]_vars PROVE Recorded(tm', svc')
  OBVIOUS
<1>1. CASE ActivateHead
  BY <1>1, ActivationsRecorded DEF ActivateHead
<1>2. CASE Step /\ ~ActivateHead
  BY <1>2, FramesKeepRecordings, FinishRecordings, RemoveEntryRecordings, KeepsRecorded DEF Step
<1>3. CASE TimerFires \/ Tick \/ UNCHANGED vars
  BY <1>3, KeepsRecorded DEF TimerFires, Tick, vars, KeepsRecordings
<1>4. CASE UserCleansUp
  BY <1>4, UserCleansUpRecordings, KeepsRecorded
<1>5. CASE ClockSet
  BY <1>5 DEF ClockSet, Undisturbed
<1>6. ASSUME NEW x \in Timers, User(x) PROVE Recorded(tm', svc')
  <2>1. CASE RecordingEnds(x) \/ UserStopsEvent(x)
    BY <2>1, ActivationsRecorded
  <2>2. CASE Record(x)
    BY <2>2, RecordRecordings, KeepsRecorded
  <2> QED BY <1>6, <2>1, <2>2, EventsKeepRecordings, KeepsRecorded DEF User
<1> QED BY <1>1, <1>2, <1>3, <1>4, <1>5, <1>6 DEF Next

LEMMA RecordedReachable ==
  ASSUME "rename" \notin Env, LInv, Recorded(tm, svc)
  PROVE  NoOrphan
<1> SUFFICES ASSUME NEW s \in Services, svc[s] # "none"
             PROVE  \E x \in Timers : /\ InList(x) /\ tm[x].rs = s
                                      /\ tm[x].state \in {Prepared, Running}
  BY DEF NoOrphan
<1>1. PICK x \in Timers : tm[x].rs = s
  BY DEF Recorded
<1>2. Stored(tm, timer_list, processed, stack, x) /\ tm[x].rs # None
  BY <1>1, NoneAssumption DEF LInv, Rests
<1> QED BY <1>1, <1>2 DEF Stored, Unrecorded, Active, InList

\* While users and the clock keep out of what is being recorded, and preparing a recording
\* fails only before it has a service, no recording is forgotten: whatever the navigation
\* core prepares or records (Navigation.py, lib/nav/core.cpp) belongs to an entry that is
\* prepared or running and that doActivate finds in timer_list to stop it.  A repeated
\* timer whose file cannot be renamed (RecordTimer.py:273) keeps a service while it
\* waits: that is the exception.
THEOREM NoOrphanAlways ==
  ASSUME Undisturbed, "rename" \notin Env
  PROVE  Spec => []NoOrphan
<1>1. IInv /\ LInv /\ Recorded(tm, svc) /\ [Next]_vars => (IInv /\ LInv /\ Recorded(tm, svc))'
  <2>1. IInv /\ LInv /\ [Next]_vars => (IInv /\ LInv)'
    BY NextIInv, NextLInv
  <2>2. IInv /\ LInv /\ Recorded(tm, svc) /\ [Next]_vars => Recorded(tm, svc)'
    BY NextRecorded DEF Recorded
  <2> QED BY <2>1, <2>2
<1>2. Init => IInv /\ LInv /\ Recorded(tm, svc)
  BY InitIInv, InitLInv DEF Init, Recorded
<1>3. IInv /\ LInv /\ Recorded(tm, svc) => NoOrphan
  BY RecordedReachable
<1> QED BY <1>1, <1>2, <1>3, PTL DEF Spec

=============================================================================
