------------------------------ MODULE EpgProofs ------------------------------
(***************************************************************************)
(* What holds of the EPG cache for any number of channels, events and      *)
(* sources.                                                                *)
(***************************************************************************)
EXTENDS EpgChannels, FiniteSetTheorems, TLAPS

-----------------------------------------------------------------------------
(* The store *)

\* MapsAgree, of any two maps.
Agree(events, times) ==
  /\ \A i \in Ids : events[i] # NoEvent =>
       events[i].id = i /\ times[events[i].start] = events[i]
  /\ \A t \in Times : times[t] # NoEvent =>
       times[t].start = t /\ events[times[t].id] = times[t]

EventMap == [Ids -> Event \cup {NoEvent}]
TimeMap == [Times -> Event \cup {NoEvent}]

LEMMA EventFields ==
  ASSUME NEW e \in Event
  PROVE  /\ e # NoEvent /\ e.id \in Ids /\ e.start \in Times /\ e.dur \in Durations
         /\ e.type \in 0 .. 255 /\ e.dur \in Nat /\ e.start \in Nat
<1>1. DOMAIN e # DOMAIN NoEvent
  <2>1. DOMAIN e = {"id", "start", "dur", "type"}
    BY DEF Event
  <2>2. DOMAIN NoEvent = {"id"}
    BY DEF NoEvent
  <2>3. "dur" \notin {"id"}
    OBVIOUS
  <2> QED BY <2>1, <2>2, <2>3
<1>2. /\ e.id \in Ids /\ e.start \in Times /\ e.dur \in Durations /\ e.type \in 0 .. 255
  BY DEF Event
<1>3. e.dur \in Nat
  BY <1>2, StoreAssumption
<1>4. e.start \in Nat
  BY <1>2 DEF Times
<1> QED BY <1>1, <1>2, <1>3, <1>4

DeletedEvents(events, times, gone) ==
  [i \in Ids |-> IF \E t \in gone : times[t].id = i THEN NoEvent ELSE events[i]]
DeletedTimes(times, gone) == [t \in Times |-> IF t \in gone THEN NoEvent ELSE times[t]]

\* Events that go from both maps leave them in agreement, and take no other with them.
LEMMA Deletion ==
  ASSUME NEW events \in EventMap, NEW times \in TimeMap, Agree(events, times),
         NEW gone, \A t \in gone : t \in Times /\ times[t] # NoEvent,
         NEW ev, ev = DeletedEvents(events, times, gone)
  PROVE  /\ ev \in EventMap /\ DeletedTimes(times, gone) \in TimeMap
         /\ Agree(ev, DeletedTimes(times, gone))
         /\ \A i \in Ids : events[i] # NoEvent /\ ev[i] # events[i] => events[i].start \in gone
         /\ \A i \in Ids : events[i] # NoEvent /\ events[i].start \notin gone => ev[i] = events[i]
<1> DEFINE tm == DeletedTimes(times, gone)
<1>0. /\ ev = [i \in Ids |-> IF \E t \in gone : times[t].id = i THEN NoEvent ELSE events[i]]
      /\ tm = [t \in Times |-> IF t \in gone THEN NoEvent ELSE times[t]]
  BY DEF DeletedEvents, DeletedTimes
<1> HIDE DEF tm
<1>1. ev \in EventMap /\ tm \in TimeMap
  BY <1>0 DEF EventMap, TimeMap
<1>2. \A t \in gone : /\ times[t].start = t /\ times[t].id \in Ids
                      /\ events[times[t].id] = times[t]
  BY EventFields DEF Agree, TimeMap
<1>3. ASSUME NEW i \in Ids, events[i] # NoEvent
      PROVE  /\ events[i].id = i /\ events[i].start \in Times /\ times[events[i].start] = events[i]
             /\ (\E t \in gone : times[t].id = i) <=> events[i].start \in gone
  <2>1. events[i].id = i /\ events[i].start \in Times /\ times[events[i].start] = events[i]
    BY <1>3, EventFields DEF Agree, EventMap
  <2>2. ASSUME NEW t \in gone, times[t].id = i PROVE events[i].start \in gone
    BY <1>2, <2>2
  <2>3. ASSUME events[i].start \in gone PROVE \E t \in gone : times[t].id = i
    BY <2>1, <2>3
  <2> QED BY <2>1, <2>2, <2>3
<1>4. ASSUME NEW i \in Ids, ev[i] # NoEvent
      PROVE  ev[i].id = i /\ tm[ev[i].start] = ev[i]
  <2>1. ev[i] = events[i] /\ ~\E t \in gone : times[t].id = i
    BY <1>0, <1>4
  <2>2. /\ events[i] # NoEvent /\ events[i].id = i /\ events[i].start \in Times
        /\ times[events[i].start] = events[i] /\ events[i].start \notin gone
    BY <1>3, <1>4, <2>1
  <2> QED BY <1>0, <2>1, <2>2
<1>5. ASSUME NEW t \in Times, tm[t] # NoEvent
      PROVE  tm[t].start = t /\ ev[tm[t].id] = tm[t]
  <2>1. t \notin gone /\ tm[t] = times[t]
    BY <1>0, <1>5
  <2>2. times[t].start = t /\ times[t].id \in Ids /\ events[times[t].id] = times[t]
    BY <1>5, <2>1, EventFields DEF Agree, TimeMap
  <2>3. ~\E u \in gone : times[u].id = times[t].id
    BY <1>2, <2>1, <2>2
  <2> QED BY <1>0, <2>1, <2>2, <2>3
<1>5a. ASSUME NEW i \in Ids, events[i] # NoEvent
       PROVE  ev[i] # events[i] <=> events[i].start \in gone
  BY <1>0, <1>3, <1>5a
<1>6. /\ \A i \in Ids : events[i] # NoEvent /\ ev[i] # events[i] => events[i].start \in gone
      /\ \A i \in Ids : events[i] # NoEvent /\ events[i].start \notin gone => ev[i] = events[i]
  BY <1>5a
<1>7. Agree(ev, tm)
  BY <1>4, <1>5 DEF Agree
<1>8. tm = DeletedTimes(times, gone)
  BY DEF tm
<1> QED BY ONLY <1>1, <1>7, <1>8, <1>6

\* What has the id or the start of a new event makes room for it.
LEMMA Replacement ==
  ASSUME NEW events \in EventMap, NEW times \in TimeMap, Agree(events, times), NEW e \in Event,
         NEW ev, ev = [i \in Ids |-> IF i = e.id THEN e
                         ELSE IF times[e.start] # NoEvent /\ times[e.start].id = i THEN NoEvent
                         ELSE events[i]],
         NEW tm, tm = [t \in Times |-> IF t = e.start THEN e
                         ELSE IF events[e.id] # NoEvent /\ events[e.id].start = t THEN NoEvent
                         ELSE times[t]]
  PROVE  ev \in EventMap /\ tm \in TimeMap /\ Agree(ev, tm)
<1>0. e.id \in Ids /\ e.start \in Times /\ e # NoEvent
  BY EventFields
<1>1. ev \in EventMap /\ tm \in TimeMap
  BY DEF EventMap, TimeMap
<1>2. ASSUME NEW i \in Ids, ev[i] # NoEvent
      PROVE  ev[i].id = i /\ tm[ev[i].start] = ev[i]
  <2>1. CASE i = e.id
    BY <2>1, <1>0
  <2>2. CASE i # e.id
    <3>1. ev[i] = events[i] /\ ~(times[e.start] # NoEvent /\ times[e.start].id = i)
      BY <1>2, <2>2
    <3>2. /\ events[i].id = i /\ events[i].start \in Times
          /\ times[events[i].start] = events[i]
      BY <1>2, <3>1, EventFields DEF Agree, EventMap
    <3>3. events[i].start # e.start
      BY <1>2, <3>1, <3>2
    <3>4. ~(events[e.id] # NoEvent /\ events[e.id].start = events[i].start)
      <4> SUFFICES ASSUME events[e.id] # NoEvent, events[e.id].start = events[i].start
                   PROVE  FALSE
        OBVIOUS
      <4>1. events[e.id].id = e.id /\ times[events[e.id].start] = events[e.id]
        BY <1>0 DEF Agree
      <4> QED BY <2>2, <3>2, <4>1
    <3> QED BY <3>1, <3>2, <3>3, <3>4
  <2> QED BY <2>1, <2>2
<1>3. ASSUME NEW t \in Times, tm[t] # NoEvent
      PROVE  tm[t].start = t /\ ev[tm[t].id] = tm[t]
  <2>1. CASE t = e.start
    BY <2>1, <1>0
  <2>2. CASE t # e.start
    <3>1. tm[t] = times[t] /\ ~(events[e.id] # NoEvent /\ events[e.id].start = t)
      BY <1>3, <2>2
    <3>2. /\ times[t].start = t /\ times[t].id \in Ids
          /\ events[times[t].id] = times[t]
      BY <1>3, <3>1, EventFields DEF Agree, TimeMap
    <3>3. times[t].id # e.id
      BY <1>3, <3>1, <3>2
    <3>4. ~(times[e.start] # NoEvent /\ times[e.start].id = times[t].id)
      <4> SUFFICES ASSUME times[e.start] # NoEvent, times[e.start].id = times[t].id
                   PROVE  FALSE
        OBVIOUS
      <4>1. times[e.start].start = e.start /\ events[times[e.start].id] = times[e.start]
        BY <1>0 DEF Agree
      <4> QED BY <2>2, <3>2, <4>1
    <3> QED BY <3>1, <3>2, <3>3, <3>4
  <2> QED BY <2>1, <2>2
<1> QED BY <1>1, <1>2, <1>3 DEF Agree

StoreOK == byEvent \in EventMap /\ byTime \in TimeMap /\ Agree(byEvent, byTime)

\* One event of a section: nothing goes but for it.
LEMMA Filed ==
  ASSUME StoreOK, NEW n \in Event, File(n)
  PROVE  /\ StoreOK'
         /\ \A e \in Events \ Events' : \E m \in Events' : Displaces(m, e)
<1> DEFINE events == [i \in Ids |-> IF i = n.id THEN n
                         ELSE IF byTime[n.start] # NoEvent /\ byTime[n.start].id = i THEN NoEvent
                         ELSE byEvent[i]]
           times == [t \in Times |-> IF t = n.start THEN n
                         ELSE IF byEvent[n.id] # NoEvent /\ byEvent[n.id].start = t THEN NoEvent
                         ELSE byTime[t]]
           gone == Overlapped(times, n)
<1>1. events \in EventMap /\ times \in TimeMap /\ Agree(events, times)
  BY Replacement DEF StoreOK
<1>2. byTime' = DeletedTimes(times, gone) /\ byEvent' = DeletedEvents(events, times, gone)
  BY DEF File, DeletedTimes, DeletedEvents
<1>3. /\ events[n.id] = n
      /\ \A i \in Ids : events[i] # byEvent[i] =>
           i = n.id \/ (byTime[n.start] # NoEvent /\ byTime[n.start].id = i)
  BY EventFields
<1>4. \A t \in gone : /\ t \in Times /\ times[t] # NoEvent
                      /\ \/ t < n.start /\ ReachesInto(times[t], n) /\ ReachesInto(times[n.start], n)
                         \/ n.start < t /\ t < n.start + n.dur - 1
  <2>1. times[n.start] = n /\ n.start \in Times
    BY EventFields
  <2> HIDE DEF times
  <2> SUFFICES ASSUME NEW t \in gone
               PROVE  /\ t \in Times /\ times[t] # NoEvent
                      /\ \/ t < n.start /\ ReachesInto(times[t], n) /\ ReachesInto(times[n.start], n)
                         \/ n.start < t /\ t < n.start + n.dur - 1
    OBVIOUS
  <2>2. /\ t \in Times /\ times[t] # NoEvent
        /\ \/ t < n.start /\ \A u \in Times : times[u] # NoEvent => (t =< u /\ u =< n.start => ReachesInto(times[u], n))
           \/ n.start < t /\ t < n.start + n.dur - 1
    BY DEF Overlapped
  <2>3. ASSUME t < n.start, \A u \in Times : times[u] # NoEvent => (t =< u /\ u =< n.start => ReachesInto(times[u], n))
        PROVE  ReachesInto(times[t], n) /\ ReachesInto(times[n.start], n)
    <3>1. n # NoEvent /\ n.start \in Nat /\ t \in Nat
      BY <2>1, <2>2, EventFields, StoreAssumption DEF Times
    <3>2. t =< t /\ t =< n.start /\ n.start =< n.start
      BY <2>3, <3>1
    <3> QED BY <2>1, <2>2, <2>3, <3>1, <3>2
  <2> QED BY <2>2, <2>3
<1> HIDE DEF events, times, gone
<1>5. /\ byEvent' \in EventMap /\ byTime' \in TimeMap /\ Agree(byEvent', byTime')
      /\ \A i \in Ids : events[i] # NoEvent /\ byEvent'[i] # events[i] => events[i].start \in gone
      /\ \A i \in Ids : events[i] # NoEvent /\ events[i].start \notin gone => byEvent'[i] = events[i]
  <2>1. \A t \in gone : t \in Times /\ times[t] # NoEvent
    BY <1>4
  <2> QED BY ONLY <1>1, <1>2, <2>1, Deletion
<1>6. n \in Events'
  <2>1. n.id \in Ids /\ n # NoEvent /\ n.start \in Nat
    BY EventFields
  <2>2. n.start \notin gone
    BY <1>4, <2>1
  <2>3. byEvent'[n.id] = n
    BY <1>3, <1>5, <2>1, <2>2
  <2> QED BY <2>1, <2>3 DEF Events
<1>7. ASSUME NEW e \in Events \ Events' PROVE Displaces(n, e)
  <2>1. PICK i \in Ids : byEvent[i] = e /\ e # NoEvent
    BY <1>7 DEF Events
  <2>2. byEvent'[i] # e
    BY <1>7, <2>1 DEF Events
  <2>3. e.id = i /\ byTime[e.start] = e /\ e \in Event
    BY <2>1 DEF StoreOK, Agree, EventMap
  <2>4. CASE events[i] # byEvent[i]
    <3>1. CASE i = n.id
      BY <2>3, <3>1 DEF Displaces
    <3>2. CASE byTime[n.start] # NoEvent /\ byTime[n.start].id = i
      <4>1. byTime[n.start].start = n.start /\ byEvent[i] = byTime[n.start]
        BY <3>2, EventFields DEF StoreOK, Agree
      <4> QED BY <2>1, <4>1 DEF Displaces
    <3> QED BY <2>4, <1>3, <3>1, <3>2
  <2>5. CASE events[i] = byEvent[i]
    <3>1. e.start \in gone /\ events[i] = e
      BY <1>5, <2>1, <2>2, <2>5
    <3>2. times[e.start] = e
      BY <1>1, <2>1, <3>1 DEF Agree
    <3>3. e.start \in Nat /\ e.dur \in Nat /\ n.start \in Nat /\ n.dur \in Nat
      BY <2>3, EventFields
    <3> QED BY <1>4, <3>1, <3>2, <3>3 DEF Displaces, ReachesInto
  <2> QED BY <2>4, <2>5
<1> QED BY <1>5, <1>6, <1>7 DEF StoreOK

LeaveForCause == \A e \in Events \ Events' : Over(e, now) \/ \E n \in Events' : Displaces(n, e)

LEMMA StoreStays ==
  ASSUME StoreOK, UNCHANGED <<byEvent, byTime>>
  PROVE  StoreOK' /\ LeaveForCause
BY DEF StoreOK, LeaveForCause, Events

LEMMA SectionRead ==
  ASSUME StoreOK, NEW source \in Int, Section(source)
  PROVE  StoreOK' /\ LeaveForCause
<1>1. PICK id \in Ids, start \in Times, dur \in Durations : ReadEvent(id, start, dur, source)
  BY DEF Section
<1> DEFINE e == [id |-> id, start |-> start, dur |-> dur, type |-> StoredType(source)]
<1>2. e \in Event
  <2>1. StoredType(source) \in 0 .. 255
    BY DEF StoredType
  <2> QED BY <2>1 DEF Event
<1>3. UNCHANGED <<byEvent, byTime>> \/ File(e)
  BY <1>1 DEF ReadEvent
<1> HIDE DEF e
<1>4. CASE File(e)
  BY <1>2, <1>4, Filed DEF LeaveForCause
<1> QED BY <1>3, <1>4, StoreStays

LEMMA Cleaned ==
  ASSUME StoreOK, CleanLoop
  PROVE  StoreOK' /\ LeaveForCause
<1>1. /\ byTime' = DeletedTimes(byTime, Outdated)
      /\ byEvent' = DeletedEvents(byEvent, byTime, Outdated)
  BY DEF CleanLoop, DeletedTimes, DeletedEvents
<1>2. \A t \in Outdated : t \in Times /\ byTime[t] # NoEvent /\ Over(byTime[t], now)
  BY DEF Outdated
<1>3. \A t \in Outdated : t \in Times /\ byTime[t] # NoEvent
  BY <1>2
<1>4. byEvent \in EventMap /\ byTime \in TimeMap /\ Agree(byEvent, byTime)
  BY DEF StoreOK
<1>5. /\ byEvent' \in EventMap /\ byTime' \in TimeMap /\ Agree(byEvent', byTime')
      /\ \A i \in Ids : byEvent[i] # NoEvent /\ byEvent'[i] # byEvent[i] => byEvent[i].start \in Outdated
  BY ONLY <1>1, <1>3, <1>4, Deletion
<1>6. ASSUME NEW e \in Events \ Events' PROVE Over(e, now)
  <2>1. PICK i \in Ids : byEvent[i] = e /\ e # NoEvent
    BY <1>6 DEF Events
  <2>2. byEvent'[i] # e
    BY <1>6, <2>1 DEF Events
  <2>3. e.start \in Outdated /\ byTime[e.start] = e
    BY <1>4, <1>5, <2>1, <2>2 DEF Agree
  <2> QED BY <1>2, <2>3
<1> QED BY <1>5, <1>6 DEF StoreOK, LeaveForCause

LEMMA StoreSteps ==
  ASSUME StoreOK, [StoreNext]_store
  PROVE  StoreOK' /\ LeaveForCause
<1>1. CASE Import
  <2>1. EPG_IMPORT \in Int
    BY DEF EPG_IMPORT
  <2> QED BY <1>1, <2>1, SectionRead DEF Import
<1>2. ASSUME NEW s \in Sources, Section(s) PROVE StoreOK' /\ LeaveForCause
  <2>1. s \in Int
    BY StoreAssumption DEF Source, NOWNEXT, SCHEDULE, SCHEDULE_OTHER, VIASAT
  <2> QED BY <1>2, <2>1, SectionRead
<1>3. CASE Tick
  BY <1>3, StoreStays DEF Tick
<1>4. CASE UNCHANGED store
  BY <1>4, StoreStays DEF store
<1> QED BY <1>1, <1>2, <1>3, <1>4, Cleaned DEF StoreNext

LEMMA StoreInitially ==
  ASSUME StoreInit
  PROVE  StoreOK /\ now \in Times
<1>1. byEvent = [i \in Ids |-> NoEvent] /\ byTime = [t \in Times |-> NoEvent] /\ now = 0
  BY DEF StoreInit
<1>2. byEvent \in EventMap /\ byTime \in TimeMap
  BY <1>1 DEF EventMap, TimeMap
<1>3. Agree(byEvent, byTime)
  BY <1>1 DEF Agree
<1>4. 0 \in Times
  BY StoreAssumption DEF Times
<1> QED BY <1>1, <1>2, <1>3, <1>4 DEF StoreOK

LEMMA ClockStays ==
  ASSUME now \in Times, [StoreNext]_store
  PROVE  now' \in Times
<1>1. CASE Tick
  BY <1>1, StoreAssumption DEF Tick, Times
<1>2. CASE UNCHANGED now
  BY <1>2
<1> QED BY <1>1, <1>2 DEF StoreNext, Import, CleanLoop, store

LEMMA StoreInvariance == StoreSpec => [](StoreOK /\ now \in Times)
<1>1. StoreOK /\ now \in Times /\ [StoreNext]_store => (StoreOK /\ now \in Times)'
  BY StoreSteps, ClockStays
<1> QED BY StoreInitially, <1>1, PTL DEF StoreSpec

\* Both maps hold events under their ids and their starts, and the clock stays within its bound.
THEOREM EpgStoreTypes == StoreSpec => []StoreTypeOK
<1>1. StoreOK /\ now \in Times => StoreTypeOK
  BY DEF StoreOK, StoreTypeOK, EventMap, TimeMap
<1> QED BY StoreInvariance, <1>1, PTL

\* Whatever sections and imports come in whatever order, the two maps own the same events
\* (epgcache.cpp:935-984).
THEOREM StoreMapsAgree == StoreSpec => []MapsAgree
<1>1. StoreOK /\ now \in Times => MapsAgree
  BY DEF StoreOK, MapsAgree, Agree
<1> QED BY StoreInvariance, <1>1, PTL

\* Nothing else makes an event go (FixOverlapping, cleanLoop).
THEOREM StoreEntriesLeaveForCause == StoreSpec => EntriesLeaveForCause
<1>1. StoreOK /\ now \in Times /\ [StoreNext]_store
        => [\A e \in Events \ Events' : Over(e, now) \/ \E n \in Events' : Displaces(n, e)]_store
  BY StoreSteps DEF LeaveForCause
<1> QED BY StoreInvariance, <1>1, PTL DEF StoreSpec, EntriesLeaveForCause

-----------------------------------------------------------------------------
(* The threads use the store as it is meant to be used *)

LEMMA ThreadsStep ==
  ASSUME [Next]_vars
  PROVE  [StoreNext]_store
<1>1. ASSUME NEW c \in Channels, ChannelAdded(c) \/ ChannelRunning(c) \/ ReleaseBegins(c)
      PROVE  UNCHANGED store
  BY <1>1 DEF ChannelAdded, ChannelRunning, ReleaseBegins
<1>2. CASE TimeUpdated \/ LockChannel \/ EraseChannel \/ GotStart \/ StartChannel \/ GotLeave
  BY <1>2 DEF TimeUpdated, LockChannel, EraseChannel, GotStart, StartChannel, GotLeave
<1>3. ASSUME NEW c \in Channels, StartEPG(c) \/ AbortNonAvail(c)
      PROVE  UNCHANGED store
  BY <1>3 DEF StartEPG, AbortNonAvail
<1>4. ASSUME NEW c \in Channels, NEW s \in Sources, ReadData(c, s)
      PROVE  [StoreNext]_store
  BY <1>4 DEF ReadData, SourceEnds, NewSection, StoreNext, store
<1>5. CASE StoreStep
  BY <1>5 DEF StoreStep, MainThreadStore, EpgThreadStore, StoreNext
<1>6. CASE UNCHANGED vars
  BY <1>6 DEF vars
<1> QED BY <1>1, <1>2, <1>3, <1>4, <1>5, <1>6 DEF Next

\* Whatever the two threads do, the store sees sections, imports and cleaning, one at a time.
THEOREM EpgImplementsStore == Spec => StoreSpec
<1>1. Init => StoreInit
  BY DEF Init
<1> QED BY <1>1, ThreadsStep, PTL DEF Spec, StoreSpec

\* So the maps agree while channels come and go.
THEOREM EpgMapsAgree == Spec => []MapsAgree
BY EpgImplementsStore, StoreMapsAgree, PTL

\* And events go only for a cause.
THEOREM EpgEntriesLeaveForCause == Spec => EntriesLeaveForCause
BY EpgImplementsStore, StoreEntriesLeaveForCause, PTL

-----------------------------------------------------------------------------
(* The two threads: the inductive invariant *)

Start(c) == [type |-> "start", c |-> c]
Leave(c) == [type |-> "leave", c |-> c]
Starting(c) == epg = [pc |-> "start", c |-> c]
Releasing(c) == main # Idle /\ main.c = c
Erasing(c) == main = [pc |-> "erase", c |-> c]

Active(c) == c \in zapTimer \cup abortTimer \/ isRunning[c] # {}

ThreadTypes ==
  /\ adds \in 0 .. MaxAdds /\ m_running \in BOOLEAN
  /\ known \subseteq Channels /\ tuned \subseteq Channels
  /\ state \in [Channels -> -2 .. 2]
  /\ isRunning \in [Channels -> SUBSET Sources] /\ haveData \in [Channels -> SUBSET Sources]
  /\ complete \in [Channels -> SUBSET Sources]
  /\ zapTimer \subseteq Channels /\ abortTimer \subseteq Channels
  /\ messages \in Seq([type : {"start", "leave"}, c : Channels])
  /\ channel_active \in [Channels -> {Nobody, "main", "epg"}]
  /\ channel_map_lock \in {Nobody, "epg"}
  /\ main \in {Idle} \cup [pc : {"release", "erase"}, c : Channels]
  /\ epg \in {Loop, [pc |-> "off", c |-> "none"]} \cup [pc : {"start"}, c : Channels]

\* No message is sent twice; a channel that is known is told of by a start, at most, and then
\* by a leave when it is released.
Told(c, i) ==
  /\ state[c] >= 0
  /\ messages[i] = Start(c) => channel_active[c] # "epg" /\ ~Starting(c)
  /\ messages[i] = Leave(c) =>
       /\ Releasing(c)
       /\ \/ channel_active[c] = "epg" \/ Starting(c)
          \/ \E j \in DOMAIN messages : j < i /\ messages[j] = Start(c)

\* While it is up and not being released, its lock is held, or on the way to be.
Claimed(c) ==
  channel_active[c] = "epg" \/ Starting(c) \/ \E j \in DOMAIN messages : messages[j] = Start(c)

Distinct == \A i, j \in DOMAIN messages : messages[i] = messages[j] => i = j
AllClaimed == \A c \in known : state[c] >= 0 /\ ~Releasing(c) => Claimed(c)
AllTold == \A i \in DOMAIN messages : messages[i].c \in known => Told(messages[i].c, i)
MessagesOK == Distinct /\ AllClaimed /\ AllTold

ChannelOK(c) ==
  /\ channel_active[c] = "main" <=> Erasing(c)
  /\ channel_active[c] = "epg" => c \in known /\ state[c] >= 0 /\ ~Starting(c)
  /\ Active(c) => channel_active[c] = "epg"
  /\ Releasing(c) => c \in known
  /\ Starting(c) => c \in known /\ state[c] >= 0 /\ channel_map_lock = "epg"
  /\ c \in known /\ state[c] >= -1 => c \in tuned
  /\ c \in abortTimer => state[c] \in {0, 1}

IInv ==
  /\ ThreadTypes /\ MessagesOK
  /\ \A c \in Channels : ChannelOK(c)
  /\ ~m_running => epg = [pc |-> "off", c |-> "none"]

Message == [type : {"start", "leave"}, c : Channels]
threads == <<adds, m_running, known, tuned, reading, messages, locks, main, epg>>

LEMMA MessageForms ==
  ASSUME NEW m \in Message
  PROVE  /\ m.c \in Channels
         /\ m.type = "start" => m = Start(m.c)
         /\ m.type = "leave" => m = Leave(m.c)
         /\ m = Start(m.c) \/ m = Leave(m.c)
BY DEF Message, Start, Leave

LEMMA MessageNames ==
  ASSUME NEW c, NEW d
  PROVE  /\ Start(c) # Leave(d) /\ Start(c).c = c /\ Leave(c).c = c
         /\ Start(c) = Start(d) => c = d
         /\ Leave(c) = Leave(d) => c = d
         /\ Start(c).type = "start" /\ Leave(c).type = "leave"
BY DEF Start, Leave

LEMMA PlaceForms ==
  ASSUME ThreadTypes
  PROVE  /\ main.pc \in {"release", "erase"} => main.c \in Channels /\ main = [pc |-> main.pc, c |-> main.c]
         /\ epg.pc = "start" => epg.c \in Channels /\ epg = [pc |-> "start", c |-> epg.c]
<1>1. main \in [pc : {"release", "erase"}, c : Channels]
        => main.c \in Channels /\ main = [pc |-> main.pc, c |-> main.c]
  OBVIOUS
<1>2. epg \in [pc : {"start"}, c : Channels]
        => epg.c \in Channels /\ epg = [pc |-> "start", c |-> epg.c]
  OBVIOUS
<1>3. Idle.pc = "idle" /\ Loop.pc = "loop" /\ [pc |-> "off", c |-> "none"].pc = "off"
  BY DEF Idle, Loop
<1> QED BY <1>1, <1>2, <1>3 DEF ThreadTypes

\* What stays of the messages' part when neither they nor the threads' places change, and no
\* channel becomes known or comes up.
LEMMA MessagesStay ==
  ASSUME MessagesOK, UNCHANGED <<messages, main, epg>>, known' \subseteq known,
         \A c \in known' : state'[c] >= 0 <=> state[c] >= 0,
         \A c \in known' : channel_active'[c] = "epg" <=> channel_active[c] = "epg"
  PROVE  MessagesOK'
<1>1. Distinct'
  BY DEF MessagesOK, Distinct
<1>2. AllClaimed'
  BY DEF MessagesOK, AllClaimed, Claimed, Releasing, Starting
<1>3. AllTold'
  BY DEF MessagesOK, AllTold, Told, Releasing, Starting
<1> QED BY <1>1, <1>2, <1>3 DEF MessagesOK

LEMMA ThreadsStay ==
  ASSUME IInv, UNCHANGED threads
  PROVE  IInv'
<1> USE DEF threads, reading, locks
<1>1. ThreadTypes'
  BY DEF IInv, ThreadTypes
<1>2. MessagesOK'
  BY MessagesStay DEF IInv
<1>3. \A c \in Channels : ChannelOK(c)'
  BY DEF IInv, ChannelOK, Starting, Releasing, Erasing, Active
<1> QED BY <1>1, <1>2, <1>3 DEF IInv

LEMMA ChannelAddedStep ==
  ASSUME IInv, NEW c \in Channels, ChannelAdded(c)
  PROVE  IInv'
<1>1. ThreadTypes'
  BY ChannelsAssumption DEF IInv, ThreadTypes, ChannelAdded, Without, locks
<1>2. MessagesOK'
  <2>1. /\ UNCHANGED <<messages, main, epg>> /\ known' = known \cup {c} /\ c \notin known
        /\ \A i \in DOMAIN messages : messages[i].c # c
        /\ state'[c] = -2 /\ \A d \in known : state'[d] = state[d]
        /\ \A d \in known : channel_active'[d] = channel_active[d]
    BY DEF ChannelAdded, IInv, ThreadTypes, locks
  <2>2. Distinct'
    BY <2>1 DEF IInv, MessagesOK, Distinct
  <2>3. AllClaimed'
    BY <2>1 DEF IInv, MessagesOK, AllClaimed, Claimed, Releasing, Starting
  <2>4. AllTold'
    BY <2>1 DEF IInv, MessagesOK, AllTold, Told, Releasing, Starting
  <2> QED BY <2>2, <2>3, <2>4 DEF MessagesOK
<1>3. ASSUME NEW d \in Channels PROVE ChannelOK(d)'
  <2>1. ChannelOK(d)
    BY DEF IInv
  <2>2. CASE d # c
    BY <2>1, <2>2 DEF IInv, ThreadTypes, ChannelOK, Active, Starting, Releasing, Erasing,
                      ChannelAdded, Without, locks
  <2>3. CASE d = c
    BY <2>1, <2>3 DEF IInv, ThreadTypes, ChannelOK, Active, Starting, Releasing, Erasing,
                      ChannelAdded, Without, locks, MainIdle, Nobody, Idle
  <2> QED BY <2>2, <2>3
<1> QED BY <1>1, <1>2, <1>3 DEF IInv, ChannelAdded

LEMMA ReleaseBeginsStep ==
  ASSUME IInv, NEW c \in Channels, ReleaseBegins(c)
  PROVE  IInv'
<1> USE DEF locks, reading
<1>0. /\ main = Idle /\ main' = [pc |-> "release", c |-> c] /\ main' # Idle /\ c \in known
      /\ main'.c = c /\ main'.pc = "release"
  BY DEF Idle, ReleaseBegins, MainIdle
<1>1. /\ UNCHANGED <<adds, m_running, known, tuned, reading, locks, epg>>
      /\ IF state[c] >= 0 THEN messages' = Append(messages, Leave(c)) ELSE UNCHANGED messages
  BY DEF ReleaseBegins, Send, Leave
<1>2. messages \in Seq(Message) /\ Leave(c) \in Message
  BY DEF IInv, ThreadTypes, Message, Leave
<1>3. ThreadTypes'
  <2>1. messages' \in Seq(Message)
    <3>1. Append(messages, Leave(c)) \in Seq(Message)
      BY <1>2
    <3> QED BY <1>1, <1>2, <3>1
  <2>2. main' \in [pc : {"release", "erase"}, c : Channels]
    BY <1>0
  <2> QED BY <1>1, <2>1, <2>2 DEF IInv, ThreadTypes, Message
<1>4. MessagesOK'
  <2>1. CASE state[c] >= 0
    <3>1. messages' = Append(messages, Leave(c))
      BY <1>1, <2>1
    <3>2. ASSUME NEW i \in DOMAIN messages, messages[i] = Leave(c) PROVE FALSE
      <4>1. messages[i].c = c
        BY <3>2, MessageNames
      <4>2. Told(c, i)
        BY <1>0, <4>1 DEF IInv, MessagesOK, AllTold
      <4> QED BY <1>0, <3>2, <4>2 DEF Told, Releasing
    <3>3. Claimed(c)
      BY <1>0, <2>1 DEF IInv, MessagesOK, AllClaimed, Releasing
    <3>4. /\ DOMAIN messages' = 1 .. Len(messages) + 1 /\ DOMAIN messages = 1 .. Len(messages)
          /\ messages'[Len(messages) + 1] = Leave(c) /\ Len(messages) \in Nat
          /\ \A i \in DOMAIN messages : messages'[i] = messages[i]
      BY <1>2, <3>1
    <3>5. Distinct'
      BY <3>2, <3>4 DEF IInv, MessagesOK, Distinct
    <3>6. ASSUME NEW d \in known, state[d] >= 0, ~Releasing(d)' PROVE Claimed(d)'
      <4>1. ~Releasing(d)
        BY <1>0 DEF Releasing
      <4>2. Claimed(d)
        BY <3>6, <4>1 DEF IInv, MessagesOK, AllClaimed
      <4> QED BY <1>1, <4>2, <3>4 DEF Claimed, Starting
    <3>7. ASSUME NEW i \in DOMAIN messages', messages'[i].c \in known
          PROVE  Told(messages[i].c, i)'
      <4>1. CASE i = Len(messages) + 1
        <5>1. messages'[i] = Leave(c) /\ messages'[i].c = c /\ Leave(c) # Start(c)
          BY <3>4, <4>1, MessageNames
        <5>2. Releasing(c)'
          BY <1>0 DEF Releasing
        <5> QED BY <1>1, <2>1, <3>3, <3>4, <4>1, <5>1, <5>2 DEF Told, Claimed, Starting
      <4>2. CASE i \in DOMAIN messages
        <5>1. Told(messages[i].c, i) /\ messages'[i] = messages[i]
          BY <3>4, <3>7, <4>2 DEF IInv, MessagesOK, AllTold
        <5>2. messages[i] # Leave(messages[i].c)
          BY <1>0, <5>1 DEF Told, Releasing
        <5> QED BY <1>1, <5>1, <5>2 DEF Told, Starting
      <4> QED BY <3>4, <4>1, <4>2
    <3>8. AllClaimed' /\ AllTold'
      BY <1>1, <3>6, <3>7 DEF AllClaimed, AllTold
    <3> QED BY <3>5, <3>8 DEF MessagesOK
  <2>2. CASE ~(state[c] >= 0)
    <3>1. UNCHANGED messages
      BY <1>1, <2>2
    <3>2. Distinct' /\ AllClaimed'
      BY <1>0, <1>1, <3>1 DEF IInv, MessagesOK, Distinct, AllClaimed, Claimed, Starting, Releasing
    <3>3. AllTold'
      BY <1>0, <1>1, <3>1 DEF IInv, MessagesOK, AllTold, Told, Starting, Releasing
    <3> QED BY <3>2, <3>3 DEF MessagesOK
  <2> QED BY <2>1, <2>2
<1>5. ASSUME NEW d \in Channels PROVE ChannelOK(d)'
  <2>1. Starting(d)' = Starting(d) /\ Active(d)' = Active(d) /\ (Releasing(d)' => d = c)
    BY <1>0, <1>1 DEF Starting, Active, Releasing
  <2>2. ~Erasing(d) /\ ~Erasing(d)'
    BY <1>0 DEF Erasing, Idle
  <2>3. ChannelOK(d)
    BY DEF IInv
  <2> QED BY <1>0, <1>1, <2>1, <2>2, <2>3 DEF ChannelOK
<1> QED BY <1>1, <1>3, <1>4, <1>5 DEF IInv

LEMMA ChannelRunningStep ==
  ASSUME IInv, NEW c \in Channels, ChannelRunning(c)
  PROVE  IInv'
<1> USE DEF locks, reading
<1>0. /\ main = Idle /\ c \in known \ tuned /\ tuned' = tuned \cup {c}
      /\ UNCHANGED <<adds, m_running, known, isRunning, haveData, complete, zapTimer, abortTimer,
                     channel_active, channel_map_lock, main, epg>>
  BY DEF ChannelRunning, MainIdle
<1>1. state \in [Channels -> -2 .. 2] /\ state[c] < -1 /\ messages \in Seq(Message)
  BY <1>0 DEF IInv, ChannelOK, ThreadTypes, Message
<1>2. \A i \in DOMAIN messages : messages[i].c # c
  BY <1>0, <1>1 DEF IInv, MessagesOK, AllTold, Told
<1>3. CASE UNCHANGED <<state, messages>>
  <2>1. ThreadTypes'
    BY <1>0, <1>3 DEF IInv, ThreadTypes
  <2>2. MessagesOK'
    BY <1>0, <1>3, MessagesStay DEF IInv
  <2>3. \A d \in Channels : ChannelOK(d)'
    BY <1>0, <1>3 DEF IInv, ChannelOK, Active, Starting, Releasing, Erasing
  <2> QED BY <1>0, <2>1, <2>2, <2>3 DEF IInv
<1>4. CASE state' = [state EXCEPT ![c] = -1] /\ UNCHANGED messages
  <2>1. ThreadTypes'
    BY <1>0, <1>4 DEF IInv, ThreadTypes
  <2>2. MessagesOK'
    BY <1>0, <1>1, <1>4, MessagesStay DEF IInv, ThreadTypes
  <2>3. ASSUME NEW d \in Channels PROVE ChannelOK(d)'
    <3>1. state'[d] = state[d] \/ (d = c /\ state[d] < -1 /\ state'[d] = -1)
      BY <1>1, <1>4
    <3> QED BY <1>0, <1>1, <3>1 DEF IInv, ChannelOK, Active, Starting, Releasing, Erasing
  <2> QED BY <1>0, <2>1, <2>2, <2>3 DEF IInv
<1>5. CASE m_running /\ state' = [state EXCEPT ![c] = 0] /\ messages' = Append(messages, Start(c))
  <2>0. /\ DOMAIN messages' = 1 .. Len(messages) + 1 /\ DOMAIN messages = 1 .. Len(messages)
        /\ messages'[Len(messages) + 1] = Start(c) /\ Len(messages) \in Nat
        /\ \A i \in DOMAIN messages : messages'[i] = messages[i]
        /\ Start(c).c = c /\ messages' \in Seq(Message)
        /\ state'[c] = 0 /\ \A d \in Channels \ {c} : state'[d] = state[d]
    <3>1. Start(c) \in Message /\ Start(c).c = c
      BY DEF Message, Start
    <3>2. Append(messages, Start(c)) \in Seq(Message)
      BY <1>1, <3>1
    <3> QED BY <1>1, <1>5, <3>1, <3>2
  <2>1. ThreadTypes'
    <3>1. state' \in [Channels -> -2 .. 2]
      BY <1>1, <1>5
    <3> QED BY <1>0, <2>0, <3>1 DEF IInv, ThreadTypes, Message
  <2>2. Distinct'
    BY <1>2, <2>0 DEF IInv, MessagesOK, Distinct
  <2>3. AllClaimed'
    <3>1. Claimed(c)'
      <4>1. Len(messages) + 1 \in DOMAIN messages'
        BY <2>0
      <4> QED BY <2>0, <4>1 DEF Claimed
    <3>2. ASSUME NEW d \in known, d # c, state'[d] >= 0, ~Releasing(d)' PROVE Claimed(d)'
      <4>0. d \in Channels
        BY DEF IInv, ThreadTypes
      <4>1. Claimed(d)
        BY <1>0, <2>0, <3>2, <4>0 DEF IInv, MessagesOK, AllClaimed, Releasing
      <4> QED BY <1>0, <2>0, <4>1 DEF Claimed, Starting
    <3> QED BY <1>0, <3>1, <3>2 DEF AllClaimed
  <2>4. ASSUME NEW i \in DOMAIN messages', messages'[i].c \in known
        PROVE  Told(messages[i].c, i)'
    <3>1. CASE i = Len(messages) + 1
      <4>1. messages'[i] = Start(c) /\ messages'[i].c = c /\ Leave(c) # Start(c)
        BY <2>0, <3>1, MessageNames
      <4>2. channel_active[c] # "epg" /\ ~Starting(c)
        BY <1>1 DEF IInv, ChannelOK
      <4> QED BY <1>0, <2>0, <4>1, <4>2 DEF Told, Starting
    <3>2. CASE i \in DOMAIN messages
      <4>1. Told(messages[i].c, i) /\ messages'[i] = messages[i] /\ messages[i].c # c
        BY <1>2, <2>0, <2>4, <3>2 DEF IInv, MessagesOK, AllTold
      <4>2. messages[i].c \in Channels
        BY <1>1, <3>2, MessageForms
      <4>3. messages[i] # Leave(messages[i].c)
        BY <1>0, <4>1 DEF Told, Releasing
      <4> QED BY <1>0, <2>0, <4>1, <4>2, <4>3 DEF Told, Starting
    <3> QED BY <2>0, <3>1, <3>2
  <2>5. AllTold'
    BY <1>0, <2>4 DEF AllTold
  <2>6. ASSUME NEW d \in Channels PROVE ChannelOK(d)'
    <3>1. CASE d = c
      BY <1>0, <1>1, <2>0, <3>1 DEF IInv, ChannelOK, Active, Starting, Releasing, Erasing
    <3>2. CASE d # c
      BY <1>0, <1>1, <2>0, <3>2 DEF IInv, ChannelOK, Active, Starting, Releasing, Erasing
    <3> QED BY <3>1, <3>2
  <2> QED BY <1>0, <1>5, <2>1, <2>2, <2>3, <2>5, <2>6 DEF IInv, MessagesOK
<1> QED BY <1>3, <1>4, <1>5 DEF ChannelRunning, Send, Start

LEMMA LockChannelStep ==
  ASSUME IInv, LockChannel
  PROVE  IInv'
<1> USE DEF locks, reading
<1>0. PICK c \in Channels :
        /\ main = [pc |-> "release", c |-> c] /\ main' = [pc |-> "erase", c |-> c]
        /\ channel_active[c] = Nobody /\ channel_active' = [channel_active EXCEPT ![c] = "main"]
  <2>1. main.c \in Channels /\ main = [pc |-> "release", c |-> main.c]
    BY PlaceForms DEF LockChannel, IInv
  <2>2. [main EXCEPT !.pc = "erase"] = [pc |-> "erase", c |-> main.c]
    BY <2>1
  <2> QED BY <2>1, <2>2 DEF LockChannel
<1>1. UNCHANGED <<adds, m_running, known, tuned, reading, messages, channel_map_lock, epg>>
  BY DEF LockChannel
<1>2. \A d \in Channels :
        /\ Releasing(d) <=> d = c
        /\ Releasing(d)' <=> d = c
        /\ ~Erasing(d) /\ (Erasing(d)' <=> d = c)
        /\ channel_active'[d] = IF d = c THEN "main" ELSE channel_active[d]
  BY <1>0 DEF Releasing, Erasing, Idle, IInv, ThreadTypes
<1>3. ThreadTypes'
  <2>1. main' \in [pc : {"release", "erase"}, c : Channels]
    BY <1>0
  <2> QED BY <1>0, <1>1, <2>1 DEF IInv, ThreadTypes
<1>4. known \subseteq Channels /\ channel_active[c] # "epg"
  BY <1>0 DEF IInv, ThreadTypes, Nobody
<1>5. \A d \in known : channel_active'[d] = "epg" <=> channel_active[d] = "epg"
  BY <1>2, <1>4
<1>6. Distinct' /\ AllClaimed'
  BY <1>1, <1>2, <1>4, <1>5 DEF IInv, MessagesOK, Distinct, AllClaimed, Claimed, Starting
<1>7. AllTold'
  BY <1>1, <1>2, <1>4, <1>5 DEF IInv, MessagesOK, AllTold, Told, Starting
<1>8. ASSUME NEW d \in Channels PROVE ChannelOK(d)'
  <2>1. ChannelOK(d) /\ Starting(d)' = Starting(d) /\ Active(d)' = Active(d)
    BY <1>1 DEF IInv, Starting, Active
  <2> QED BY <1>0, <1>1, <1>2, <1>4, <2>1 DEF ChannelOK, Nobody
<1> QED BY <1>1, <1>3, <1>6, <1>7, <1>8 DEF IInv, MessagesOK

LEMMA EraseChannelStep ==
  ASSUME IInv, EraseChannel
  PROVE  IInv'
<1> USE DEF locks, reading
<1>0. PICK c \in Channels :
        /\ main = [pc |-> "erase", c |-> c] /\ main' = Idle /\ known' = known \ {c}
        /\ channel_active' = [channel_active EXCEPT ![c] = Nobody] /\ channel_map_lock = Nobody
  BY PlaceForms DEF EraseChannel, IInv
<1>1. UNCHANGED <<adds, m_running, tuned, reading, messages, channel_map_lock, epg>>
  BY DEF EraseChannel
<1>2. \A d \in Channels :
        /\ Releasing(d) <=> d = c
        /\ ~Releasing(d)' /\ (Erasing(d) <=> d = c) /\ ~Erasing(d)'
        /\ channel_active'[d] = IF d = c THEN Nobody ELSE channel_active[d]
  BY <1>0 DEF Releasing, Erasing, Idle, IInv, ThreadTypes
<1>3. ThreadTypes'
  BY <1>0, <1>1 DEF IInv, ThreadTypes
<1>4. known \subseteq Channels
  BY DEF IInv, ThreadTypes
<1>5. Distinct' /\ AllClaimed'
  BY <1>0, <1>1, <1>2, <1>4 DEF IInv, MessagesOK, Distinct, AllClaimed, Claimed, Starting
<1>6. AllTold'
  BY <1>0, <1>1, <1>2, <1>4 DEF IInv, MessagesOK, AllTold, Told, Starting
<1>7. ASSUME NEW d \in Channels PROVE ChannelOK(d)'
  <2>1. ChannelOK(d) /\ Starting(d)' = Starting(d) /\ Active(d)' = Active(d)
    BY <1>1 DEF IInv, Starting, Active
  <2> QED BY <1>0, <1>1, <1>2, <1>4, <2>1 DEF ChannelOK, Nobody
<1> QED BY <1>1, <1>3, <1>5, <1>6, <1>7 DEF IInv, MessagesOK, EraseChannel

\* The EPG thread takes the first message: what is said of the others.
LEMMA MessageTaken ==
  ASSUME messages \in Seq(Message), messages # <<>>, messages' = Tail(messages)
  PROVE  /\ Head(messages) \in Message /\ Head(messages) = messages[1]
         /\ 1 \in DOMAIN messages /\ messages' \in Seq(Message)
         /\ \A i \in DOMAIN messages' : /\ i \in Nat \ {0} /\ i + 1 \in DOMAIN messages
                                        /\ messages'[i] = messages[i + 1]
         /\ \A i \in DOMAIN messages : i \in Nat /\ (i > 1 => i - 1 \in DOMAIN messages'
                                                     /\ messages'[i - 1] = messages[i])
OBVIOUS

LEMMA DistinctTail ==
  ASSUME messages \in Seq(Message), messages # <<>>, messages' = Tail(messages), Distinct
  PROVE  Distinct' /\ \A i \in DOMAIN messages' : messages'[i] # Head(messages)
<1>1. /\ Head(messages) = messages[1] /\ 1 \in DOMAIN messages
      /\ \A i \in DOMAIN messages' : /\ i \in Nat \ {0} /\ i + 1 \in DOMAIN messages
                                     /\ messages'[i] = messages[i + 1]
  BY MessageTaken
<1>2. Distinct'
  BY <1>1 DEF Distinct
<1>3. ASSUME NEW i \in DOMAIN messages', messages'[i] = Head(messages) PROVE FALSE
  <2>1. i + 1 = 1
    BY <1>1, <1>3 DEF Distinct
  <2> QED BY <1>1, <2>1
<1> QED BY <1>2, <1>3

\* A start that waits behind the first message still waits.
LEMMA StartWaits ==
  ASSUME messages \in Seq(Message), messages # <<>>, messages' = Tail(messages),
         NEW c, Head(messages) # Start(c)
  PROVE  /\ (\E j \in DOMAIN messages : messages[j] = Start(c))
              => \E j \in DOMAIN messages' : messages'[j] = Start(c)
         /\ \A i \in DOMAIN messages' :
              (\E j \in DOMAIN messages : j < i + 1 /\ messages[j] = Start(c))
                => \E j \in DOMAIN messages' : j < i /\ messages'[j] = Start(c)
<1>1. /\ Head(messages) = messages[1]
      /\ \A i \in DOMAIN messages' : i \in Nat
      /\ \A i \in DOMAIN messages : i \in Nat /\ (i > 1 => i - 1 \in DOMAIN messages'
                                                  /\ messages'[i - 1] = messages[i])
      /\ \A i \in DOMAIN messages : i >= 1
  BY MessageTaken
<1>2. ASSUME NEW j \in DOMAIN messages, messages[j] = Start(c)
      PROVE  j \in Nat /\ j - 1 \in DOMAIN messages' /\ messages'[j - 1] = Start(c)
  <2>1. j # 1
    BY <1>1, <1>2
  <2> QED BY <1>1, <1>2, <2>1
<1>3. ASSUME NEW i \in DOMAIN messages', NEW j \in DOMAIN messages, j < i + 1, messages[j] = Start(c)
      PROVE  \E k \in DOMAIN messages' : k < i /\ messages'[k] = Start(c)
  <2>1. j - 1 \in DOMAIN messages' /\ messages'[j - 1] = Start(c) /\ j - 1 < i
    BY <1>1, <1>2, <1>3
  <2> QED BY <2>1
<1> QED BY <1>2, <1>3

LEMMA GotStartStep ==
  ASSUME IInv, GotStart
  PROVE  IInv'
<1> USE DEF locks, reading
<1>0. /\ epg = Loop /\ messages # <<>> /\ Head(messages).type = "start" /\ channel_map_lock = Nobody
      /\ messages' = Tail(messages) /\ messages \in Seq(Message)
      /\ UNCHANGED <<adds, m_running, known, tuned, reading, channel_active, main>>
  BY DEF GotStart, NextMessage, InLoop, IInv, ThreadTypes, Message
<1> DEFINE c == Head(messages).c
<1>1. /\ Head(messages) = messages[1] /\ 1 \in DOMAIN messages /\ messages' \in Seq(Message)
      /\ \A i \in DOMAIN messages' : i \in Nat \ {0} /\ i + 1 \in DOMAIN messages
                                     /\ messages'[i] = messages[i + 1]
      /\ Head(messages) = Start(c) /\ c \in Channels
  BY <1>0, MessageTaken, MessageForms
<1> HIDE DEF c
<1>2. Distinct' /\ \A i \in DOMAIN messages' : messages'[i] # Start(c)
  BY <1>0, <1>1, DistinctTail DEF IInv, MessagesOK
<1>3. IF c \in known THEN channel_map_lock' = "epg" /\ epg' = [pc |-> "start", c |-> c]
                     ELSE UNCHANGED <<channel_map_lock, epg>>
  BY <1>0 DEF GotStart, c
<1>4. \A d : ~Starting(d) /\ (Starting(d)' <=> c \in known /\ d = c)
  BY <1>0, <1>3 DEF Starting, Loop
<1>5. c \in known => state[c] >= 0 /\ channel_active[c] # "epg"
  BY <1>1 DEF IInv, MessagesOK, AllTold, Told, Start
<1>6. ThreadTypes'
  BY <1>0, <1>1, <1>3 DEF IInv, ThreadTypes, Message
<1>7. ASSUME NEW d \in known, state[d] >= 0, ~Releasing(d)' PROVE Claimed(d)'
  <2>1. Claimed(d)
    BY <1>0, <1>7 DEF IInv, MessagesOK, AllClaimed, Releasing
  <2>2. CASE d = c
    BY <1>4, <2>2 DEF Claimed
  <2>3. CASE d # c
    <3>1. Head(messages) # Start(d)
      BY <1>1, <2>3, MessageNames
    <3> QED BY <1>0, <1>4, <2>1, <3>1, StartWaits DEF Claimed
  <2> QED BY <2>2, <2>3
<1>8. ASSUME NEW i \in DOMAIN messages', NEW d \in known, messages'[i].c = d
      PROVE  Told(d, i)'
  <2>1. i \in Nat /\ i + 1 \in DOMAIN messages /\ messages'[i] = messages[i + 1]
    BY <1>1
  <2>2. Told(d, i + 1)
    BY <1>8, <2>1 DEF IInv, MessagesOK, AllTold
  <2>3. state'[d] >= 0
    BY <1>0, <2>2 DEF Told
  <2>4. ASSUME messages'[i] = Start(d) PROVE channel_active'[d] # "epg" /\ ~Starting(d)'
    <3>1. d # c
      BY <1>2, <2>4
    <3> QED BY <1>0, <1>4, <2>1, <2>2, <2>4, <3>1 DEF Told
  <2>5. ASSUME messages'[i] = Leave(d)
        PROVE  /\ Releasing(d)'
               /\ \/ channel_active'[d] = "epg" \/ Starting(d)'
                  \/ \E j \in DOMAIN messages' : j < i /\ messages'[j] = Start(d)
    <3>1. /\ Releasing(d)
          /\ \/ channel_active[d] = "epg"
             \/ \E j \in DOMAIN messages : j < i + 1 /\ messages[j] = Start(d)
      BY <1>4, <2>1, <2>2, <2>5 DEF Told
    <3>2. Releasing(d)' /\ channel_active'[d] = channel_active[d]
      BY <1>0, <3>1 DEF Releasing
    <3>3. CASE d = c
      BY <1>4, <3>2, <3>3
    <3>4. CASE d # c
      <4>1. Head(messages) # Start(d)
        BY <1>1, <3>4, MessageNames
      <4>2. (\E j \in DOMAIN messages : j < i + 1 /\ messages[j] = Start(d))
              => \E j \in DOMAIN messages' : j < i /\ messages'[j] = Start(d)
        BY <1>0, <4>1, StartWaits
      <4> QED BY <3>1, <3>2, <4>2
    <3> QED BY <3>3, <3>4
  <2> QED BY <2>3, <2>4, <2>5 DEF Told
<1>9. AllClaimed' /\ AllTold'
  BY <1>0, <1>7, <1>8 DEF AllClaimed, AllTold, Told
<1>10. ASSUME NEW d \in Channels PROVE ChannelOK(d)'
  <2>1. /\ ChannelOK(d) /\ Active(d)' = Active(d)
        /\ Releasing(d)' = Releasing(d) /\ Erasing(d)' = Erasing(d)
    BY <1>0 DEF IInv, Active, Releasing, Erasing
  <2> QED BY <1>0, <1>3, <1>4, <1>5, <2>1 DEF ChannelOK
<1>11. (~m_running => epg = [pc |-> "off", c |-> "none"])'
  BY <1>0 DEF IInv, Loop
<1> QED BY <1>2, <1>6, <1>9, <1>10, <1>11 DEF IInv, MessagesOK

LEMMA StartChannelStep ==
  ASSUME IInv, StartChannel
  PROVE  IInv'
<1> USE DEF locks, reading
<1>0. PICK c \in Channels :
        /\ epg = [pc |-> "start", c |-> c] /\ epg' = Loop /\ channel_map_lock' = Nobody
        /\ channel_active[c] = Nobody /\ channel_active' = [channel_active EXCEPT ![c] = "epg"]
        /\ zapTimer' = zapTimer \cup {c}
  BY PlaceForms DEF StartChannel, IInv
<1>1. UNCHANGED <<adds, m_running, known, tuned, state, isRunning, haveData, complete, abortTimer,
                  messages, main>>
  BY DEF StartChannel
<1>2. \A d \in Channels :
        /\ Starting(d) <=> d = c
        /\ ~Starting(d)'
        /\ channel_active'[d] = IF d = c THEN "epg" ELSE channel_active[d]
  BY <1>0 DEF Starting, Loop, IInv, ThreadTypes
<1>3. ThreadTypes'
  BY <1>0, <1>1 DEF IInv, ThreadTypes
<1>4. known \subseteq Channels /\ c \in known /\ state[c] >= 0 /\ ~Erasing(c)
  BY <1>0, <1>2 DEF IInv, ThreadTypes, ChannelOK, Nobody
<1>5. Distinct' /\ AllClaimed'
  BY <1>1, <1>2, <1>4 DEF IInv, MessagesOK, Distinct, AllClaimed, Claimed, Releasing
<1>6. AllTold'
  BY <1>1, <1>2, <1>4 DEF IInv, MessagesOK, AllTold, Told, Releasing
<1>7. ASSUME NEW d \in Channels PROVE ChannelOK(d)'
  <2>1. /\ ChannelOK(d) /\ Releasing(d)' = Releasing(d) /\ Erasing(d)' = Erasing(d)
        /\ d # c => Active(d)' = Active(d)
    BY <1>0, <1>1 DEF IInv, Active, Releasing, Erasing
  <2> QED BY <1>0, <1>1, <1>2, <1>4, <2>1 DEF ChannelOK, Nobody
<1>8. m_running
  BY <1>0 DEF IInv
<1> QED BY <1>1, <1>3, <1>5, <1>6, <1>7, <1>8 DEF IInv, MessagesOK

LEMMA GotLeaveStep ==
  ASSUME IInv, GotLeave
  PROVE  IInv'
<1> USE DEF locks, reading
<1>0. /\ epg = Loop /\ messages # <<>> /\ Head(messages).type = "leave" /\ channel_map_lock = Nobody
      /\ messages' = Tail(messages) /\ messages \in Seq(Message)
      /\ UNCHANGED <<adds, m_running, known, tuned, channel_map_lock, main, epg>>
  BY DEF GotLeave, NextMessage, InLoop, IInv, ThreadTypes, Message
<1>1. PICK c \in Channels : Head(messages) = Leave(c) /\ Head(messages).c = c
  BY <1>0, MessageTaken, MessageForms
<1>2. /\ Head(messages) = messages[1] /\ 1 \in DOMAIN messages /\ messages' \in Seq(Message)
      /\ \A i \in DOMAIN messages' : i \in Nat \ {0} /\ i + 1 \in DOMAIN messages
                                     /\ messages'[i] = messages[i + 1]
      /\ \A i \in DOMAIN messages' : messages'[i] # Leave(c)
      /\ Distinct'
  BY <1>0, <1>1, MessageTaken, DistinctTail DEF IInv, MessagesOK
<1>3. /\ UNCHANGED <<state, haveData>>
      /\ isRunning' \in [Channels -> SUBSET Sources] /\ complete' \in [Channels -> SUBSET Sources]
      /\ zapTimer' \subseteq zapTimer /\ abortTimer' \subseteq abortTimer
      /\ channel_active' \in [Channels -> {Nobody, "main", "epg"}]
      /\ \A d \in Channels : d # c => /\ isRunning'[d] = isRunning[d]
                                      /\ channel_active'[d] = channel_active[d]
      /\ c \in known => /\ c \notin zapTimer' \cup abortTimer' /\ isRunning'[c] = {}
                        /\ channel_active'[c] = Nobody
      /\ c \notin known => UNCHANGED <<reading, channel_active>>
  <2>1. ThreadTypes
    BY DEF IInv
  <2>2. CASE c \in known
    <3>1. AbortEPG(c)
      BY <1>1, <2>2 DEF GotLeave
    <3> QED BY <2>1, <2>2, <3>1 DEF AbortEPG, Without, ThreadTypes
  <2>3. CASE c \notin known
    <3>1. UNCHANGED <<reading, channel_active>>
      BY <1>1, <2>3 DEF GotLeave
    <3> QED BY <2>1, <2>3, <3>1 DEF ThreadTypes
  <2> QED BY <2>2, <2>3
<1>4. \A d : ~Starting(d) /\ ~Starting(d)'
  BY <1>0 DEF Starting, Loop
<1>5. c \in known => Releasing(c) /\ channel_active[c] = "epg" /\ state[c] >= 0
  <2>1. \A j \in DOMAIN messages : ~(j < 1)
    BY <1>0
  <2>2. c \in known => Told(c, 1)
    BY <1>1, <1>2 DEF IInv, MessagesOK, AllTold
  <2> QED BY <1>1, <1>2, <1>4, <2>1, <2>2 DEF Told
<1>6. ThreadTypes'
  BY <1>0, <1>2, <1>3 DEF IInv, ThreadTypes, Message
<1>7. known \subseteq Channels /\ \A d : Head(messages) # Start(d)
  BY <1>1, MessageNames DEF IInv, ThreadTypes
<1>8. ASSUME NEW d \in known, state[d] >= 0, ~Releasing(d)' PROVE Claimed(d)'
  <2>1. Claimed(d) /\ d # c
    BY <1>0, <1>5, <1>8 DEF IInv, MessagesOK, AllClaimed, Releasing
  <2>2. (\E j \in DOMAIN messages : messages[j] = Start(d))
          => \E j \in DOMAIN messages' : messages'[j] = Start(d)
    BY <1>0, <1>7, StartWaits
  <2> QED BY <1>3, <1>4, <1>7, <2>1, <2>2 DEF Claimed
<1>9. ASSUME NEW i \in DOMAIN messages', NEW d \in known, messages'[i].c = d
      PROVE  Told(d, i)'
  <2>1. i \in Nat /\ i + 1 \in DOMAIN messages /\ messages'[i] = messages[i + 1]
    BY <1>2
  <2>2. Told(d, i + 1)
    BY <1>9, <2>1 DEF IInv, MessagesOK, AllTold
  <2>3. state'[d] >= 0
    BY <1>3, <2>2 DEF Told
  <2>4. ASSUME messages'[i] = Start(d) PROVE channel_active'[d] # "epg" /\ ~Starting(d)'
    BY <1>3, <1>4, <1>7, <2>1, <2>2, <2>4 DEF Told, Nobody
  <2>5. ASSUME messages'[i] = Leave(d)
        PROVE  /\ Releasing(d)'
               /\ \/ channel_active'[d] = "epg" \/ Starting(d)'
                  \/ \E j \in DOMAIN messages' : j < i /\ messages'[j] = Start(d)
    <3>1. d # c
      BY <1>2, <2>5
    <3>2. /\ Releasing(d)
          /\ \/ channel_active[d] = "epg"
             \/ \E j \in DOMAIN messages : j < i + 1 /\ messages[j] = Start(d)
      BY <1>4, <2>1, <2>2, <2>5 DEF Told
    <3>3. Releasing(d)' /\ channel_active'[d] = channel_active[d]
      BY <1>0, <1>3, <1>7, <3>1, <3>2 DEF Releasing
    <3>4. (\E j \in DOMAIN messages : j < i + 1 /\ messages[j] = Start(d))
            => \E j \in DOMAIN messages' : j < i /\ messages'[j] = Start(d)
      BY <1>0, <1>7, StartWaits
    <3> QED BY <3>2, <3>3, <3>4
  <2> QED BY <2>3, <2>4, <2>5 DEF Told
<1>10. AllClaimed' /\ AllTold'
  BY <1>0, <1>3, <1>8, <1>9 DEF AllClaimed, AllTold, Told
<1>11. ASSUME NEW d \in Channels PROVE ChannelOK(d)'
  <2>1. /\ ChannelOK(d) /\ Releasing(d)' = Releasing(d) /\ Erasing(d)' = Erasing(d)
    BY <1>0 DEF IInv, Releasing, Erasing
  <2>2. CASE d = c /\ c \in known
    BY <1>0, <1>3, <1>4, <1>5, <2>1, <2>2 DEF ChannelOK, Active, Nobody
  <2>3. CASE d # c \/ c \notin known
    <3>1. (Active(d)' => Active(d)) /\ channel_active'[d] = channel_active[d]
      BY <1>3, <2>3 DEF Active
    <3> QED BY <1>0, <1>3, <1>4, <2>1, <3>1 DEF ChannelOK
  <2> QED BY <2>2, <2>3
<1>12. (~m_running => epg = [pc |-> "off", c |-> "none"])'
  BY <1>0 DEF IInv
<1> QED BY <1>2, <1>6, <1>10, <1>11, <1>12 DEF IInv, MessagesOK

LEMMA StartEPGStep ==
  ASSUME IInv, NEW c \in Channels, StartEPG(c)
  PROVE  IInv'
<1> USE DEF locks, reading
<1>0. /\ c \in zapTimer \ abortTimer /\ messages = <<>> /\ state' = [state EXCEPT ![c] = 0]
      /\ zapTimer' = zapTimer \ {c} /\ abortTimer' = abortTimer \cup {c}
      /\ isRunning' = [isRunning EXCEPT ![c] = Sources]
      /\ haveData' = [haveData EXCEPT ![c] = {}] /\ complete' = [complete EXCEPT ![c] = Sources]
      /\ UNCHANGED <<adds, m_running, known, tuned, messages, channel_active, channel_map_lock, main, epg>>
  BY DEF StartEPG, Without
<1>1. ThreadTypes'
  BY <1>0 DEF IInv, ThreadTypes
<1>2. channel_active[c] = "epg" /\ state[c] >= 0 /\ known \subseteq Channels
  BY <1>0 DEF IInv, ChannelOK, Active, ThreadTypes
<1>3. \A d \in Channels : state'[d] = IF d = c THEN 0 ELSE state[d]
  BY <1>0 DEF IInv, ThreadTypes
<1>4. MessagesOK'
  <2>1. \A d \in known : state'[d] >= 0 <=> state[d] >= 0
    BY <1>2, <1>3
  <2> QED BY <1>0, <2>1, MessagesStay DEF IInv
<1>5. ASSUME NEW d \in Channels PROVE ChannelOK(d)'
  <2>1. /\ ChannelOK(d) /\ Releasing(d)' = Releasing(d) /\ Erasing(d)' = Erasing(d)
        /\ Starting(d)' = Starting(d)
    BY <1>0 DEF IInv, Releasing, Erasing, Starting
  <2>2. CASE d = c
    <3>1. state'[d] = 0 /\ state[d] \in {0, 1, 2} /\ channel_active[d] = "epg"
      BY <1>1, <1>2, <1>3, <2>2 DEF IInv, ThreadTypes
    <3>2. d \in known /\ d \in tuned /\ ~Starting(d) /\ ~Erasing(d)
      BY <2>1, <3>1 DEF ChannelOK
    <3> QED BY <1>0, <2>1, <3>1, <3>2 DEF ChannelOK
  <2>3. CASE d # c
    <3>1. Active(d)' = Active(d) /\ (d \in abortTimer' => d \in abortTimer) /\ state'[d] = state[d]
      BY <1>0, <1>3, <2>3 DEF Active, IInv, ThreadTypes
    <3> QED BY <1>0, <2>1, <3>1 DEF ChannelOK
  <2> QED BY <2>2, <2>3
<1> QED BY <1>0, <1>1, <1>4, <1>5 DEF IInv

LEMMA AbortNonAvailStep ==
  ASSUME IInv, NEW c \in Channels, AbortNonAvail(c)
  PROVE  IInv'
<1> USE DEF locks, reading
<1>0. /\ c \in abortTimer
      /\ UNCHANGED <<adds, m_running, known, tuned, haveData, zapTimer, messages, channel_active,
                     channel_map_lock, main, epg>>
  BY DEF AbortNonAvail
<1>1. channel_active[c] = "epg" /\ state[c] \in {0, 1} /\ known \subseteq Channels
  BY <1>0 DEF IInv, ChannelOK, Active, ThreadTypes
<1>2. PICK left \in SUBSET Sources :
        /\ isRunning' = [isRunning EXCEPT ![c] = left]
        /\ state' = [state EXCEPT ![c] = IF state[c] = 0 /\ left = {} THEN 2 ELSE @ + 1]
        /\ complete' = IF state[c] = 0 /\ left = {} THEN [complete EXCEPT ![c] = Sources] ELSE complete
        /\ abortTimer' = AbortTimerAfter(c, left)
  <2>1. (IF state[c] = 0 THEN isRunning[c] \cap haveData[c] ELSE isRunning[c]) \in SUBSET Sources
    BY DEF IInv, ThreadTypes
  <2> QED BY <2>1 DEF AbortNonAvail
<1>3. /\ state'[c] \in {1, 2} /\ state' \in [Channels -> -2 .. 2]
      /\ \A d \in Channels \ {c} : state'[d] = state[d] /\ isRunning'[d] = isRunning[d]
      /\ abortTimer' \subseteq abortTimer /\ (c \in abortTimer' => state'[c] = 1)
      /\ isRunning' \in [Channels -> SUBSET Sources] /\ complete' \in [Channels -> SUBSET Sources]
  BY <1>1, <1>2 DEF IInv, ThreadTypes, AbortTimerAfter
<1>4. ThreadTypes'
  BY <1>0, <1>3 DEF IInv, ThreadTypes
<1>5. MessagesOK'
  <2>1. \A d \in known : state'[d] >= 0 <=> state[d] >= 0
    BY <1>1, <1>3
  <2> QED BY <1>0, <2>1, MessagesStay DEF IInv
<1>6. ASSUME NEW d \in Channels PROVE ChannelOK(d)'
  <2>1. /\ ChannelOK(d) /\ Releasing(d)' = Releasing(d) /\ Erasing(d)' = Erasing(d)
        /\ Starting(d)' = Starting(d)
    BY <1>0 DEF IInv, Releasing, Erasing, Starting
  <2>2. CASE d = c
    <3>1. state'[c] \in {0, 1, 2} /\ state[c] >= -1
      BY <1>1, <1>3
    <3> QED BY <1>0, <1>1, <1>3, <2>1, <2>2, <3>1 DEF ChannelOK
  <2>3. CASE d # c
    <3>1. (Active(d)' => Active(d)) /\ (d \in abortTimer' => d \in abortTimer) /\ state'[d] = state[d]
      BY <1>0, <1>3, <2>3 DEF Active
    <3> QED BY <1>0, <2>1, <3>1 DEF ChannelOK
  <2> QED BY <2>2, <2>3
<1> QED BY <1>0, <1>4, <1>5, <1>6 DEF IInv

LEMMA ReadDataStep ==
  ASSUME IInv, NEW c \in Channels, NEW s \in Sources, ReadData(c, s)
  PROVE  IInv'
<1> USE DEF locks, reading
<1>0. /\ s \in isRunning[c]
      /\ UNCHANGED <<adds, m_running, known, tuned, state, abortTimer, messages, channel_active,
                     channel_map_lock, main, epg>>
  BY DEF ReadData
<1>1. ThreadTypes
  BY DEF IInv
<1>2. /\ isRunning' \in [Channels -> SUBSET Sources] /\ haveData' \in [Channels -> SUBSET Sources]
      /\ complete' \in [Channels -> SUBSET Sources]
      /\ zapTimer' \subseteq zapTimer \cup {c}
      /\ \A d \in Channels \ {c} : isRunning'[d] = isRunning[d]
  <2>1. CASE SourceEnds(c, s)
    BY <1>1, <2>1 DEF SourceEnds, ThreadTypes
  <2>2. CASE NewSection(c, s)
    <3>1. PICK all \in {{}, {s}} : complete' = [complete EXCEPT ![c] = (@ \ {s}) \cup all]
      BY <2>2 DEF NewSection
    <3>2. haveData' = [haveData EXCEPT ![c] = @ \cup {s}] \/ UNCHANGED haveData
      BY <2>2 DEF NewSection
    <3>3. UNCHANGED <<isRunning, zapTimer>>
      BY <2>2 DEF NewSection
    <3> QED BY <1>1, <3>1, <3>2, <3>3 DEF ThreadTypes
  <2> QED BY <2>1, <2>2 DEF ReadData
<1>3. ThreadTypes'
  BY <1>0, <1>1, <1>2 DEF ThreadTypes
<1>4. MessagesOK'
  BY <1>0, MessagesStay DEF IInv
<1>5. ASSUME NEW d \in Channels PROVE ChannelOK(d)'
  <2>1. /\ ChannelOK(d) /\ Releasing(d)' = Releasing(d) /\ Erasing(d)' = Erasing(d)
        /\ Starting(d)' = Starting(d)
    BY <1>0 DEF IInv, Releasing, Erasing, Starting
  <2>2. Active(d)' => Active(d)
    BY <1>0, <1>2 DEF Active
  <2> QED BY <1>0, <2>1, <2>2 DEF ChannelOK
<1> QED BY <1>0, <1>3, <1>4, <1>5 DEF IInv

\* Channels come up one by one: those that wait for the thread can be counted.
LEMMA KnownIsFinite == Spec => []IsFiniteSet(known)
<1>1. Init => IsFiniteSet(known)
  BY FS_EmptySet DEF Init
<1>2. IsFiniteSet(known) /\ [Next]_vars => IsFiniteSet(known)'
  <2>1. ASSUME IsFiniteSet(known), NEW c, known' = known \cup {c} PROVE IsFiniteSet(known)'
    BY <2>1, FS_AddElement
  <2>2. ASSUME IsFiniteSet(known), NEW c, known' = known \ {c} PROVE IsFiniteSet(known)'
    BY <2>2, FS_RemoveElement
  <2>3. [Next]_vars => (\E c : known' = known \cup {c} \/ known' = known \ {c}) \/ UNCHANGED known
    <3>1. ASSUME NEW c \in Channels, ChannelAdded(c) \/ ChannelRunning(c) \/ ReleaseBegins(c)
          PROVE  known' = known \cup {c} \/ UNCHANGED known
      BY <3>1 DEF ChannelAdded, ChannelRunning, ReleaseBegins
    <3>2. TimeUpdated \/ LockChannel \/ GotStart \/ StartChannel \/ GotLeave => UNCHANGED known
      BY DEF TimeUpdated, LockChannel, GotStart, StartChannel, GotLeave
    <3>3. EraseChannel => known' = known \ {main.c}
      BY DEF EraseChannel
    <3>4. ASSUME NEW c \in Channels, StartEPG(c) \/ AbortNonAvail(c) \/ \E s \in Sources : ReadData(c, s)
          PROVE  UNCHANGED known
      BY <3>4 DEF StartEPG, AbortNonAvail, ReadData
    <3>5. StoreStep \/ UNCHANGED vars => UNCHANGED known
      BY DEF StoreStep, vars
    <3> QED BY <3>1, <3>2, <3>3, <3>4, <3>5 DEF Next
  <2> QED BY <2>1, <2>2, <2>3
<1> QED BY <1>1, <1>2, PTL DEF Spec

LEMMA TimeUpdatedStep ==
  ASSUME IInv, IsFiniteSet(known), TimeUpdated
  PROVE  IInv'
<1> USE DEF locks, reading
<1> DEFINE waiting == {c \in known : state[c] = -1}
           count == Cardinality(waiting)
<1>0. /\ main = Idle /\ ~m_running /\ m_running' = TRUE /\ epg' = Loop
      /\ state' = [c \in Channels |-> IF c \in waiting THEN 0 ELSE state[c]]
      /\ UNCHANGED <<adds, known, tuned, isRunning, haveData, complete, zapTimer, abortTimer,
                     channel_active, channel_map_lock, main>>
  BY DEF TimeUpdated, MainIdle
<1>1. PICK nth \in Bijection(1 .. count, waiting) :
        messages' = messages \o [i \in 1 .. count |-> [type |-> "start", c |-> nth[i]]]
  BY DEF TimeUpdated
<1>2. count \in Nat /\ messages \in Seq(Message) /\ known \subseteq Channels
  <2>1. IsFiniteSet(waiting)
    BY FS_Subset
  <2> QED BY <2>1, FS_CardinalityType DEF IInv, ThreadTypes, Message
<1>3. \A c \in waiting : c \in known /\ state[c] = -1
  OBVIOUS
<1>4. \A c \in known : state[c] = -1 => c \in waiting
  OBVIOUS
<1> HIDE DEF waiting, count
<1>5. /\ nth \in [1 .. count -> waiting]
      /\ \A i, j \in 1 .. count : nth[i] = nth[j] => i = j
      /\ \A c \in waiting : \E i \in 1 .. count : nth[i] = c
  BY DEF Bijection, Injection, Surjection, IsInjective
<1> DEFINE new == [i \in 1 .. count |-> Start(nth[i])]
<1>6. new \in Seq(Message) /\ Len(new) = count /\ \A i \in 1 .. count : new[i] = Start(nth[i])
  <2>1. \A i \in 1 .. count : Start(nth[i]) \in Message
    BY <1>2, <1>3, <1>5 DEF Start, Message
  <2> QED BY <1>2, <2>1
<1>7. messages' = messages \o new
  BY <1>1 DEF Start
<1> HIDE DEF new
<1>8. /\ messages' \in Seq(Message) /\ DOMAIN messages = 1 .. Len(messages) /\ Len(messages) \in Nat
      /\ DOMAIN messages' = 1 .. Len(messages) + count
      /\ \A i \in DOMAIN messages : messages'[i] = messages[i]
      /\ \A i \in 1 .. count : messages'[Len(messages) + i] = Start(nth[i])
  <2>1. DOMAIN messages = 1 .. Len(messages) /\ Len(messages) \in Nat
    BY <1>2
  <2>2. messages \o new \in Seq(Message) /\ Len(messages \o new) = Len(messages) + Len(new)
    BY <1>2, <1>6
  <2>3. DOMAIN (messages \o new) = 1 .. Len(messages \o new)
    BY <2>2
  <2>4. \A i \in 1 .. Len(messages) : (messages \o new)[i] = messages[i]
    BY <1>2, <1>6
  <2>5. ASSUME NEW i \in 1 .. count PROVE (messages \o new)[Len(messages) + i] = new[i]
    BY <1>2, <1>6, <2>5
  <2> QED BY <1>6, <1>7, <2>1, <2>2, <2>3, <2>4, <2>5
<1>9. \A i \in DOMAIN messages : messages[i].c \notin waiting
  BY <1>3 DEF IInv, MessagesOK, AllTold, Told
<1>10. ASSUME NEW i \in DOMAIN messages'
       PROVE  \/ i \in DOMAIN messages /\ messages'[i] = messages[i]
              \/ \E k \in 1 .. count : i = Len(messages) + k /\ messages'[i] = Start(nth[k])
  <2>1. CASE i > Len(messages)
    <3>1. i - Len(messages) \in 1 .. count /\ i = Len(messages) + (i - Len(messages))
      BY <1>2, <1>8, <2>1
    <3> QED BY <1>8, <3>1
  <2>2. CASE ~(i > Len(messages))
    BY <1>2, <1>8, <2>2
  <2> QED BY <2>1, <2>2
<1>11. Distinct'
  <2>1. ASSUME NEW i \in DOMAIN messages', NEW j \in DOMAIN messages', messages'[i] = messages'[j]
        PROVE  i = j
    <3>1. CASE i \in DOMAIN messages /\ j \in DOMAIN messages
      BY <1>8, <2>1, <3>1 DEF IInv, MessagesOK, Distinct
    <3>2. ASSUME NEW a \in DOMAIN messages, NEW k \in 1 .. count, messages[a] = Start(nth[k])
          PROVE  FALSE
      <4>1. messages[a].c = nth[k] /\ nth[k] \in waiting
        BY <1>5, <3>2, MessageNames
      <4> QED BY <1>9, <4>1
    <3>3. ASSUME NEW k \in 1 .. count, NEW l \in 1 .. count, Start(nth[k]) = Start(nth[l])
          PROVE  k = l
      BY <1>5, <3>3, MessageNames
    <3> QED BY <1>10, <2>1, <3>1, <3>2, <3>3
  <2> QED BY <2>1 DEF Distinct
<1>12. /\ \A d \in known \ waiting : state'[d] = state[d]
       /\ \A d \in waiting : state'[d] = 0
       /\ \A d \in Channels \ known : state'[d] = state[d]
       /\ \A d : ~Starting(d) /\ ~Starting(d)' /\ ~Releasing(d) /\ ~Releasing(d)'
  BY <1>0, <1>2, <1>3 DEF IInv, Starting, Releasing, Loop
<1>13. ASSUME NEW d \in known, state'[d] >= 0 PROVE Claimed(d)'
  <2>1. CASE d \in waiting
    <3>1. PICK i \in 1 .. count : nth[i] = d
      BY <1>5, <2>1
    <3>2. Len(messages) + i \in DOMAIN messages' /\ messages'[Len(messages) + i] = Start(d)
      BY <1>2, <1>8, <3>1
    <3> QED BY <3>2 DEF Claimed
  <2>2. CASE d \notin waiting
    <3>1. Claimed(d)
      BY <1>12, <1>13, <2>2 DEF IInv, MessagesOK, AllClaimed
    <3>2. \A j \in DOMAIN messages : j \in DOMAIN messages'
      BY <1>2, <1>8
    <3> QED BY <1>0, <1>8, <1>12, <3>1, <3>2 DEF Claimed
  <2> QED BY <2>1, <2>2
<1>14. \A d \in known : channel_active[d] = "epg" => state[d] >= 0
  BY <1>2 DEF IInv, ChannelOK
<1>15. ASSUME NEW i \in DOMAIN messages', NEW d \in known, messages'[i].c = d
       PROVE  Told(d, i)'
  <2>1. CASE i \in DOMAIN messages /\ messages'[i] = messages[i]
    <3>1. Told(d, i) /\ d \notin waiting
      BY <1>9, <1>15, <2>1 DEF IInv, MessagesOK, AllTold
    <3>2. messages[i] # Leave(d)
      BY <1>12, <3>1 DEF Told
    <3> QED BY <1>0, <1>12, <2>1, <3>1, <3>2 DEF Told
  <2>2. ASSUME NEW k \in 1 .. count, messages'[i] = Start(nth[k]) PROVE Told(d, i)'
    <3>1. nth[k] = d /\ d \in waiting /\ Start(d) # Leave(d) /\ messages'[i] = Start(d)
      BY <1>5, <1>15, <2>2, MessageNames
    <3>2. state'[d] = 0 /\ channel_active'[d] # "epg"
      BY <1>0, <1>3, <1>12, <1>14, <3>1
    <3> QED BY <1>12, <3>1, <3>2 DEF Told
  <2> QED BY <1>10, <2>1, <2>2
<1>16. AllClaimed' /\ AllTold'
  BY <1>0, <1>13, <1>15 DEF AllClaimed, AllTold, Told
<1>17. ThreadTypes'
  <2>1. state' \in [Channels -> -2 .. 2]
    BY <1>0 DEF IInv, ThreadTypes
  <2> QED BY <1>0, <1>8, <2>1 DEF IInv, ThreadTypes, Message
<1>18. ASSUME NEW d \in Channels PROVE ChannelOK(d)'
  <2>1. ChannelOK(d) /\ Erasing(d)' = Erasing(d) /\ Active(d)' = Active(d)
    BY <1>0 DEF IInv, Erasing, Active
  <2>2. CASE d \in waiting
    <3>1. d \in known /\ state[d] = -1 /\ state'[d] = 0
      BY <1>3, <1>12, <2>2
    <3>2. d \in tuned /\ channel_active[d] # "epg"
      BY <2>1, <3>1 DEF ChannelOK
    <3> QED BY <1>0, <1>12, <2>1, <3>1, <3>2 DEF ChannelOK
  <2>3. CASE d \notin waiting
    <3>1. state'[d] = state[d]
      BY <1>12, <2>3
    <3> QED BY <1>0, <1>12, <2>1, <3>1 DEF ChannelOK
  <2> QED BY <2>2, <2>3
<1> QED BY <1>0, <1>11, <1>16, <1>17, <1>18 DEF IInv, MessagesOK

LEMMA ThreadsInvariance == Spec => []IInv
<1>1. Init => IInv
  <2>1. ASSUME Init PROVE ThreadTypes
    <3>1. adds \in 0 .. MaxAdds /\ messages \in Seq([type : {"start", "leave"}, c : Channels])
      BY <2>1, ChannelsAssumption DEF Init
    <3>2. main = Idle /\ epg = [pc |-> "off", c |-> "none"]
      BY <2>1 DEF Init
    <3>3. /\ state \in [Channels -> -2 .. 2] /\ complete \in [Channels -> SUBSET Sources]
          /\ isRunning \in [Channels -> SUBSET Sources] /\ haveData \in [Channels -> SUBSET Sources]
          /\ channel_active \in [Channels -> {Nobody, "main", "epg"}]
      BY <2>1 DEF Init
    <3> QED BY <2>1, <3>1, <3>2, <3>3 DEF Init, ThreadTypes
  <2>2. ASSUME Init PROVE MessagesOK
    BY <2>1, <2>2 DEF Init, MessagesOK, Distinct, AllClaimed, AllTold
  <2>3. ASSUME Init, NEW c \in Channels PROVE ChannelOK(c)
    BY <2>3 DEF Init, ChannelOK, Active, Starting, Releasing, Erasing, Idle, Nobody
  <2> QED BY <2>1, <2>2, <2>3 DEF Init, IInv
<1>2. IInv /\ IsFiniteSet(known) /\ [Next]_vars => IInv'
  <2> SUFFICES ASSUME IInv, IsFiniteSet(known), [Next]_vars PROVE IInv'
    OBVIOUS
  <2>1. ASSUME NEW c \in Channels, ChannelAdded(c) \/ ChannelRunning(c) \/ ReleaseBegins(c)
        PROVE  IInv'
    BY <2>1, ChannelAddedStep, ChannelRunningStep, ReleaseBeginsStep
  <2>2. CASE TimeUpdated \/ LockChannel \/ EraseChannel
    BY <2>2, TimeUpdatedStep, LockChannelStep, EraseChannelStep
  <2>3. CASE GotStart \/ StartChannel \/ GotLeave
    BY <2>3, GotStartStep, StartChannelStep, GotLeaveStep
  <2>4. ASSUME NEW c \in Channels, StartEPG(c) \/ AbortNonAvail(c) \/ \E s \in Sources : ReadData(c, s)
        PROVE  IInv'
    BY <2>4, StartEPGStep, AbortNonAvailStep, ReadDataStep
  <2>5. CASE StoreStep \/ UNCHANGED vars
    <3>1. UNCHANGED threads
      BY <2>5 DEF StoreStep, threads, vars
    <3> QED BY <3>1, ThreadsStay
  <2> QED BY <2>1, <2>2, <2>3, <2>4, <2>5 DEF Next
<1> QED BY <1>1, <1>2, KnownIsFinite, PTL DEF Spec

\* The threads' state stays within its types, the store's included; state never passes 2,
\* though abortNonAvail counts it up.
THEOREM EpgTypes == Spec => []TypeOK
<1>1. IInv /\ StoreTypeOK => TypeOK
  BY DEF IInv, ThreadTypes, TypeOK
<1> QED BY <1>1, ThreadsInvariance, EpgImplementsStore, EpgStoreTypes, PTL

\* The EPG thread reads a channel, and keeps timers for it, only while it holds its lock, so that
\* DVBChannelStateChanged deletes no channel_data in use (epgcache.cpp, channel_active); and it
\* starts readers only on a channel that has them, however the messages of channels that come
\* and go wait in the pump.
THEOREM ReadsUnderLockAlways == Spec => []ReadsUnderLock
<1>1. IInv => ReadsUnderLock
  BY DEF IInv, ChannelOK, Active, ReadsUnderLock
<1> QED BY <1>1, ThreadsInvariance, PTL
=============================================================================
