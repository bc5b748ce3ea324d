------------------------------ MODULE EpgStore ------------------------------
(* The events the EPG cache (lib/dvb/epgcache.cpp) knows of one service: an EventCacheItem,
   two maps that own the same events, one by event id, one by start time. sectionRead files
   the events of EIT sections and of imports, FixOverlapping makes room for them, cleanLoop
   drops what is over. All run under cache_lock, so each is one step. Time is in units of
   the 300 seconds FixOverlapping tolerates. Left out: the descriptors, the four-week
   limit, blacklisted networks, private and MHW tables.                                 *)
EXTENDS Integers

CONSTANTS
  Ids,          \* event ids
  MaxTime,      \* bounds the clock and the start times
  Durations,    \* of events, in units
  Sources       \* enabledSources: members of Source

NOWNEXT == 1
SCHEDULE == 2
SCHEDULE_OTHER == 4
VIASAT == 256
EPG_IMPORT == -2147483647 - 1                  \* 0x80000000 in an int
PRIVATE == 0
Source == {NOWNEXT, SCHEDULE, SCHEDULE_OTHER, VIASAT}

ASSUME StoreAssumption ==
  /\ MaxTime \in Nat /\ Durations \subseteq Nat /\ Sources \subseteq Source

VARIABLES
  byEvent,      \* eventMap: the event of an id
  byTime,       \* timeMap: the event that starts at a time
  now           \* ::time(0)

store == <<byEvent, byTime, now>>

Times == 0 .. MaxTime
Event == [id : Ids, start : Times, dur : Durations, type : 0 .. 255]
NoEvent == [id |-> "none"]                     \* no entry under this key

\* eventData(): the type of the source is kept in a byte.
StoredType(source) == source % 256

\* A better source's event of this id, or of this start, is not replaced.
Superseded(e, source) ==
  LET ev == byEvent[e.id]
      tm == byTime[e.start]
  IN  IF ev # NoEvent THEN source > ev.type
      ELSE tm # NoEvent /\ source > tm.type

\* Mutant of ReachesInto: no tolerance.
Touches(p, e) == p.start + p.dur > e.start

\* The starts in tm of the events FixOverlapping deletes for e: backwards from e while they
\* reach more than a unit into it, forwards while they start more than a unit before its end.
ReachesInto(p, e) == p.start + p.dur - 1 > e.start
Overlapped(tm, e) ==
  LET filled == {t \in Times : tm[t] # NoEvent}
      before == {t \in filled : t < e.start /\ \A u \in filled :
                                   t =< u /\ u =< e.start => ReachesInto(tm[u], e)}
      after == {t \in filled : e.start < t /\ t < e.start + e.dur - 1}
  IN  {t \in before \cup after : tm[t].type # PRIVATE}

\* One event of a section: what had its id or its start goes, then what overlaps it.
File(e) ==
  LET ev == byEvent[e.id]
      tm == byTime[e.start]
      events == [i \in Ids |-> IF i = e.id THEN e
                               ELSE IF tm # NoEvent /\ tm.id = i THEN NoEvent ELSE byEvent[i]]
      times == [t \in Times |-> IF t = e.start THEN e
                                ELSE IF ev # NoEvent /\ ev.start = t THEN NoEvent ELSE byTime[t]]
      gone == Overlapped(times, e)
  IN  /\ byTime' = [t \in Times |-> IF t \in gone THEN NoEvent ELSE times[t]]
      /\ byEvent' = [i \in Ids |-> IF \E t \in gone : times[t].id = i THEN NoEvent ELSE events[i]]

Over(e, time) == time > e.start + e.dur

\* sectionRead for one event of the section.
ReadEvent(id, start, dur, source) ==
  LET e == [id |-> id, start |-> start, dur |-> dur, type |-> StoredType(source)]
  IN  IF Over(e, now) \/ Superseded(e, source) THEN UNCHANGED <<byEvent, byTime>> ELSE File(e)

Section(source) == \E id \in Ids, start \in Times, dur \in Durations : ReadEvent(id, start, dur, source)

\* submitEventData, for a plugin's importEvents.
Import == Section(EPG_IMPORT) /\ UNCHANGED now

Outdated == {t \in Times : byTime[t] # NoEvent /\ t < now /\ Over(byTime[t], now)}

\* Mutant of CleanLoop: the event stays in byEvent.
CleanTimes ==
  /\ byTime' = [t \in Times |-> IF t \in Outdated THEN NoEvent ELSE byTime[t]]
  /\ UNCHANGED <<byEvent, now>>

\* cleanTimer and Message::timeChanged.
CleanLoop ==
  LET old == Outdated
  IN  /\ byTime' = [t \in Times |-> IF t \in old THEN NoEvent ELSE byTime[t]]
      /\ byEvent' = [i \in Ids |-> IF \E t \in old : byTime[t].id = i THEN NoEvent ELSE byEvent[i]]
      /\ UNCHANGED now

Tick == now < MaxTime /\ now' = now + 1 /\ UNCHANGED <<byEvent, byTime>>

StoreInit ==
  /\ byEvent = [i \in Ids |-> NoEvent]
  /\ byTime = [t \in Times |-> NoEvent]
  /\ now = 0

StoreNext == Import \/ (\E s \in Sources : Section(s) /\ UNCHANGED now) \/ CleanLoop \/ Tick

StoreSpec == StoreInit /\ [][StoreNext]_store

-----------------------------------------------------------------------------

StoreTypeOK ==
  /\ byEvent \in [Ids -> Event \cup {NoEvent}]
  /\ byTime \in [Times -> Event \cup {NoEvent}]
  /\ now \in Times

\* MapsAgree (the eFatal checks under EPG_DEBUG, epgcache.cpp:935-951 and 961-984): both maps
\* hold the same events, each under its own id and its own start, so that none is freed
\* while the other map still points to it, or kept when no map does.
MapsAgree ==
  /\ \A i \in Ids : byEvent[i] # NoEvent =>
       /\ byEvent[i].id = i
       /\ byTime[byEvent[i].start] = byEvent[i]
  /\ \A t \in Times : byTime[t] # NoEvent =>
       /\ byTime[t].start = t
       /\ byEvent[byTime[t].id] = byTime[t]

Events == {byEvent[i] : i \in Ids} \ {NoEvent}

\* EntriesLeaveForCause (FixOverlapping, cleanLoop): an event disappears only when it is over,
\* or for one that has its id or its start, or that overlaps it by more than five minutes
\* (one without a duration: that covers it and five minutes after it).
Displaces(n, e) ==
  \/ n.id = e.id \/ n.start = e.start
  \/ e.start < n.start /\ n.start < e.start + e.dur - 1
  \/ n.start < e.start /\ e.start < n.start + n.dur - 1
EntriesLeaveForCause ==
  [][\A e \in Events \ Events' : Over(e, now) \/ \E n \in Events' : Displaces(n, e)]_store

=============================================================================
