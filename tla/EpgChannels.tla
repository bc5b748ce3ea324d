---------------------------- MODULE EpgChannels ----------------------------
(* The two threads of the EPG cache (lib/dvb/epgcache.cpp). The main thread tells it of
   channels that come up and go, by messages; the EPG thread reads the sections of the
   channels that are up into the store. channel_active is locked by the EPG thread in
   startChannel and unlocked in abortEPG, so that the main thread, which locks it before it
   deletes a channel's data, waits for the EPG thread to be done with it. Each step runs
   between two waits. Left out: flushEPG, which only plugins call, the private and MHW
   readers, and the end of the program.                                                *)
EXTENDS EpgStore, Sequences, FiniteSets, Functions

CONSTANTS
  Channels,     \* addresses of eDVBChannels
  MaxAdds       \* bounds the channels added
ASSUME ChannelsAssumption == MaxAdds \in Nat /\ Channels # {}

VARIABLES
  adds,
  m_running,
  known,        \* m_knownChannels
  tuned,        \* prevChannelState is state_ok
  state,        \* of channel_data: -2 not up, -1 up before the thread, 0 .. 2
  isRunning,    \* the sources read on a channel
  haveData,     \* the sources that have delivered a valid event
  complete,     \* the sources with seenSections = calcedSections
  zapTimer, abortTimer,  \* the channels whose timer is pending
  messages,     \* the pump to the EPG thread
  channel_active, channel_map_lock,   \* who holds the locks
  main,         \* the main thread: [pc, c]: idle, or c's release waits for a lock
  epg           \* the EPG thread: [pc, c]: off, in its loop, or in startChannel of c

locks == <<channel_active, channel_map_lock>>
reading == <<state, isRunning, haveData, complete, zapTimer, abortTimer>>
vars == <<store, adds, m_running, known, tuned, reading, messages, locks, main, epg>>

Nobody == "free"
Idle == [pc |-> "idle", c |-> "none"]
Loop == [pc |-> "loop", c |-> "none"]

Send(type, c) == messages' = Append(messages, [type |-> type, c |-> c])
Without(f, c) == [f EXCEPT ![c] = {}]

-----------------------------------------------------------------------------
(* The main thread. *)

MainIdle == main = Idle

\* DVBChannelAdded. A new channel does not get an address that a message still names.
ChannelAdded(c) ==
  /\ MainIdle /\ c \notin known /\ adds < MaxAdds /\ channel_map_lock = Nobody
  /\ \A i \in DOMAIN messages : messages[i].c # c
  /\ adds' = adds + 1
  /\ known' = known \cup {c}
  /\ tuned' = tuned \ {c}
  /\ state' = [state EXCEPT ![c] = -2]
  /\ isRunning' = Without(isRunning, c) /\ haveData' = Without(haveData, c)
  /\ complete' = [complete EXCEPT ![c] = Sources]
  /\ channel_active' = [channel_active EXCEPT ![c] = Nobody]
  /\ UNCHANGED <<store, m_running, zapTimer, abortTimer, messages, channel_map_lock, main, epg>>

\* DVBChannelStateChanged to state_ok, and DVBChannelRunning, which fails without a demux.
ChannelRunning(c) ==
  /\ MainIdle /\ c \in known \ tuned
  /\ tuned' = tuned \cup {c}
  /\ \/ UNCHANGED <<state, messages>>
     \/ IF m_running
        THEN state' = [state EXCEPT ![c] = 0] /\ Send("start", c)
        ELSE state' = [state EXCEPT ![c] = -1] /\ UNCHANGED messages
  /\ UNCHANGED <<store, adds, m_running, known, isRunning, haveData, complete, zapTimer,
                 abortTimer, locks, main, epg>>

\* timeUpdated: run() starts the thread, and the channels that waited for it.
TimeUpdated ==
  /\ MainIdle /\ ~m_running /\ channel_map_lock = Nobody
  /\ m_running' = TRUE
  /\ epg' = Loop
  /\ LET waiting == {c \in known : state[c] = -1}
     IN  /\ state' = [c \in Channels |-> IF c \in waiting THEN 0 ELSE state[c]]
         /\ \E nth \in Bijection(1 .. Cardinality(waiting), waiting) :
              messages' = messages \o [i \in 1 .. Cardinality(waiting) |->
                                          [type |-> "start", c |-> nth[i]]]
  /\ UNCHANGED <<store, adds, known, tuned, isRunning, haveData, complete, zapTimer, abortTimer,
                 locks, main>>

\* DVBChannelStateChanged to state_release, up to the first lock.
ReleaseBegins(c) ==
  /\ MainIdle /\ c \in known
  /\ IF state[c] >= 0 THEN Send("leave", c) ELSE UNCHANGED messages
  /\ main' = [pc |-> "release", c |-> c]
  /\ UNCHANGED <<store, adds, m_running, known, tuned, reading, locks, epg>>

LockChannel ==
  /\ main.pc = "release" /\ channel_active[main.c] = Nobody
  /\ channel_active' = [channel_active EXCEPT ![main.c] = "main"]
  /\ main' = [main EXCEPT !.pc = "erase"]
  /\ UNCHANGED <<store, adds, m_running, known, tuned, reading, messages, channel_map_lock, epg>>

\* Erases it under channel_map_lock, unlocks and deletes the channel_data.
EraseChannel ==
  /\ main.pc = "erase" /\ channel_map_lock = Nobody
  /\ known' = known \ {main.c}
  /\ channel_active' = [channel_active EXCEPT ![main.c] = Nobody]
  /\ main' = Idle
  /\ UNCHANGED <<store, adds, m_running, tuned, reading, messages, channel_map_lock, epg>>

-----------------------------------------------------------------------------
(* The EPG thread. *)

InLoop == epg = Loop
NextMessage(type) == InLoop /\ messages # <<>> /\ Head(messages).type = type

\* gotMessage for startChannel takes channel_map_lock and finds the channel.
GotStart ==
  /\ NextMessage("start") /\ channel_map_lock = Nobody
  /\ messages' = Tail(messages)
  /\ IF Head(messages).c \in known
     THEN channel_map_lock' = "epg" /\ epg' = [pc |-> "start", c |-> Head(messages).c]
     ELSE UNCHANGED <<channel_map_lock, epg>>
  /\ UNCHANGED <<store, adds, m_running, known, tuned, reading, channel_active, main>>

\* startChannel
StartChannel ==
  /\ epg.pc = "start" /\ channel_active[epg.c] = Nobody
  /\ channel_active' = [channel_active EXCEPT ![epg.c] = "epg"]
  /\ zapTimer' = zapTimer \cup {epg.c}
  /\ channel_map_lock' = Nobody
  /\ epg' = Loop
  /\ UNCHANGED <<store, adds, m_running, known, tuned, state, isRunning, haveData, complete,
                 abortTimer, messages, main>>

\* Mutants of AbortEPG: zapTimer is not stopped; a channel that reads nothing is not unlocked.
AbortKeepsZap(c) ==
  /\ complete' = [complete EXCEPT ![c] = Sources]
  /\ abortTimer' = abortTimer \ {c}
  /\ isRunning' = Without(isRunning, c)
  /\ channel_active' = [channel_active EXCEPT ![c] = Nobody]
  /\ UNCHANGED <<state, haveData, zapTimer>>
AbortKeepsLock(c) ==
  /\ complete' = [complete EXCEPT ![c] = Sources]
  /\ zapTimer' = zapTimer \ {c} /\ abortTimer' = abortTimer \ {c}
  /\ isRunning' = Without(isRunning, c)
  /\ channel_active' = [channel_active EXCEPT ![c] = IF isRunning[c] = {} THEN @ ELSE Nobody]
  /\ UNCHANGED <<state, haveData>>

\* abortEPG
AbortEPG(c) ==
  /\ complete' = [complete EXCEPT ![c] = Sources]
  /\ zapTimer' = zapTimer \ {c} /\ abortTimer' = abortTimer \ {c}
  /\ isRunning' = Without(isRunning, c)
  /\ channel_active' = [channel_active EXCEPT ![c] = Nobody]
  /\ UNCHANGED <<state, haveData>>

GotLeave ==
  /\ NextMessage("leave") /\ channel_map_lock = Nobody
  /\ messages' = Tail(messages)
  /\ IF Head(messages).c \in known
     THEN AbortEPG(Head(messages).c)
     ELSE UNCHANGED <<reading, channel_active>>
  /\ UNCHANGED <<store, adds, m_running, known, tuned, channel_map_lock, main, epg>>

\* startEPG, on zapTimer. Its shortest interval, ZAP_DELAY, outlasts the messages in the
\* pump; its longest, UPDATE_INTERVAL, outlasts the abort timer.
StartEPG(c) ==
  /\ InLoop /\ c \in zapTimer \ abortTimer /\ messages = <<>>
  /\ zapTimer' = zapTimer \ {c} /\ abortTimer' = abortTimer \cup {c}
  /\ state' = [state EXCEPT ![c] = 0]
  /\ isRunning' = [isRunning EXCEPT ![c] = Sources]
  /\ haveData' = Without(haveData, c)
  /\ complete' = [complete EXCEPT ![c] = Sources]
  /\ UNCHANGED <<store, adds, m_running, known, tuned, messages, locks, main, epg>>

AbortTimerAfter(c, left) == IF state[c] = 0 /\ left # {} THEN abortTimer ELSE abortTimer \ {c}

\* abortNonAvail, on abortTimer: the sources that brought nothing in the first seconds are
\* given up; after 90 seconds (300 with VIASAT) the others may end at any section.
AbortNonAvail(c) ==
  /\ InLoop /\ c \in abortTimer
  /\ LET left == IF state[c] = 0 THEN isRunning[c] \cap haveData[c] ELSE isRunning[c]
         none == state[c] = 0 /\ left = {}
     IN  /\ isRunning' = [isRunning EXCEPT ![c] = left]
         /\ state' = [state EXCEPT ![c] = IF none THEN 2 ELSE @ + 1]
         /\ complete' = IF none THEN [complete EXCEPT ![c] = Sources] ELSE complete
         /\ abortTimer' = AbortTimerAfter(c, left)
  /\ UNCHANGED <<store, adds, m_running, known, tuned, haveData, zapTimer, messages, locks, main, epg>>

\* readData at the end of a source, and finishEPG after the last one.
SourceEnds(c, s) ==
  /\ isRunning' = [isRunning EXCEPT ![c] = @ \ {s}]
  /\ IF isRunning[c] = {s}
     THEN zapTimer' = zapTimer \cup {c} /\ complete' = [complete EXCEPT ![c] = Sources]
     ELSE UNCHANGED <<zapTimer, complete>>
  /\ UNCHANGED <<byEvent, byTime, haveData>>

\* readData of a section not seen before: more of its table is outstanding, or nothing.
NewSection(c, s) ==
  /\ \E all \in {{}, {s}} : complete' = [complete EXCEPT ![c] = (@ \ {s}) \cup all]
  /\ \/ Section(s) /\ haveData' = [haveData EXCEPT ![c] = @ \cup {s}]
     \/ UNCHANGED <<byEvent, byTime, haveData>>     \* an NVOD reference
  /\ UNCHANGED <<isRunning, zapTimer>>

\* Mutant of Ending: a source ends when it is complete, never for want of time.
EndsComplete(c, s) == state[c] = 1 /\ s \in complete[c]

Ending(c, s) == state[c] > 1 \/ (state[c] = 1 /\ s \in complete[c])

ReadData(c, s) ==
  /\ InLoop /\ s \in isRunning[c]
  /\ IF Ending(c, s) THEN SourceEnds(c, s) ELSE NewSection(c, s)
  /\ UNCHANGED <<now, adds, m_running, known, tuned, state, abortTimer, messages, locks, main, epg>>

\* The actions on the store alone.
MainThreadStore == MainIdle /\ Import
EpgThreadStore == InLoop /\ CleanLoop
StoreStep ==
  /\ MainThreadStore \/ EpgThreadStore \/ Tick
  /\ UNCHANGED <<adds, m_running, known, tuned, reading, messages, locks, main, epg>>

-----------------------------------------------------------------------------

Init ==
  /\ StoreInit
  /\ adds = 0 /\ m_running = FALSE
  /\ known = {} /\ tuned = {}
  /\ state = [c \in Channels |-> -2]
  /\ isRunning = [c \in Channels |-> {}] /\ haveData = [c \in Channels |-> {}]
  /\ complete = [c \in Channels |-> Sources]
  /\ zapTimer = {} /\ abortTimer = {}
  /\ messages = <<>>
  /\ channel_active = [c \in Channels |-> Nobody] /\ channel_map_lock = Nobody
  /\ main = Idle /\ epg = [pc |-> "off", c |-> "none"]

Next ==
  \/ \E c \in Channels : ChannelAdded(c) \/ ChannelRunning(c) \/ ReleaseBegins(c)
  \/ TimeUpdated \/ LockChannel \/ EraseChannel
  \/ GotStart \/ StartChannel \/ GotLeave
  \/ \E c \in Channels : StartEPG(c) \/ AbortNonAvail(c) \/ \E s \in Sources : ReadData(c, s)
  \/ StoreStep

Spec == Init /\ [][Next]_vars

\* Both threads run; timers fire; a section comes again of every source that may end.
Fairness ==
  /\ WF_vars(LockChannel \/ EraseChannel)
  /\ WF_vars(GotStart \/ StartChannel \/ GotLeave)
  /\ \A c \in Channels : /\ WF_vars(AbortNonAvail(c))
                         /\ \A s \in Sources : WF_vars(Ending(c, s) /\ ReadData(c, s))
FairSpec == Spec /\ Fairness

-----------------------------------------------------------------------------

TypeOK ==
  /\ StoreTypeOK
  /\ adds \in 0 .. MaxAdds /\ m_running \in BOOLEAN
  /\ known \subseteq Channels /\ tuned \subseteq Channels
  /\ state \in [Channels -> -2 .. 2]
  /\ isRunning \in [Channels -> SUBSET Sources] /\ haveData \in [Channels -> SUBSET Sources]
  /\ complete \in [Channels -> SUBSET Sources]
  /\ zapTimer \subseteq Channels /\ abortTimer \subseteq Channels
  /\ messages \in Seq([type : {"start", "leave"}, c : Channels])
  /\ channel_active \in [Channels -> {Nobody, "main", "epg"}]
  /\ channel_map_lock \in {Nobody, "epg"}
  /\ main \in {Idle} \cup [pc : {"release", "erase"}, c : Channels]
  /\ epg \in {Loop, [pc |-> "off", c |-> "none"]} \cup [pc : {"start"}, c : Channels]

\* ReadsUnderLock (channel_active): the EPG thread holds the lock of every channel it has a
\* timer or a reader running for, so the main thread cannot delete that channel's data; and
\* it starts readers only on a channel that has them, whatever old messages it still gets.
ReadsUnderLock ==
  \A c \in Channels :
    /\ c \in zapTimer \cup abortTimer \/ isRunning[c] # {} =>
         c \in known /\ channel_active[c] = "epg"
    /\ c \in zapTimer /\ messages = <<>> => state[c] >= 0

\* The two threads wait for each other: the main thread locked channel_active before
\* startChannel did, and needs channel_map_lock, which gotMessage holds around startChannel.
LocksCrossed == epg.pc = "start" /\ main = [pc |-> "erase", c |-> epg.c]

\* ReleaseReturns (DVBChannelStateChanged): releasing a channel returns to the main loop,
\* except from the crossed locks.
ReleaseReturns == main # Idle ~> main = Idle \/ LocksCrossed

\* ReadingEnds (abortNonAvail, readData): every reading of a channel's EPG comes to its end,
\* though sources bring nothing, or tables that are never complete.
ReadingEnds == \A c \in Channels : isRunning[c] # {} ~> isRunning[c] = {} \/ LocksCrossed

\* LeaveIsHandled (the comment at epgcache.cpp:655): a leaveChannel reaches gotMessage. It does
\* not when the locks cross, and no run checks it; see the README.
LeaveIsHandled ==
  \A c \in Channels : main = [pc |-> "release", c |-> c] /\ messages # <<>> ~> messages = <<>>

=============================================================================
