--------------------------- MODULE RecordService ---------------------------
(***************************************************************************)
(* A recording as the main thread sees it: eDVBServiceRecord               *)
(* (lib/service/servicedvbrecord.cpp), its eDVBServicePMTHandler           *)
(* (lib/dvb/pmt.cpp) and eDVBTSRecorder (lib/dvb/demux.cpp), composed with *)
(* the thread that writes the file (RecorderThread).                       *)
(*                                                                         *)
(* The handlers call each other: tuning may find the channel tuned, which  *)
(* announces a program, which starts the recording, all before prepare     *)
(* returns.  So the operators below take the main thread's state as a      *)
(* record, make the changes in the code's order and return the record; the *)
(* choices of the surroundings come as a record c.  Only a stop takes      *)
(* several steps: it waits for the thread.                                 *)
(***************************************************************************)
EXTENDS RecorderThread

CONSTANT
  MaxFiles     \* bound: how often a target file is created

ASSUME FilesAssumption == MaxFiles \in Nat

VARIABLES
  sv,     \* the service, its PMT handler, its recorder and its owner
  mpc,    \* where the main thread is in eFilePushThreadRecorder::stop, if it is
  why,    \* on whose behalf it stops
  made    \* how many target files have been created

vars == <<rpc, mstop, source, dest, aio, holds, cur, flushed, offset, lost, msgs, file, fds,
          sv, mpc, why, made>>

ChannelStates == {"none", "tuning", "ok", "failed"}

\* The pids of a program: those known from earlier, and those only its PMT tells.
PatOnly == {"pat"}
Cached == {"pat", "cached"}
All == {"pat", "cached", "more"}

Service ==
  [owner : {"new", "prepared", "started", "gone"},
   state : {"idle", "prepared", "recording"},
   want : BOOLEAN,        \* m_want_record
   tuned : BOOLEAN,       \* m_tuned
   streaming : BOOLEAN,   \* m_streaming
   record : BOOLEAN,      \* m_record is there
   running : BOOLEAN,     \* its m_running
   fd : Nat,              \* m_target_fd, as the number of the file; 0 for -1
   active : SUBSET All,   \* m_pids_active
   pids : SUBSET All,     \* the recorder's m_pids
   chan : ChannelStates,  \* the state of m_channel
   demux : BOOLEAN,       \* m_demux is there
   cache : BOOLEAN,       \* !m_service->cacheEmpty()
   have : SUBSET All,     \* m_cached_program; empty without m_have_cached_program
   pat : BOOLEAN,         \* m_PAT has begun
   pmt : {"off", "wait", "current"},   \* m_PMT
   told : SUBSET {"failed", "writeError"}]  \* errors sent to the owner

\* What the surroundings do during one handler: the state in which a channel is found,
\* whether pids are cached, and at most one thing that fails.
Faults == {"none", "notuner", "nodemux", "noopen", "nodevice"}
Choices ==
  {c \in [tune : ChannelStates \ {"none"}, cache : BOOLEAN, fault : Faults] :
     /\ c.fault \in Env \cup {"none"}
     /\ c.tune = "failed" => "notuner" \in Env
     /\ sv.chan # "none" => c.tune = sv.chan /\ c.cache = sv.cache}

Main == [sv |-> sv, file |-> file, fds |-> fds, made |-> made, source |-> source,
         dest |-> dest, created |-> FALSE, started |-> FALSE]

Unstarted == [b \in Ring |-> "none"]

Become(w) ==
  /\ sv' = w.sv /\ file' = w.file /\ fds' = w.fds /\ made' = w.made
  /\ source' = w.source /\ dest' = w.dest
  /\ IF w.created
     THEN /\ aio' = Unstarted /\ holds' = [b \in Ring |-> 0] /\ cur' = 0
          /\ offset' = 0 /\ lost' = {} /\ msgs' = <<>>
     ELSE UNCHANGED <<aio, holds, cur, offset, lost, msgs>>
  /\ IF w.started THEN rpc' = "check" /\ mstop' = FALSE /\ flushed' = 0
     ELSE IF w.created THEN rpc' = "none" /\ mstop' = TRUE /\ flushed' = 0
     ELSE UNCHANGED <<rpc, mstop, flushed>>

Tell(w, event) == [w EXCEPT !.sv.told = @ \cup {event}]

-----------------------------------------------------------------------------
(* eDVBServicePMTHandler::getProgramInfo *)

\* The program, from the PMT, from the cached pids, or empty: the PAT is recorded anyway.
ProgramInfo(s) ==
  CASE s.have # {} -> s.have
    [] s.have = {} /\ s.pmt = "current" -> All
    [] s.have = {} /\ s.pmt # "current" -> IF s.cache THEN Cached ELSE PatOnly

\* It returns an error when it finds nothing, but remembers that as the program.
InfoFails(s) == s.have = {} /\ ProgramInfo(s) = PatOnly
Fetched(s) == [s EXCEPT !.have = ProgramInfo(s)]

-----------------------------------------------------------------------------
(* eDVBServiceRecord::doRecord, once prepared *)

\* remove, open, createTSRecorder, connectEvent: the recorder of an earlier recording,
\* and its pump, are deleted when its connection is replaced.
OpenTarget(w) ==
  LET n == w.made + 1
  IN [w EXCEPT !.file = [id |-> n, blocks |-> {}], !.fds = @ \cup {n}, !.made = n,
               !.sv.fd = n, !.dest = n, !.sv.record = TRUE, !.sv.running = FALSE,
               !.sv.pids = {}, !.source = FALSE, !.created = TRUE, !.started = FALSE]

OpenFails(w) == Tell([w EXCEPT !.file = [id |-> 0, blocks |-> {}]], "failed")

\* eDVBTSRecorder::start.  Its result is ignored.
StartRecorder(w, c) ==
  IF w.sv.running \/ w.sv.pids = {} \/ c.fault = "nodevice" THEN w
  ELSE [w EXCEPT !.sv.running = TRUE, !.source = TRUE, !.started = TRUE]

\* Pids that are new are added to the recorder, obsolete ones removed; a recorder that is
\* not recording yet is started.
SetPids(w, c) ==
  LET program == ProgramInfo(w.sv)
      f == [w EXCEPT !.sv = Fetched(@)]
      p == [f EXCEPT !.sv.active = program,
                     !.sv.pids = (@ \cup (program \ w.sv.active)) \ (w.sv.active \ program)]
  IN CASE InfoFails(w.sv) -> f
       [] ~InfoFails(w.sv) /\ w.sv.state = "recording" -> p
       [] ~InfoFails(w.sv) /\ w.sv.state # "recording" ->
            [StartRecorder(p, c) EXCEPT !.sv.state = "recording"]

\* Mutant of RecordPrepared: it is not asked whether there is a recorder already.
RecordAgain(w, c) == IF ~w.sv.tuned THEN w ELSE SetPids(OpenTarget(w), c)

RecordPrepared(w, c) ==
  IF ~w.sv.tuned THEN w
  ELSE IF w.sv.streaming THEN [w EXCEPT !.sv.state = "recording"]
  ELSE IF w.sv.record THEN SetPids(w, c)
  ELSE IF c.fault # "noopen" THEN SetPids(OpenTarget(w), c)
  ELSE OpenFails(w)

-----------------------------------------------------------------------------
(* Tuning, and the events of the PMT handler *)

\* channelStateChanged to ok, up to the first event.
TakeDemux(w, c) == [w EXCEPT !.sv.demux = @ \/ c.fault # "nodemux"]
Forget(w) == [w EXCEPT !.sv.have = {}]

\* m_PAT.begin, and eventTuned.
TunedIn(w, c) ==
  LET t == [w EXCEPT !.sv.pat = TRUE, !.sv.tuned = TRUE]
  IN IF t.sv.state = "recording" /\ t.sv.want THEN RecordPrepared(t, c) ELSE t

\* serviceEvent(eventNewProgramInfo) in a state that is not idle.
NewInfoPrepared(w, c) == IF w.sv.want THEN RecordPrepared(w, c) ELSE w

\* channelStateChanged, called by tuneExt.
ChannelFound(w, c) ==
  IF w.sv.chan # "ok" THEN w
  ELSE LET d == TakeDemux(w, c)
       IN IF ~d.sv.demux THEN d
          ELSE TunedIn(IF d.sv.cache THEN NewInfoPrepared(Forget(d), c) ELSE Forget(d), c)

\* tuneExt: a handler that has a channel gets it again.
Tune(w, c) ==
  LET t == IF w.sv.chan # "none" THEN w
           ELSE [w EXCEPT !.sv.chan = IF c.fault = "notuner" THEN "none" ELSE c.tune,
                          !.sv.cache = c.cache]
  IN ChannelFound(t, c)

\* Mutant of DoPrepare: m_pids_active is kept.
KeepPids(w, c) == IF w.sv.state # "idle" THEN w ELSE Tune([w EXCEPT !.sv.state = "prepared"], c)

DoPrepare(w, c) ==
  IF w.sv.state # "idle" THEN w
  ELSE Tune([w EXCEPT !.sv.state = "prepared", !.sv.active = {}], c)

\* doRecord from any state.
DoRecord(w, c) ==
  LET p == DoPrepare(w, c)
  IN IF p.sv.chan = "none" /\ w.sv.state = "idle" THEN Tell(p, "failed") ELSE RecordPrepared(p, c)

NewInfo(w, c) == IF w.sv.state = "idle" THEN DoPrepare(w, c) ELSE NewInfoPrepared(w, c)

\* channelStateChanged, called by the channel.
ChannelChanged(w, c) ==
  IF w.sv.chan # "ok" THEN w
  ELSE LET d == TakeDemux(w, c)
       IN IF ~d.sv.demux THEN d
          ELSE TunedIn(IF d.sv.cache THEN NewInfo(Forget(d), c) ELSE Forget(d), c)

-----------------------------------------------------------------------------
(* Actions of the main thread.  It runs one handler at a time. *)

Idle == mpc = "idle"

\* recordService, then prepare or prepareStreaming.
Prepare ==
  /\ Idle /\ sv.owner = "new"
  /\ \E c \in Choices, streaming \in BOOLEAN :
       /\ streaming => "streaming" \in Env
       /\ Become(DoPrepare([Main EXCEPT !.sv.owner = "prepared", !.sv.streaming = streaming], c))
  /\ UNCHANGED <<mpc, why>>

\* A timer starts a recording only if prepare returned 0.
Start ==
  /\ Idle /\ sv.owner = "prepared"
  /\ sv.chan # "none" \/ sv.streaming
  /\ \E c \in Choices :
       Become(DoRecord([Main EXCEPT !.sv.owner = "started", !.sv.want = TRUE], c))
  /\ made' <= MaxFiles
  /\ UNCHANGED <<mpc, why>>

\* The channel reaches or loses the state ok, or fails.
ChannelStep ==
  /\ Idle /\ sv.chan # "none"
  /\ \E state \in ChannelStates \ {"none", sv.chan}, c \in Choices :
       /\ state = "failed" => "notuner" \in Env
       /\ Become(ChannelChanged([Main EXCEPT !.sv.chan = state], c))
  /\ made' <= MaxFiles
  /\ UNCHANGED <<mpc, why>>

\* PATready, with the program in the PAT.
PATready ==
  /\ Idle /\ sv.pat /\ sv.chan = "ok"
  /\ sv' = [sv EXCEPT !.pmt = "wait"]
  /\ UNCHANGED <<rpc, mstop, source, dest, aio, holds, cur, flushed, offset, lost, msgs, file,
                 fds, mpc, why, made>>

\* PMTready without an error: the first PMT, or a new version.
PMTready ==
  /\ Idle /\ sv.pmt # "off" /\ sv.chan = "ok"
  /\ \E c \in Choices :
       Become(NewInfo([Main EXCEPT !.sv.pmt = "current", !.sv.have = {}], c))
  /\ made' <= MaxFiles
  /\ UNCHANGED <<mpc, why>>

\* Somebody else asks for the program: getStreamingData, getCaIds, the CI.
AskProgram ==
  /\ Idle /\ sv.chan # "none"
  /\ sv' = Fetched(sv)
  /\ UNCHANGED <<rpc, mstop, source, dest, aio, holds, cur, flushed, offset, lost, msgs, file,
                 fds, mpc, why, made>>

-----------------------------------------------------------------------------
(* stop *)

\* What stop leaves, and what its caller tells then.  The target is closed if it was
\* being recorded to.  The owner drops the service.
StoppedService(reason) ==
  LET s == [sv EXCEPT !.state = "idle", !.record = FALSE, !.running = FALSE,
                      !.fd = IF sv.state = "recording" THEN 0 ELSE @]
  IN IF reason = "owner" THEN [s EXCEPT !.owner = "gone", !.chan = "none"]
     ELSE [s EXCEPT !.told = @ \cup {reason}]

EndStop(reason) ==
  /\ sv' = StoppedService(reason)
  /\ fds' = IF sv.state = "recording" THEN fds \ {sv.fd} ELSE fds

\* eDVBTSRecorder::stop has a running thread to stop.
HasToWait == sv.state = "recording" /\ sv.running

\* Mutant of StopService: the demux stays open.
StopKeepsSource(reason) ==
  IF HasToWait
  THEN mpc' = "signal" /\ why' = reason /\ UNCHANGED <<sv, fds, source>>
  ELSE EndStop(reason) /\ UNCHANGED <<mpc, why, source>>

\* eDVBServiceRecord::stop: DMX_STOP and close of the demux come first, the "workaround
\* for record thread stop".
StopService(reason) ==
  IF HasToWait
  THEN mpc' = "signal" /\ why' = reason /\ source' = FALSE /\ UNCHANGED <<sv, fds>>
  ELSE EndStop(reason) /\ UNCHANGED <<mpc, why, source>>

\* eFilePushThreadRecorder::stop: m_stop = 1, SIGUSR1, pthread_join.
Signal ==
  /\ mpc = "signal" /\ mpc' = "join"
  /\ mstop' = TRUE
  /\ Interrupted
  /\ UNCHANGED <<source, dest, aio, holds, cur, offset, lost, file, fds, sv, why, made>>

Join ==
  /\ mpc = "join" /\ rpc = "ended"
  /\ mpc' = "idle" /\ why' = "none"
  /\ EndStop(why)
  /\ UNCHANGED <<thread, source, dest, aio, offset, lost, file, made>>

\* stopRecordService.
OwnerStops ==
  /\ Idle /\ sv.owner \in {"prepared", "started"}
  /\ StopService("owner")
  /\ UNCHANGED <<thread, dest, aio, lost, file, made>>

\* eFixedMessagePump::do_recv: of the thread's messages only evtWriteError has an effect.
Receive ==
  /\ Idle /\ msgs # <<>> /\ sv.owner # "gone"
  /\ msgs' = Tail(msgs)
  /\ IF Head(msgs) = "writeError" THEN StopService("writeError")
     ELSE UNCHANGED <<source, sv, fds, mpc, why>>
  /\ UNCHANGED <<rpc, mstop, cur, flushed, offset, holds, aio, lost, file, dest, made>>

-----------------------------------------------------------------------------
Init ==
  /\ sv = [owner |-> "new", state |-> "idle", want |-> FALSE, tuned |-> FALSE,
           streaming |-> FALSE, record |-> FALSE, running |-> FALSE, fd |-> 0, active |-> {},
           pids |-> {}, chan |-> "none", demux |-> FALSE, cache |-> FALSE, have |-> {},
           pat |-> FALSE, pmt |-> "off", told |-> {}]
  /\ mpc = "idle" /\ why = "none" /\ made = 0
  /\ rpc = "none" /\ mstop = TRUE /\ source = FALSE /\ dest = 0
  /\ aio = Unstarted /\ holds = [b \in Ring |-> 0] /\ cur = 0 /\ flushed = 0
  /\ offset = 0 /\ lost = {} /\ msgs = <<>> /\ file = [id |-> 0, blocks |-> {}] /\ fds = {}

\* The recording is over.
Over == sv.owner = "gone" /\ mpc = "idle" /\ UNCHANGED vars

MainStep == \/ Prepare \/ Start \/ ChannelStep \/ PATready \/ PMTready \/ AskProgram
            \/ OwnerStops \/ Receive

Next == \/ MainStep \/ Signal \/ Join \/ Over
        \/ (ThreadStep \/ Device) /\ UNCHANGED <<sv, mpc, why, made>>

Spec == Init /\ [][Next]_vars

\* Both threads run, and the disk answers every request.  The demux need not deliver
\* anything: encrypted or lost channels send no data.
FairSpec ==
  /\ Spec
  /\ WF_vars(Signal) /\ WF_vars(Join)
  /\ WF_vars(ThreadStep /\ UNCHANGED <<sv, mpc, why, made>>)
  /\ \A b \in Ring :
       WF_vars((Complete(b, "ok") \/ Complete(b, "failed")) /\ UNCHANGED <<sv, mpc, why, made>>)

-----------------------------------------------------------------------------
(* Properties *)

TypeOK ==
  /\ rpc \in Pcs /\ mstop \in BOOLEAN /\ source \in BOOLEAN /\ dest \in Nat
  /\ aio \in [Ring -> Requests] /\ holds \in [Ring -> Nat] /\ cur \in Ring
  /\ flushed \in 0 .. Buffers /\ offset \in Nat /\ lost \subseteq Nat
  /\ msgs \in Seq(Messages)
  /\ file \in [id : Nat, blocks : SUBSET Nat] /\ fds \subseteq Nat
  /\ sv \in Service /\ made \in Nat
  /\ mpc \in {"idle", "signal", "join"} /\ why \in {"none", "owner", "writeError"}

\* Blocks that were handed to the disk and are neither in the file nor refused by it.
Missing == (1 .. offset) \ (file.blocks \cup lost)

\* StoppedIsComplete: when the thread has ended and the disk has answered everything, the
\* file has the blocks that were read and the disk took - but for one at most: the signal
\* of a stop may interrupt flush in its wait for one write (demux.cpp:463), and the target
\* is closed under that one.  No buffer is filled again while it is being written, whatever
\* order the writes end in, and no second write is given up.
StoppedIsComplete ==
  rpc = "ended" /\ (\A b \in Ring : aio[b] # "busy") /\ file.id = dest =>
    /\ file.blocks \subseteq (1 .. offset) \ lost
    /\ \A m, n \in Missing : m = n
    /\ dest \in fds => Missing = {}

\* FileKept: a file with a recording in it is removed only if the owner was told that the
\* recording has failed: tuning again, a new PMT and a lost demux do not start it anew.
FileKept == [][file'.id # file.id /\ file.blocks # {} => "writeError" \in sv.told]_vars

\* RecordsAllPids: once the PMT is known, whatever was recorded from the cached pids
\* before and however often the channel was lost, the recorder has its pids.
RecordsAllPids ==
  sv.state = "recording" /\ ~sv.streaming /\ sv.pmt = "current" => sv.pids = All

\* StopReturns: stop does not wait for ever for a thread that reads no data, though the
\* signal may come just before the read (the comment at demux.cpp:823, "workaround for
\* record thread stop").
StopReturns == mpc # "idle" ~> mpc = "idle"
=============================================================================
