------------------------ MODULE RecordServiceProofs ------------------------
(***************************************************************************)
(* What holds of a recording for a ring of any size, any number of blocks  *)
(* and files, and whatever tuners, demuxes and disks do.                   *)
(***************************************************************************)
EXTENDS RecordService, TLAPS

-----------------------------------------------------------------------------
(* The service, its PMT handler and its recorder, at any moment of a handler *)

ServiceOK(s) ==
  /\ s.state = "recording" => s.tuned /\ s.want /\ (s.streaming \/ s.record)
  /\ s.state = "prepared" => s.active = {}
  /\ s.record => s.state # "idle" /\ s.pids = s.active
  /\ s.running => s.record /\ s.state = "recording"
  /\ s.pmt = "current" => s.have \in {{}, All}

\* The owner has a service that may have a channel.
Owned(s) == s.owner \in {"prepared", "started"}

\* RecordsAllPids, in terms of what the service believes the recorder's pids to be.
KnowsAll(s) == s.state = "recording" /\ ~s.streaming /\ s.pmt = "current" => s.active = All

\* Before the first recorder there is no file; after it, none only when its stop was told.
FilesOK(s, f, n) ==
  /\ s.record => n # 0
  /\ n = 0 => f.blocks = {}
  /\ ~s.record /\ s.owner # "gone" /\ "writeError" \notin s.told => n = 0

File == [id : Nat, blocks : SUBSET Nat]
Work == [sv : Service, file : File, fds : SUBSET Nat, made : Nat, source : BOOLEAN,
         dest : Nat, created : BOOLEAN, started : BOOLEAN]

Emptied(n) == [id |-> n, blocks |-> {}]

\* What a handler has done so far to the file and the recorder.  A new file comes with a new
\* recorder where there was none, and a recorder that is started was not running.
Since(w) ==
  /\ w.created => /\ ~sv.record /\ w.sv.record /\ w.made = made + 1 /\ w.file = Emptied(w.made)
                  /\ w.started = w.sv.running
  /\ ~w.created => /\ w.made = made /\ w.fds = fds /\ w.sv.record = sv.record
                   /\ w.file = file \/ (~sv.record /\ w.file = Emptied(0))
                   /\ w.started => ~sv.running /\ w.sv.running
                   /\ ~w.started => w.sv.running = sv.running

Good(w) ==
  /\ w \in Work /\ ServiceOK(w.sv) /\ Owned(w.sv) /\ FilesOK(w.sv, w.file, w.made)
  /\ w.dest = w.made /\ (w.sv.record => w.made \in w.fds) /\ Since(w)

\* What a part of a handler leaves to the rest of it.
Leads(w, q) ==
  /\ Good(q) /\ q.sv.want = w.sv.want
  /\ w.sv.state # "idle" => q.sv.state # "idle"
  /\ KnowsAll(w.sv) => KnowsAll(q.sv)

-----------------------------------------------------------------------------
(* getProgramInfo *)

LEMMA Programs ==
  ASSUME NEW s \in Service, ServiceOK(s)
  PROVE  /\ ProgramInfo(s) \in SUBSET All
         /\ s.pmt = "current" => ProgramInfo(s) = All /\ ~InfoFails(s)
<1>1. PatOnly # All /\ PatOnly \in SUBSET All /\ Cached \in SUBSET All /\ All \in SUBSET All
  <2>1. "more" \in All /\ "more" \notin PatOnly
    BY DEF All, PatOnly
  <2> QED BY <2>1 DEF All, PatOnly, Cached
<1>2. s.have \in SUBSET All /\ s.pmt \in {"off", "wait", "current"}
  BY DEF Service
<1>3. s.pmt = "current" => s.have = {} \/ s.have = All
  BY DEF ServiceOK
<1>4. CASE s.have # {}
  <2>1. ProgramInfo(s) = s.have
    BY <1>4 DEF ProgramInfo
  <2> QED BY <2>1, <1>2, <1>3, <1>4 DEF InfoFails
<1>5. CASE s.have = {} /\ s.pmt = "current"
  <2>1. ProgramInfo(s) = All
    BY <1>5 DEF ProgramInfo
  <2> QED BY <2>1, <1>1 DEF InfoFails
<1>6. CASE s.have = {} /\ s.pmt # "current"
  <2>1. ProgramInfo(s) = IF s.cache THEN Cached ELSE PatOnly
    BY <1>6 DEF ProgramInfo
  <2> QED BY <2>1, <1>1, <1>6
<1> QED BY <1>4, <1>5, <1>6

\* Asking for the program changes nothing but what is remembered of it.
LEMMA FetchedKeeps ==
  ASSUME NEW s \in Service, ServiceOK(s)
  PROVE  /\ Fetched(s) \in Service /\ ServiceOK(Fetched(s))
         /\ Fetched(s) = [s EXCEPT !.have = Fetched(s).have]
<1> DEFINE h == ProgramInfo(s)
           q == Fetched(s)
<1>1. h \in SUBSET All /\ (s.pmt = "current" => h = All)
  BY Programs
<1>2. q = [s EXCEPT !.have = h]
  BY DEF Fetched
<1> HIDE DEF h, q
<1>3. q.have = h /\ q = [s EXCEPT !.have = q.have]
  BY <1>2 DEF Service
<1>4. q \in Service
  BY <1>1, <1>2 DEF Service
<1>5. ServiceOK(q)
  BY <1>1, <1>2 DEF Service, ServiceOK
<1> QED BY <1>3, <1>4, <1>5 DEF q

-----------------------------------------------------------------------------
(* doRecord, once prepared *)

LEMMA WorkIs ==
  ASSUME NEW s \in Service, NEW f \in File, NEW open \in SUBSET Nat, NEW n \in Nat,
         NEW source1 \in BOOLEAN, NEW to \in Nat, NEW b \in BOOLEAN, NEW d \in BOOLEAN
  PROVE  [sv |-> s, file |-> f, fds |-> open, made |-> n, source |-> source1, dest |-> to,
          created |-> b, started |-> d] \in Work
BY DEF Work

LEMMA OpenTargetKeeps ==
  ASSUME NEW w, Good(w), w.sv.state # "idle", ~w.sv.record, ~w.sv.streaming
  PROVE  /\ Leads(w, OpenTarget(w)) /\ OpenTarget(w).sv.record
         /\ OpenTarget(w).sv.tuned = w.sv.tuned /\ ~OpenTarget(w).sv.streaming
<1> DEFINE q == OpenTarget(w)
           n == w.made + 1
<1>1. /\ w \in Work /\ w.sv \in Service /\ w.made \in Nat /\ w.file \in File
      /\ w.fds \subseteq Nat
  BY DEF Good, Work
<1>2. q = [w EXCEPT !.file = Emptied(n), !.fds = @ \cup {n}, !.made = n, !.sv.fd = n, !.dest = n,
                    !.sv.record = TRUE, !.sv.running = FALSE, !.sv.pids = {}, !.source = FALSE,
                    !.created = TRUE, !.started = FALSE]
  BY DEF OpenTarget, Emptied
<1>3. q.sv = [w.sv EXCEPT !.fd = n, !.record = TRUE, !.running = FALSE, !.pids = {}]
  BY <1>1, <1>2 DEF Work
<1>4. /\ q.file = Emptied(n) /\ q.made = n /\ q.dest = n /\ q.created /\ ~q.started
      /\ q.source = FALSE /\ q.fds = w.fds \cup {n}
  BY <1>1, <1>2 DEF Work
<1>5. n \in Nat /\ n # 0 /\ Emptied(n) \in File
  BY <1>1 DEF Emptied, File
<1> HIDE DEF q
<1>6. q.sv \in Service
  BY <1>1, <1>3, <1>5 DEF Service
<1>7. q \in Work
  <2>1. q = [sv |-> q.sv, file |-> q.file, fds |-> q.fds, made |-> n, source |-> FALSE,
             dest |-> n, created |-> TRUE, started |-> FALSE]
    BY <1>1, <1>2, <1>3, <1>4 DEF Work
  <2>2. q.file \in File /\ q.fds \in SUBSET Nat
    BY <1>1, <1>4, <1>5
  <2> HIDE DEF n
  <2> QED BY <2>1, <2>2, <1>5, <1>6, WorkIs
<1>8. w.sv.state = "prepared" /\ w.sv.active = {}
  <2>1. w.sv.state \in {"idle", "prepared", "recording"}
    BY <1>1 DEF Service
  <2> QED BY <2>1 DEF Good, ServiceOK
<1>9. ServiceOK(q.sv) /\ Owned(q.sv)
  BY <1>1, <1>3, <1>8 DEF Good, ServiceOK, Owned, Service
<1>10. FilesOK(q.sv, q.file, q.made)
  BY <1>1, <1>3, <1>4, <1>5 DEF FilesOK, Service
<1>11. Since(q)
  <2>1. ~w.created /\ w.made = made /\ w.sv.record = sv.record
    BY DEF Good, Since
  <2>2. q.sv.record = TRUE /\ q.sv.running = FALSE
    BY <1>1, <1>3 DEF Service
  <2>3. q.created = TRUE /\ q.started = FALSE
    BY <1>7, <1>4 DEF Work
  <2> QED BY <2>1, <2>2, <2>3, <1>4 DEF Since
<1>12. /\ q.sv.state = "prepared" /\ q.sv.want = w.sv.want /\ q.sv.record
       /\ q.sv.tuned = w.sv.tuned /\ q.sv.streaming = w.sv.streaming
  BY <1>1, <1>3, <1>8 DEF Service
<1> QED BY <1>4, <1>7, <1>9, <1>10, <1>11, <1>12 DEF Good, Leads, KnowsAll, q

LEMMA OpenFailsKeeps ==
  ASSUME NEW w, Good(w), ~w.sv.record, ~w.sv.streaming
  PROVE  Leads(w, OpenFails(w)) /\ KnowsAll(OpenFails(w).sv)
<1> DEFINE q == OpenFails(w)
<1>1. /\ w \in Work /\ w.sv \in Service /\ w.file \in File
  BY DEF Good, Work
<1> DEFINE f == [w EXCEPT !.file = Emptied(0)]
<1>2. f = [sv |-> w.sv, file |-> Emptied(0), fds |-> w.fds, made |-> w.made, source |-> w.source,
           dest |-> w.dest, created |-> w.created, started |-> w.started]
  BY <1>1 DEF Work
<1>3. q = [f EXCEPT !.sv.told = @ \cup {"failed"}]
  BY DEF OpenFails, Emptied, Tell
<1> HIDE DEF f, q
<1>13. q.sv = [w.sv EXCEPT !.told = @ \cup {"failed"}]
  BY <1>2, <1>3
<1>4. /\ q.file = Emptied(0) /\ q.made = w.made /\ q.dest = w.dest /\ q.created = w.created
      /\ q.started = w.started /\ q.fds = w.fds
  BY <1>2, <1>3
<1>5. Emptied(0) \in File /\ Emptied(0).blocks = {}
  BY DEF Emptied, File
<1>6. q.sv \in Service
  BY <1>1, <1>13 DEF Service
<1>7. q \in Work
  <2>1. q = [sv |-> q.sv, file |-> Emptied(0), fds |-> w.fds, made |-> w.made, source |-> w.source,
             dest |-> w.dest, created |-> w.created, started |-> w.started]
    BY <1>2, <1>3
  <2> QED BY <2>1, <1>1, <1>5, <1>6 DEF Work
<1>8. /\ q.sv.state = w.sv.state /\ q.sv.want = w.sv.want /\ q.sv.record = w.sv.record
      /\ q.sv.tuned = w.sv.tuned /\ q.sv.streaming = w.sv.streaming /\ q.sv.pmt = w.sv.pmt
      /\ q.sv.active = w.sv.active /\ q.sv.pids = w.sv.pids /\ q.sv.have = w.sv.have
      /\ q.sv.running = w.sv.running /\ q.sv.owner = w.sv.owner
      /\ q.sv.told = w.sv.told \cup {"failed"}
  BY <1>1, <1>13 DEF Service
<1>9. ServiceOK(q.sv) /\ Owned(q.sv)
  BY <1>8 DEF Good, ServiceOK, Owned
<1>10. FilesOK(q.sv, q.file, q.made)
  BY <1>4, <1>5, <1>8 DEF Good, FilesOK
<1>11. Since(q)
  BY <1>4, <1>8 DEF Good, Since
<1>12. q.sv.state # "recording"
  BY <1>8 DEF Good, ServiceOK
<1> QED BY <1>4, <1>7, <1>8, <1>9, <1>10, <1>11, <1>12 DEF Good, Leads, KnowsAll, q

LEMMA StartRecorderKeeps ==
  ASSUME NEW w, Good(w), w.sv.record, w.sv.state = "recording", NEW c
  PROVE  /\ Leads(w, StartRecorder(w, c)) /\ StartRecorder(w, c).sv.record
         /\ \E b \in BOOLEAN : StartRecorder(w, c).sv = [w.sv EXCEPT !.running = b]
<1> DEFINE q == [w EXCEPT !.sv.running = TRUE, !.source = TRUE, !.started = TRUE]
<1>1. w \in Work /\ w.sv \in Service /\ w.sv.running \in BOOLEAN
  BY DEF Good, Work, Service
<1>2. CASE StartRecorder(w, c) = w
  <2>1. w.sv = [w.sv EXCEPT !.running = w.sv.running]
    BY <1>1 DEF Service
  <2> QED BY <1>1, <1>2, <2>1 DEF Leads
<1>3. CASE StartRecorder(w, c) # w
  <2>1. StartRecorder(w, c) = q /\ ~w.sv.running
    BY <1>3 DEF StartRecorder
  <2>2. q.sv = [w.sv EXCEPT !.running = TRUE]
    BY <1>1 DEF Work
  <2>3. /\ q.file = w.file /\ q.made = w.made /\ q.dest = w.dest /\ q.created = w.created
        /\ q.started /\ q.fds = w.fds
    BY <1>1 DEF Work
  <2>5. q = [sv |-> q.sv, file |-> w.file, fds |-> w.fds, made |-> w.made, source |-> TRUE,
             dest |-> w.dest, created |-> w.created, started |-> TRUE]
    <3>1. q = [w EXCEPT !.sv.running = TRUE, !.source = TRUE, !.started = TRUE]
      OBVIOUS
    <3> HIDE DEF q
    <3>2. /\ q.fds = w.fds /\ q.source = TRUE /\ q.started = TRUE
      BY <1>1, <3>1 DEF Work
    <3> QED BY <1>1, <2>2, <2>3, <3>1, <3>2 DEF Work
  <2> HIDE DEF q
  <2>4. q.sv \in Service
    BY <1>1, <2>2 DEF Service
  <2>11. q \in Work
    <3>1. /\ w.file \in File /\ w.fds \in SUBSET Nat /\ w.made \in Nat /\ w.dest \in Nat
          /\ w.created \in BOOLEAN /\ TRUE \in BOOLEAN
      BY <1>1 DEF Work
    <3>2. [sv |-> q.sv, file |-> w.file, fds |-> w.fds, made |-> w.made, source |-> TRUE,
           dest |-> w.dest, created |-> w.created, started |-> TRUE] \in Work
      BY <3>1, <2>4, WorkIs
    <3> QED BY <2>5, <3>2
  <2>6. /\ q.sv.state = w.sv.state /\ q.sv.want = w.sv.want /\ q.sv.record = w.sv.record
        /\ q.sv.tuned = w.sv.tuned /\ q.sv.streaming = w.sv.streaming /\ q.sv.pmt = w.sv.pmt
        /\ q.sv.active = w.sv.active /\ q.sv.pids = w.sv.pids /\ q.sv.have = w.sv.have
        /\ q.sv.running = TRUE /\ q.sv.owner = w.sv.owner /\ q.sv.told = w.sv.told
    BY <1>1, <2>2 DEF Service
  <2>7. ServiceOK(q.sv) /\ Owned(q.sv)
    BY <2>6 DEF Good, ServiceOK, Owned
  <2>8. FilesOK(q.sv, q.file, q.made)
    BY <2>3, <2>6 DEF Good, FilesOK
  <2>9. Since(q)
    BY <2>1, <2>3, <2>6 DEF Good, Since
  <2>10. Leads(w, q)
    BY <2>3, <2>11, <2>6, <2>7, <2>8, <2>9 DEF Good, Leads, KnowsAll
  <2> QED BY <2>1, <2>2, <2>6, <2>10
<1> QED BY <1>2, <1>3

\* A change of the service that leaves its owner and its recorder alone.
LEMMA ServiceSet ==
  ASSUME NEW w, Good(w), NEW s \in Service, ServiceOK(s), s.owner = w.sv.owner,
         s.record = w.sv.record, s.running = w.sv.running, s.told = w.sv.told
  PROVE  Good([w EXCEPT !.sv = s]) /\ [w EXCEPT !.sv = s].sv = s
<1> DEFINE q == [w EXCEPT !.sv = s]
<1>1. w \in Work
  BY DEF Good
<1>2. q \in Work
  BY <1>1 DEF Work
<1>3. /\ q.sv = s /\ q.file = w.file /\ q.made = w.made /\ q.dest = w.dest
      /\ q.created = w.created /\ q.started = w.started /\ q.fds = w.fds
  BY <1>1 DEF Work
<1> HIDE DEF q
<1>4. Owned(q.sv) /\ FilesOK(q.sv, q.file, q.made) /\ q.dest = q.made
  BY <1>3 DEF Good, Owned, FilesOK
<1>5. Since(q)
  BY <1>3 DEF Good, Since
<1> QED BY <1>2, <1>3, <1>4, <1>5 DEF Good, q

\* Once the PMT is known, the recorder gets all pids.
LEMMA SetPidsKeeps ==
  ASSUME NEW w, Good(w), w.sv.record, w.sv.want, w.sv.tuned, NEW c
  PROVE  Leads(w, SetPids(w, c)) /\ KnowsAll(SetPids(w, c).sv)
<1> DEFINE program == ProgramInfo(w.sv)
           f == [w EXCEPT !.sv = Fetched(@)]
           pids == (w.sv.pids \cup (program \ w.sv.active)) \ (w.sv.active \ program)
           g == Fetched(w.sv)
           s == [g EXCEPT !.active = program, !.pids = pids, !.state = "recording"]
           q == [w EXCEPT !.sv = s]
<1>1. w \in Work /\ w.sv \in Service /\ ServiceOK(w.sv)
  BY DEF Good, Work
<1>2. /\ program \in SUBSET All
      /\ w.sv.pmt = "current" => program = All /\ ~InfoFails(w.sv)
  BY <1>1, Programs
<1>3. /\ g \in Service /\ ServiceOK(g) /\ g = [w.sv EXCEPT !.have = g.have]
  BY <1>1, FetchedKeeps
<1>4. w.sv.active \in SUBSET All /\ w.sv.pids = w.sv.active /\ w.sv.state # "idle"
  BY <1>1 DEF Service, ServiceOK
<1>5. pids = program
  BY <1>2, <1>4
<1> HIDE DEF program, pids, g
<1>6. /\ g.owner = w.sv.owner /\ g.record = w.sv.record /\ g.running = w.sv.running
      /\ g.told = w.sv.told /\ g.state = w.sv.state /\ g.want = w.sv.want
      /\ g.tuned = w.sv.tuned /\ g.pmt = w.sv.pmt /\ g.streaming = w.sv.streaming
      /\ g.active = w.sv.active /\ g.pids = w.sv.pids
  BY <1>1, <1>3 DEF Service
<1>7. CASE InfoFails(w.sv)
  <2>1. SetPids(w, c) = [w EXCEPT !.sv = g]
    BY <1>7 DEF SetPids, g
  <2>2. Good([w EXCEPT !.sv = g]) /\ [w EXCEPT !.sv = g].sv = g
    BY <1>3, <1>6, ServiceSet
  <2>3. w.sv.pmt # "current"
    BY <1>2, <1>7
  <2> QED BY <2>1, <2>2, <2>3, <1>6, <1>4 DEF Leads, KnowsAll
<1>8. CASE ~InfoFails(w.sv)
  <2>1. /\ s \in Service /\ s.active = program /\ s.pids = program /\ s.state = "recording"
        /\ s.owner = w.sv.owner /\ s.record = w.sv.record /\ s.running = w.sv.running
        /\ s.told = w.sv.told /\ s.want = w.sv.want /\ s.tuned = w.sv.tuned
        /\ s.pmt = w.sv.pmt /\ s.have = g.have /\ s.streaming = w.sv.streaming
    BY <1>2, <1>3, <1>5, <1>6 DEF Service
  <2> HIDE DEF s
  <2>2. ServiceOK(s)
    BY <2>1, <1>1, <1>3, <1>6 DEF ServiceOK
  <2>3. Good(q) /\ q.sv = s
    BY <2>1, <2>2, ServiceSet
  <2>4. KnowsAll(s)
    BY <2>1, <1>2 DEF KnowsAll
  <2> DEFINE p == [f EXCEPT !.sv.active = program,
                            !.sv.pids = (@ \cup (program \ w.sv.active)) \ (w.sv.active \ program)]
             r == [g EXCEPT !.active = program, !.pids = pids]
  <2>5. /\ w.sv.state = "recording" => SetPids(w, c) = p
        /\ w.sv.state # "recording" => SetPids(w, c) = [StartRecorder(p, c) EXCEPT !.sv.state = "recording"]
    BY <1>8 DEF SetPids, program
  <2>6. p = [w EXCEPT !.sv = r]
    <3>1. f = [w EXCEPT !.sv = g]
      BY DEF g
    <3>2. f.sv = g
      BY <1>1, <3>1 DEF Work
    <3>3. p.sv = r
      BY <3>1, <3>2, <1>1, <1>6 DEF Work, pids
    <3> QED BY <3>1, <3>2, <3>3, <1>1 DEF Work, pids
  <2> HIDE DEF p
  <2>7. s = [r EXCEPT !.state = "recording"] /\ r \in Service /\ r.state = w.sv.state
    BY <1>2, <1>3, <1>5, <1>6 DEF s, Service
  <2> HIDE DEF r
  <2>8. [p EXCEPT !.sv.state = "recording"] = q
    BY <2>6, <2>7, <1>1 DEF Work
  <2> HIDE DEF q
  <2>9. CASE w.sv.state = "recording"
    <3>1. s = r /\ q = p
      BY <2>6, <2>7, <2>9 DEF Service, q
    <3> QED BY <3>1, <2>1, <2>3, <2>4, <2>5, <2>6, <2>9 DEF Leads
  <2>10. CASE w.sv.state # "recording"
    <3>1. [StartRecorder(p, c) EXCEPT !.sv.state = "recording"] = StartRecorder(q, c)
      <4>1. p.sv = r /\ q.sv = s /\ s.running = r.running /\ s.pids = r.pids
        BY <2>3, <2>6, <2>7, <1>1 DEF Work, Service
      <4>2. CASE p.sv.running \/ p.sv.pids = {} \/ c.fault = "nodevice"
        BY <4>1, <4>2, <2>8 DEF StartRecorder
      <4>3. CASE ~(p.sv.running \/ p.sv.pids = {} \/ c.fault = "nodevice")
        <5>1. /\ StartRecorder(p, c) = [p EXCEPT !.sv.running = TRUE, !.source = TRUE, !.started = TRUE]
              /\ StartRecorder(q, c) = [q EXCEPT !.sv.running = TRUE, !.source = TRUE, !.started = TRUE]
          BY <4>1, <4>3 DEF StartRecorder
        <5> DEFINE With(x) == [w EXCEPT !.sv = x, !.source = TRUE, !.started = TRUE]
        <5>2. StartRecorder(p, c) = With([r EXCEPT !.running = TRUE])
          BY <5>1, <2>6, <1>1 DEF Work
        <5>3. StartRecorder(q, c) = With([s EXCEPT !.running = TRUE])
          BY <5>1, <1>1 DEF Work, q
        <5>4. ASSUME NEW x PROVE [With(x) EXCEPT !.sv.state = "recording"] = With([x EXCEPT !.state = "recording"])
          BY <1>1 DEF Work
        <5>5. [StartRecorder(p, c) EXCEPT !.sv.state = "recording"]
              = With([[r EXCEPT !.running = TRUE] EXCEPT !.state = "recording"])
          BY <5>2, <5>4
        <5>6. [[r EXCEPT !.running = TRUE] EXCEPT !.state = "recording"] = [s EXCEPT !.running = TRUE]
          BY <2>7 DEF Service
        <5> QED BY <5>3, <5>5, <5>6
      <4> QED BY <4>2, <4>3
    <3>2. Leads(q, StartRecorder(q, c)) /\ \E b \in BOOLEAN : StartRecorder(q, c).sv = [s EXCEPT !.running = b]
      <4>1. q.sv.record = TRUE /\ q.sv.state = "recording" /\ Good(q)
        BY <2>1, <2>3, <1>1 DEF Service
      <4>2. Leads(q, StartRecorder(q, c)) /\ \E b \in BOOLEAN : StartRecorder(q, c).sv = [q.sv EXCEPT !.running = b]
        BY <4>1, StartRecorderKeeps
      <4> QED BY <4>2, <2>3
    <3>3. StartRecorder(q, c).sv.want = w.sv.want
      BY <2>1, <2>3, <3>2 DEF Leads
    <3>4. SetPids(w, c) = StartRecorder(q, c)
      BY <2>5, <2>10, <3>1
    <3>5. Good(StartRecorder(q, c)) /\ KnowsAll(StartRecorder(q, c).sv)
      BY <2>3, <2>4, <3>2 DEF Leads
    <3>6. StartRecorder(q, c).sv.state # "idle"
      BY <2>1, <2>3, <3>2 DEF Leads
    <3> QED BY <3>3, <3>4, <3>5, <3>6 DEF Leads
  <2> QED BY <2>9, <2>10
<1> QED BY <1>7, <1>8

LEMMA RecordPreparedKeeps ==
  ASSUME NEW w, Good(w), w.sv.state # "idle", w.sv.want, NEW c
  PROVE  Leads(w, RecordPrepared(w, c)) /\ KnowsAll(RecordPrepared(w, c).sv)
<1>1. w \in Work /\ w.sv \in Service /\ ServiceOK(w.sv)
  BY DEF Good, Work
<1>2. CASE ~w.sv.tuned
  <2>1. RecordPrepared(w, c) = w /\ w.sv.state # "recording"
    BY <1>1, <1>2 DEF RecordPrepared, ServiceOK
  <2> QED BY <2>1 DEF Leads, KnowsAll
<1>3. CASE w.sv.tuned /\ w.sv.streaming
  <2> DEFINE s == [w.sv EXCEPT !.state = "recording"]
  <2>1. RecordPrepared(w, c) = [w EXCEPT !.sv.state = "recording"]
    BY <1>3 DEF RecordPrepared
  <2>2. [w EXCEPT !.sv.state = "recording"] = [w EXCEPT !.sv = s]
    BY <1>1 DEF Work
  <2>3. /\ s \in Service /\ s.state = "recording" /\ s.streaming = w.sv.streaming
        /\ s.owner = w.sv.owner /\ s.record = w.sv.record /\ s.running = w.sv.running
        /\ s.told = w.sv.told /\ s.want = w.sv.want /\ s.tuned = w.sv.tuned /\ s.pmt = w.sv.pmt
        /\ s.have = w.sv.have /\ s.active = w.sv.active /\ s.pids = w.sv.pids
    BY <1>1 DEF Service
  <2> HIDE DEF s
  <2>4. ServiceOK(s)
    BY <1>1, <1>3, <2>3 DEF ServiceOK
  <2>5. Good([w EXCEPT !.sv = s]) /\ [w EXCEPT !.sv = s].sv = s
    BY <2>3, <2>4, ServiceSet
  <2> DEFINE q == [w EXCEPT !.sv = s]
  <2>6. RecordPrepared(w, c) = q /\ Good(q) /\ q.sv = s
    BY <2>1, <2>2, <2>5
  <2> HIDE DEF q
  <2> QED BY <1>3, <2>3, <2>6 DEF Leads, KnowsAll
<1>4. CASE w.sv.tuned /\ ~w.sv.streaming /\ w.sv.record
  BY <1>4, SetPidsKeeps DEF RecordPrepared
<1>5. CASE w.sv.tuned /\ ~w.sv.streaming /\ ~w.sv.record /\ c.fault # "noopen"
  <2> DEFINE p == OpenTarget(w)
  <2>1. RecordPrepared(w, c) = SetPids(p, c)
    BY <1>5 DEF RecordPrepared
  <2>2. Leads(w, p) /\ p.sv.record /\ p.sv.tuned = w.sv.tuned
    BY <1>5, OpenTargetKeeps
  <2> HIDE DEF p
  <2>3. Good(p) /\ p.sv.want = w.sv.want /\ p.sv.state # "idle"
    BY <2>2 DEF Leads
  <2>4. Leads(p, SetPids(p, c)) /\ KnowsAll(SetPids(p, c).sv)
    BY <2>2, <2>3, <1>5, SetPidsKeeps
  <2> QED BY <2>1, <2>3, <2>4 DEF Leads
<1>6. CASE w.sv.tuned /\ ~w.sv.streaming /\ ~w.sv.record /\ c.fault = "noopen"
  BY <1>6, OpenFailsKeeps DEF RecordPrepared
<1> QED BY <1>2, <1>3, <1>4, <1>5, <1>6

-----------------------------------------------------------------------------
(* Tuning, and the events of the PMT handler *)

LEMMA NewInfoPreparedKeeps ==
  ASSUME NEW w, Good(w), w.sv.state # "idle", NEW c
  PROVE  Leads(w, NewInfoPrepared(w, c)) /\ KnowsAll(NewInfoPrepared(w, c).sv)
<1>1. CASE w.sv.want
  BY <1>1, RecordPreparedKeeps DEF NewInfoPrepared
<1>2. CASE ~w.sv.want
  <2>1. NewInfoPrepared(w, c) = w /\ w.sv.state # "recording"
    BY <1>2 DEF NewInfoPrepared, Good, ServiceOK
  <2> QED BY <2>1 DEF Leads, KnowsAll
<1> QED BY <1>1, <1>2

\* A change of the service that has nothing to do with its recording.
LEMMA Aside ==
  ASSUME NEW w, Good(w), NEW s \in Service,
         s.owner = w.sv.owner, s.record = w.sv.record, s.running = w.sv.running,
         s.told = w.sv.told, s.want = w.sv.want, s.state = w.sv.state, s.streaming = w.sv.streaming,
         s.active = w.sv.active, s.pids = w.sv.pids, s.pmt = w.sv.pmt,
         w.sv.tuned => s.tuned, s.have \in {w.sv.have, {}}
  PROVE  Leads(w, [w EXCEPT !.sv = s]) /\ [w EXCEPT !.sv = s].sv = s
<1>1. ServiceOK(s)
  BY DEF Good, ServiceOK
<1>2. Good([w EXCEPT !.sv = s]) /\ [w EXCEPT !.sv = s].sv = s
  BY <1>1, ServiceSet
<1> QED BY <1>2 DEF Leads, KnowsAll

LEMMA ForgetKeeps ==
  ASSUME NEW w, Good(w)
  PROVE  Leads(w, Forget(w)) /\ Forget(w).sv.state = w.sv.state
<1> DEFINE s == [w.sv EXCEPT !.have = {}]
<1>1. w \in Work /\ w.sv \in Service
  BY DEF Good, Work
<1>2. Forget(w) = [w EXCEPT !.sv = s]
  BY <1>1 DEF Forget, Work
<1>3. /\ s \in Service /\ s.owner = w.sv.owner /\ s.record = w.sv.record /\ s.running = w.sv.running
      /\ s.told = w.sv.told /\ s.want = w.sv.want /\ s.state = w.sv.state
      /\ s.streaming = w.sv.streaming /\ s.active = w.sv.active /\ s.pids = w.sv.pids
      /\ s.pmt = w.sv.pmt /\ s.tuned = w.sv.tuned /\ s.have = {}
  BY <1>1 DEF Service
<1> HIDE DEF s
<1>4. Leads(w, [w EXCEPT !.sv = s]) /\ [w EXCEPT !.sv = s].sv = s
  BY <1>3, Aside
<1> QED BY <1>2, <1>3, <1>4

LEMMA TakeDemuxKeeps ==
  ASSUME NEW w, Good(w), NEW c
  PROVE  Leads(w, TakeDemux(w, c)) /\ TakeDemux(w, c).sv.state = w.sv.state
<1> DEFINE d == w.sv.demux \/ c.fault # "nodemux"
           s == [w.sv EXCEPT !.demux = d]
<1>1. w \in Work /\ w.sv \in Service
  BY DEF Good, Work
<1>2. TakeDemux(w, c) = [w EXCEPT !.sv = s]
  BY <1>1 DEF TakeDemux, Work
<1>3. d \in BOOLEAN
  OBVIOUS
<1> HIDE DEF d
<1>4. /\ s \in Service /\ s.owner = w.sv.owner /\ s.record = w.sv.record /\ s.running = w.sv.running
      /\ s.told = w.sv.told /\ s.want = w.sv.want /\ s.state = w.sv.state
      /\ s.streaming = w.sv.streaming /\ s.active = w.sv.active /\ s.pids = w.sv.pids
      /\ s.pmt = w.sv.pmt /\ s.tuned = w.sv.tuned /\ s.have = w.sv.have
  BY <1>1, <1>3 DEF Service
<1> HIDE DEF s
<1>5. Leads(w, [w EXCEPT !.sv = s]) /\ [w EXCEPT !.sv = s].sv = s
  BY <1>4, Aside
<1> QED BY <1>2, <1>4, <1>5

LEMMA TunedInKeeps ==
  ASSUME NEW w, Good(w), NEW c
  PROVE  Leads(w, TunedIn(w, c))
<1> DEFINE s == [w.sv EXCEPT !.pat = TRUE, !.tuned = TRUE]
           t == [w EXCEPT !.sv.pat = TRUE, !.sv.tuned = TRUE]
<1>1. w \in Work /\ w.sv \in Service
  BY DEF Good, Work
<1>2. t = [w EXCEPT !.sv = s]
  BY <1>1 DEF Work
<1>3. TunedIn(w, c) = IF t.sv.state = "recording" /\ t.sv.want THEN RecordPrepared(t, c) ELSE t
  BY DEF TunedIn
<1> HIDE DEF t
<1>4. /\ s \in Service /\ s.owner = w.sv.owner /\ s.record = w.sv.record /\ s.running = w.sv.running
      /\ s.told = w.sv.told /\ s.want = w.sv.want /\ s.state = w.sv.state
      /\ s.streaming = w.sv.streaming /\ s.active = w.sv.active /\ s.pids = w.sv.pids
      /\ s.pmt = w.sv.pmt /\ s.tuned = TRUE /\ s.have = w.sv.have
  BY <1>1 DEF Service
<1> HIDE DEF s
<1>5. Leads(w, t) /\ t.sv = s
  BY <1>2, <1>4, Aside
<1>6. CASE t.sv.state = "recording" /\ t.sv.want
  <2>1. Leads(t, RecordPrepared(t, c))
    BY <1>5, <1>6, RecordPreparedKeeps DEF Leads
  <2> QED BY <1>5, <1>3, <1>6, <2>1 DEF Leads
<1> QED BY <1>5, <1>3, <1>6

LEMMA ChannelFoundKeeps ==
  ASSUME NEW w, Good(w), w.sv.state # "idle", NEW c
  PROVE  Leads(w, ChannelFound(w, c))
<1> DEFINE d == TakeDemux(w, c)
           f == Forget(d)
           i == IF d.sv.cache THEN NewInfoPrepared(f, c) ELSE f
<1>1. Leads(w, d) /\ d.sv.state = w.sv.state
  BY TakeDemuxKeeps
<1>2. ChannelFound(w, c) = IF w.sv.chan # "ok" THEN w ELSE IF ~d.sv.demux THEN d ELSE TunedIn(i, c)
  BY DEF ChannelFound
<1> HIDE DEF d
<1>3. Leads(d, f) /\ f.sv.state = w.sv.state
  BY <1>1, ForgetKeeps DEF Leads
<1> HIDE DEF f
<1>4. Leads(f, i)
  <2>1. Leads(f, NewInfoPrepared(f, c))
    BY <1>3, NewInfoPreparedKeeps DEF Leads
  <2>2. Leads(f, f)
    BY <1>3 DEF Leads
  <2> QED BY <2>1, <2>2
<1> HIDE DEF i
<1>5. Leads(i, TunedIn(i, c))
  BY <1>4, TunedInKeeps DEF Leads
<1>6. Leads(w, TunedIn(i, c))
  BY <1>1, <1>3, <1>4, <1>5 DEF Leads
<1>7. Leads(w, w)
  BY DEF Leads
<1> QED BY <1>1, <1>2, <1>6, <1>7

\* What of c the handlers rely on.
Chosen(c) == c.tune \in ChannelStates /\ c.cache \in BOOLEAN

LEMMA TuneKeeps ==
  ASSUME NEW w, Good(w), w.sv.state # "idle", NEW c, Chosen(c)
  PROVE  Leads(w, Tune(w, c))
<1> DEFINE state == IF c.fault = "notuner" THEN "none" ELSE c.tune
           s == [w.sv EXCEPT !.chan = state, !.cache = c.cache]
           n == [w EXCEPT !.sv = s]
           t == IF w.sv.chan # "none" THEN w ELSE n
<1>1. w \in Work /\ w.sv \in Service
  BY DEF Good, Work
<1>2. state \in ChannelStates
  BY DEF Chosen, ChannelStates
<1>3. [w EXCEPT !.sv.chan = state, !.sv.cache = c.cache] = n
  BY <1>1 DEF Work
<1>4. Tune(w, c) = ChannelFound(t, c)
  BY <1>3 DEF Tune
<1> HIDE DEF state
<1>5. /\ s \in Service /\ s.owner = w.sv.owner /\ s.record = w.sv.record /\ s.running = w.sv.running
      /\ s.told = w.sv.told /\ s.want = w.sv.want /\ s.state = w.sv.state
      /\ s.streaming = w.sv.streaming /\ s.active = w.sv.active /\ s.pids = w.sv.pids
      /\ s.pmt = w.sv.pmt /\ s.tuned = w.sv.tuned /\ s.have = w.sv.have
  BY <1>1, <1>2 DEF Service, Chosen
<1> HIDE DEF s
<1>6. Leads(w, n) /\ n.sv = s
  BY <1>5, Aside
<1> HIDE DEF n
<1>7. Leads(w, t) /\ t.sv.state # "idle"
  BY <1>5, <1>6 DEF Leads
<1> HIDE DEF t
<1>8. Leads(t, ChannelFound(t, c))
  BY <1>7, ChannelFoundKeeps DEF Leads
<1> QED BY <1>4, <1>7, <1>8 DEF Leads

LEMMA DoPrepareKeeps ==
  ASSUME NEW w, Good(w), NEW c, Chosen(c)
  PROVE  /\ Leads(w, DoPrepare(w, c)) /\ DoPrepare(w, c).sv.state # "idle"
         /\ w.sv.state = "idle" => KnowsAll(DoPrepare(w, c).sv)
<1> DEFINE s == [w.sv EXCEPT !.state = "prepared", !.active = {}]
           p == [w EXCEPT !.sv = s]
<1>1. w \in Work /\ w.sv \in Service /\ ServiceOK(w.sv)
  BY DEF Good, Work
<1>2. CASE w.sv.state # "idle"
  BY <1>2 DEF DoPrepare, Leads
<1>3. CASE w.sv.state = "idle"
  <2>1. [w EXCEPT !.sv.state = "prepared", !.sv.active = {}] = p
    BY <1>1 DEF Work
  <2>2. DoPrepare(w, c) = Tune(p, c)
    BY <2>1, <1>3 DEF DoPrepare
  <2>3. /\ s \in Service /\ s.owner = w.sv.owner /\ s.record = w.sv.record /\ s.running = w.sv.running
        /\ s.told = w.sv.told /\ s.want = w.sv.want /\ s.state = "prepared" /\ s.active = {}
        /\ s.streaming = w.sv.streaming /\ s.pids = w.sv.pids /\ s.pmt = w.sv.pmt
        /\ s.tuned = w.sv.tuned /\ s.have = w.sv.have
    BY <1>1 DEF Service
  <2> HIDE DEF s
  <2>4. ServiceOK(s) /\ KnowsAll(s)
    BY <1>1, <1>3, <2>3 DEF ServiceOK, KnowsAll
  <2>5. Good(p) /\ p.sv = s
    BY <2>3, <2>4, ServiceSet
  <2> HIDE DEF p
  <2>6. Leads(p, Tune(p, c))
    BY <2>3, <2>5, TuneKeeps
  <2> QED BY <1>3, <2>2, <2>3, <2>4, <2>5, <2>6 DEF Leads
<1> QED BY <1>2, <1>3

LEMMA ToldOf ==
  ASSUME NEW w, Good(w)
  PROVE  /\ Good(Tell(w, "failed"))
         /\ \E told \in SUBSET {"failed", "writeError"} :
              Tell(w, "failed").sv = [w.sv EXCEPT !.told = told]
<1> DEFINE q == Tell(w, "failed")
           told == w.sv.told \cup {"failed"}
           s == [w.sv EXCEPT !.told = told]
<1>1. w \in Work /\ w.sv \in Service
  BY DEF Good, Work
<1>2. q = [w EXCEPT !.sv = s]
  BY <1>1 DEF Tell, Work
<1> HIDE DEF q
<1>3. told \in SUBSET {"failed", "writeError"}
  BY <1>1 DEF Service
<1>4. q \in Work
  <2>1. s \in Service
    BY <1>1, <1>3 DEF Service
  <2> HIDE DEF s
  <2> QED BY <1>1, <1>2, <2>1 DEF Work
<1>5. /\ q.sv = s /\ q.file = w.file /\ q.made = w.made /\ q.dest = w.dest
      /\ q.created = w.created /\ q.started = w.started /\ q.fds = w.fds
  BY <1>1, <1>2 DEF Work
<1>6. /\ s.owner = w.sv.owner /\ s.record = w.sv.record /\ s.running = w.sv.running
      /\ s.told = told /\ s.want = w.sv.want /\ s.state = w.sv.state
      /\ s.streaming = w.sv.streaming /\ s.active = w.sv.active /\ s.pids = w.sv.pids
      /\ s.pmt = w.sv.pmt /\ s.tuned = w.sv.tuned /\ s.have = w.sv.have
  BY <1>1 DEF Service
<1> HIDE DEF s
<1>7. ServiceOK(s) /\ Owned(s) /\ FilesOK(s, q.file, q.made)
  BY <1>5, <1>6 DEF Good, ServiceOK, Owned, FilesOK
<1>8. Since(q)
  BY <1>5, <1>6 DEF Good, Since
<1>9. Good(q)
  BY <1>4, <1>5, <1>6, <1>7, <1>8 DEF Good
<1> QED BY <1>3, <1>5, <1>9 DEF q, s

LEMMA DoRecordKeeps ==
  ASSUME NEW w, Good(w), w.sv.want, NEW c, Chosen(c)
  PROVE  Good(DoRecord(w, c)) /\ KnowsAll(DoRecord(w, c).sv)
<1> DEFINE p == DoPrepare(w, c)
<1>1. Leads(w, p) /\ p.sv.state # "idle" /\ (w.sv.state = "idle" => KnowsAll(p.sv))
  BY DoPrepareKeeps
<1>2. DoRecord(w, c) = IF p.sv.chan = "none" /\ w.sv.state = "idle" THEN Tell(p, "failed")
                       ELSE RecordPrepared(p, c)
  BY DEF DoRecord
<1> HIDE DEF p
<1>3. Good(p) /\ p.sv.want
  BY <1>1 DEF Leads
<1>4. Good(RecordPrepared(p, c)) /\ KnowsAll(RecordPrepared(p, c).sv)
  BY <1>1, <1>3, RecordPreparedKeeps DEF Leads
<1>5. Good(Tell(p, "failed")) /\ (KnowsAll(p.sv) => KnowsAll(Tell(p, "failed").sv))
  <2>1. PICK told \in SUBSET {"failed", "writeError"} :
          Tell(p, "failed").sv = [p.sv EXCEPT !.told = told]
    BY <1>3, ToldOf
  <2>2. p.sv \in Service
    BY <1>3 DEF Good, Work
  <2>3. KnowsAll(p.sv) => KnowsAll(Tell(p, "failed").sv)
    BY <2>1, <2>2 DEF KnowsAll, Service
  <2> QED BY <1>3, <2>3, ToldOf
<1> QED BY <1>1, <1>2, <1>4, <1>5

LEMMA NewInfoKeeps ==
  ASSUME NEW w, Good(w), NEW c, Chosen(c)
  PROVE  Good(NewInfo(w, c)) /\ KnowsAll(NewInfo(w, c).sv)
<1>1. CASE w.sv.state = "idle"
  BY <1>1, DoPrepareKeeps DEF NewInfo, Leads
<1>2. CASE w.sv.state # "idle"
  BY <1>2, NewInfoPreparedKeeps DEF NewInfo, Leads
<1> QED BY <1>1, <1>2

LEMMA ChannelChangedKeeps ==
  ASSUME NEW w, Good(w), NEW c, Chosen(c)
  PROVE  Good(ChannelChanged(w, c)) /\ (KnowsAll(w.sv) => KnowsAll(ChannelChanged(w, c).sv))
<1> DEFINE d == TakeDemux(w, c)
           f == Forget(d)
           i == IF d.sv.cache THEN NewInfo(f, c) ELSE f
<1>1. Leads(w, d)
  BY TakeDemuxKeeps
<1>2. ChannelChanged(w, c) = IF w.sv.chan # "ok" THEN w ELSE IF ~d.sv.demux THEN d ELSE TunedIn(i, c)
  BY DEF ChannelChanged
<1> HIDE DEF d
<1>3. Leads(d, f)
  BY <1>1, ForgetKeeps DEF Leads
<1> HIDE DEF f
<1>4. Good(i) /\ (KnowsAll(f.sv) => KnowsAll(i.sv))
  <2>1. Good(NewInfo(f, c)) /\ KnowsAll(NewInfo(f, c).sv)
    BY <1>3, NewInfoKeeps DEF Leads
  <2> QED BY <2>1, <1>3 DEF Leads
<1> HIDE DEF i
<1>5. Leads(i, TunedIn(i, c))
  BY <1>4, TunedInKeeps
<1> QED BY <1>1, <1>2, <1>3, <1>4, <1>5 DEF Leads

-----------------------------------------------------------------------------
(* The inductive invariant, between the steps *)

OwnerOK ==
  /\ sv.owner \in {"new", "gone"} => sv.chan = "none"
  /\ sv.owner = "new" => sv.state = "idle"
  /\ mpc # "idle" => why \in {"owner", "writeError"}

\* A recorder that does not run has not been started, and there is none before a file.
RecorderOK ==
  /\ sv.record /\ ~sv.running => rpc = "none" /\ aio = Unstarted
  /\ made = 0 => rpc = "none" /\ aio = Unstarted /\ offset = 0 /\ lost = {}

\* The buffer that is filled is not being written.
FillsFree ==
  /\ rpc \in {"check", "call", "read", "write"} => aio[cur] # "busy"
  /\ rpc = "write" => holds[cur] = offset + 1

\* While the target is open, the blocks missing from the file are those being written.  When
\* it is closed, one is missing at most.
BlocksOK ==
  /\ \A b \in Ring : aio[b] = "busy" => holds[b] \in 1 .. offset /\ holds[b] \notin lost
  /\ \A b, d \in Ring : aio[b] = "busy" /\ aio[d] = "busy" /\ holds[b] = holds[d] => b = d
  /\ lost \subseteq 1 .. offset
  /\ file.id = dest =>
       /\ file.blocks \subseteq (1 .. offset) \ lost
       /\ \A b \in Ring : aio[b] = "busy" => holds[b] \notin file.blocks
       /\ dest \in fds => \A n \in Missing : \E b \in Ring : aio[b] = "busy" /\ holds[b] = n
       /\ dest \notin fds => \A m, n \in Missing : m = n

\* The thread runs only between start and the end of stop, with its target open.
StopOK ==
  /\ rpc = "none" => aio = Unstarted
  /\ rpc \notin {"none", "ended"} => sv.running
  /\ sv.record => dest \in fds
  /\ mpc # "idle" => sv.running
  /\ sv.running /\ mpc # "join" => ~mstop

\* flush has waited for every buffer it has passed, but for one, once it was interrupted.
FlushOK ==
  /\ rpc = "ended" => flushed = Buffers
  /\ rpc \in {"flush", "ended"} =>
       \A a, b \in Ring : a < flushed /\ b < flushed /\ aio[a] = "busy" /\ aio[b] = "busy" => a = b
  /\ rpc \in {"flush", "ended"} /\ ~mstop => \A a \in Ring : a < flushed => aio[a] # "busy"

IInv ==
  /\ TypeOK /\ ServiceOK(sv) /\ KnowsAll(sv) /\ FilesOK(sv, file, made) /\ dest = made
  /\ OwnerOK /\ RecorderOK /\ FillsFree /\ BlocksOK /\ StopOK /\ FlushOK

-----------------------------------------------------------------------------
(* Handlers of the main thread *)

LEMMA Begins ==
  ASSUME IInv, NEW s \in Service, ServiceOK(s), Owned(s), sv.owner # "gone",
         s.record = sv.record, s.running = sv.running, s.told = sv.told
  PROVE  Good([Main EXCEPT !.sv = s]) /\ [Main EXCEPT !.sv = s].sv = s
<1> DEFINE q == [Main EXCEPT !.sv = s]
<1>1. /\ file \in File /\ fds \in SUBSET Nat /\ made \in Nat /\ source \in BOOLEAN /\ dest \in Nat
      /\ FALSE \in BOOLEAN /\ sv \in Service
  BY DEF IInv, TypeOK, File
<1>2. Main \in Work
  BY <1>1, WorkIs DEF Main
<1>3. /\ Main.file = file /\ Main.made = made /\ Main.dest = dest
      /\ Main.created = FALSE /\ Main.started = FALSE /\ Main.fds = fds
  BY DEF Main
<1>4. /\ q \in Work /\ q.sv = s /\ q.file = file /\ q.made = made /\ q.dest = made
      /\ q.created = FALSE /\ q.started = FALSE /\ q.fds = fds
  BY <1>2, <1>3 DEF Work, IInv
<1> HIDE DEF q
<1>5. FilesOK(s, file, made)
  BY DEF IInv, FilesOK
<1>6. Since(q)
  <2>1. ~q.created /\ ~q.started
    BY <1>4
  <2>2. q.sv.record = sv.record /\ q.sv.running = sv.running
    BY <1>4
  <2>3. q.started => ~sv.running /\ q.sv.running
    BY <2>1
  <2> QED BY <1>4, <2>1, <2>2, <2>3 DEF Since
<1>7. q.sv.record => q.made \in q.fds
  BY <1>4 DEF IInv, StopOK
<1> QED BY <1>4, <1>5, <1>6, <1>7 DEF Good, q

\* A file is replaced only where there is no recorder.
Replaces == file'.id # file.id => ~sv.record /\ sv.owner # "gone"

LEMMA Ends ==
  ASSUME IInv, NEW w, Good(w), KnowsAll(w.sv), Become(w), UNCHANGED <<mpc, why>>, Idle,
         sv.owner # "gone"
  PROVE  IInv' /\ Replaces
<1>1. /\ sv' = w.sv /\ file' = w.file /\ fds' = w.fds /\ made' = w.made /\ source' = w.source
      /\ dest' = w.dest /\ w \in Work /\ dest' = made' /\ mpc' = "idle" /\ why' = why
      /\ sv'.record => dest' \in fds'
  BY DEF Become, Good, Idle
<1>2. /\ sv' \in Service /\ file' \in File /\ fds' \in SUBSET Nat /\ made' \in Nat
      /\ source' \in BOOLEAN /\ dest' \in Nat
  BY <1>1 DEF Work
<1>3. ServiceOK(sv)' /\ KnowsAll(sv)' /\ FilesOK(sv, file, made)'
  BY <1>1 DEF Good, ServiceOK, KnowsAll, FilesOK
<1>4. OwnerOK'
  BY <1>1 DEF Good, Owned, OwnerOK
<1>5. Unstarted \in [Ring -> Requests] /\ [b \in Ring |-> 0] \in [Ring -> Nat] /\ 0 \in Ring
  BY BuffersAssumption DEF Unstarted, Requests, Ring
<1>6. /\ rpc \in Pcs /\ mstop \in BOOLEAN /\ aio \in [Ring -> Requests] /\ holds \in [Ring -> Nat]
      /\ cur \in Ring /\ flushed \in 0 .. Buffers /\ offset \in Nat /\ lost \subseteq Nat
      /\ msgs \in Seq(Messages) /\ why \in {"none", "owner", "writeError"}
  BY DEF IInv, TypeOK
<1>7. /\ rpc' \in Pcs /\ mstop' \in BOOLEAN /\ flushed' \in 0 .. Buffers
  <2>1. w.started => rpc' = "check" /\ mstop' = FALSE /\ flushed' = 0
    BY DEF Become
  <2>2. ~w.started /\ w.created => rpc' = "none" /\ mstop' = TRUE /\ flushed' = 0
    BY DEF Become
  <2>3. ~w.started /\ ~w.created => rpc' = rpc /\ mstop' = mstop /\ flushed' = flushed
    BY DEF Become
  <2>4. 0 \in 0 .. Buffers
    BY BuffersAssumption
  <2> QED BY <2>1, <2>2, <2>3, <2>4, <1>6 DEF Pcs
<1>8. ASSUME w.created PROVE IInv'
  <2>1. /\ aio' = Unstarted /\ holds' = [b \in Ring |-> 0] /\ cur' = 0 /\ offset' = 0 /\ lost' = {}
        /\ msgs' = <<>>
    BY <1>8 DEF Become
  <2>2. TypeOK'
    BY <1>1, <1>2, <1>5, <1>6, <1>7, <2>1 DEF TypeOK, File
  <2>3. /\ w.made = made + 1 /\ file' = Emptied(w.made) /\ (w.started = sv.running')
        /\ rpc' = IF w.started THEN "check" ELSE "none"
    BY <1>1, <1>8 DEF Become, Good, Since
  <2>4. RecorderOK'
    <3>1. made' # 0
      BY <1>1, <2>3 DEF IInv, TypeOK
    <3> QED BY <1>1, <2>1, <2>3, <3>1 DEF RecorderOK
  <2>5. \A b \in Ring : aio'[b] = "none"
    BY <2>1 DEF Unstarted
  <2>6. FillsFree'
    BY <1>5, <2>1, <2>3, <2>5 DEF FillsFree
  <2>7. BlocksOK'
    <3>1. file'.blocks = {} /\ Missing' = {}
      BY <2>1, <2>3 DEF Emptied, Missing
    <3> QED BY <2>1, <2>5, <3>1 DEF BlocksOK
  <2>8. StopOK'
    <3>1. w.started => mstop' = FALSE
      BY DEF Become
    <3> QED BY <1>1, <2>1, <2>3, <3>1 DEF StopOK
  <2>9. FlushOK'
    BY <2>3 DEF FlushOK
  <2> QED BY <1>1, <1>3, <1>4, <2>2, <2>4, <2>6, <2>7, <2>8, <2>9 DEF IInv
<1>9. ASSUME ~w.created PROVE IInv'
  <2>1. /\ aio' = aio /\ holds' = holds /\ cur' = cur /\ offset' = offset /\ lost' = lost
        /\ msgs' = msgs
    BY <1>9 DEF Become
  <2>2. TypeOK'
    BY <1>1, <1>2, <1>6, <1>7, <2>1 DEF TypeOK, File
  <2>3. /\ made' = made /\ sv.record' = sv.record
        /\ file' = file \/ (~sv.record /\ file' = Emptied(0))
        /\ w.started => ~sv.running /\ sv.running'
        /\ ~w.started => /\ sv.running' = sv.running /\ rpc' = rpc /\ mstop' = mstop
                         /\ flushed' = flushed
        /\ fds' = fds
    BY <1>1, <1>9 DEF Become, Good, Since
  <2>4. w.started => rpc = "none" /\ aio = Unstarted /\ rpc' = "check" /\ made # 0 /\ mstop' = FALSE
    <3>1. w.started => sv.record
      BY <1>3, <2>3 DEF ServiceOK
    <3> QED BY <2>3, <3>1 DEF IInv, RecorderOK, Become, FilesOK
  <2>5. RecorderOK'
    BY <2>1, <2>3, <2>4 DEF IInv, RecorderOK
  <2>6. FillsFree'
    <3>1. w.started => aio[cur] = "none"
      BY <2>4, <1>6 DEF Unstarted
    <3> QED BY <2>1, <2>3, <2>4, <3>1 DEF IInv, FillsFree
  <2>7. BlocksOK'
    <3>1. CASE file' = file
      BY <3>1, <1>1, <2>1, <2>3 DEF IInv, BlocksOK, Missing
    <3>2. CASE file' = Emptied(0) /\ made # 0
      BY <3>2, <1>1, <2>1, <2>3 DEF IInv, BlocksOK, Emptied
    <3>3. CASE file' = Emptied(0) /\ made = 0
      <4>1. aio' = Unstarted /\ offset' = 0 /\ lost' = {}
        BY <2>1, <3>3 DEF IInv, RecorderOK
      <4>2. file'.blocks = {} /\ Missing' = {}
        BY <4>1, <3>3 DEF Emptied, Missing
      <4>3. \A b \in Ring : aio'[b] = "none"
        BY <4>1 DEF Unstarted
      <4> QED BY <4>1, <4>2, <4>3 DEF BlocksOK
    <3> QED BY <2>3, <3>1, <3>2, <3>3
  <2>8. StopOK'
    BY <1>1, <2>1, <2>3, <2>4 DEF IInv, StopOK
  <2>9. FlushOK'
    BY <2>1, <2>3, <2>4 DEF IInv, FlushOK
  <2> QED BY <1>1, <1>3, <1>4, <2>2, <2>5, <2>6, <2>7, <2>8, <2>9 DEF IInv
<1>10. Replaces
  BY <1>1 DEF Good, Since, Replaces
<1> QED BY <1>8, <1>9, <1>10

LEMMA ChosenIs == \A c \in Choices : Chosen(c)
BY DEF Choices, Chosen

LEMMA PrepareStep == IInv /\ Prepare => IInv' /\ Replaces
<1> SUFFICES ASSUME IInv, Prepare PROVE IInv' /\ Replaces
  OBVIOUS
<1>1. PICK c \in Choices, streaming \in BOOLEAN :
        Become(DoPrepare([Main EXCEPT !.sv.owner = "prepared", !.sv.streaming = streaming], c))
  BY DEF Prepare
<1> DEFINE s == [sv EXCEPT !.owner = "prepared", !.streaming = streaming]
           w == [Main EXCEPT !.sv = s]
<1>2. sv \in Service /\ ServiceOK(sv) /\ sv.owner = "new" /\ sv.state = "idle"
  BY DEF IInv, TypeOK, OwnerOK, Prepare
<1>3. [Main EXCEPT !.sv.owner = "prepared", !.sv.streaming = streaming] = w
  BY DEF Main
<1>4. /\ s \in Service /\ s.owner = "prepared" /\ s.record = sv.record /\ s.running = sv.running
      /\ s.told = sv.told /\ s.want = sv.want /\ s.state = "idle" /\ s.active = sv.active
      /\ s.pids = sv.pids /\ s.pmt = sv.pmt /\ s.tuned = sv.tuned /\ s.have = sv.have
  BY <1>2 DEF Service
<1> HIDE DEF s
<1>5. ServiceOK(s) /\ Owned(s)
  BY <1>2, <1>4 DEF ServiceOK, Owned
<1>6. Good(w) /\ w.sv = s
  BY <1>2, <1>4, <1>5, Begins
<1> HIDE DEF w
<1>7. Good(DoPrepare(w, c)) /\ KnowsAll(DoPrepare(w, c).sv)
  BY <1>4, <1>6, DoPrepareKeeps, ChosenIs DEF Leads
<1> QED BY <1>1, <1>2, <1>3, <1>7, Ends DEF Prepare

LEMMA StartStep == IInv /\ Start => IInv' /\ Replaces
<1> SUFFICES ASSUME IInv, Start PROVE IInv' /\ Replaces
  OBVIOUS
<1>1. PICK c \in Choices :
        Become(DoRecord([Main EXCEPT !.sv.owner = "started", !.sv.want = TRUE], c))
  BY DEF Start
<1> DEFINE s == [sv EXCEPT !.owner = "started", !.want = TRUE]
           w == [Main EXCEPT !.sv = s]
<1>2. sv \in Service /\ ServiceOK(sv) /\ sv.owner = "prepared"
  BY DEF IInv, TypeOK, Start
<1>3. [Main EXCEPT !.sv.owner = "started", !.sv.want = TRUE] = w
  BY DEF Main
<1>4. /\ s \in Service /\ s.owner = "started" /\ s.record = sv.record /\ s.running = sv.running
      /\ s.told = sv.told /\ s.want = TRUE /\ s.state = sv.state /\ s.active = sv.active
      /\ s.pids = sv.pids /\ s.pmt = sv.pmt /\ s.tuned = sv.tuned /\ s.have = sv.have
      /\ s.streaming = sv.streaming
  BY <1>2 DEF Service
<1> HIDE DEF s
<1>5. ServiceOK(s) /\ Owned(s)
  BY <1>2, <1>4 DEF ServiceOK, Owned
<1>6. Good(w) /\ w.sv = s
  BY <1>2, <1>4, <1>5, Begins
<1> HIDE DEF w
<1>7. Good(DoRecord(w, c)) /\ KnowsAll(DoRecord(w, c).sv)
  BY <1>4, <1>6, DoRecordKeeps, ChosenIs
<1> QED BY <1>1, <1>2, <1>3, <1>7, Ends DEF Start

LEMMA ChannelStepStep == IInv /\ ChannelStep => IInv' /\ Replaces
<1> SUFFICES ASSUME IInv, ChannelStep PROVE IInv' /\ Replaces
  OBVIOUS
<1>1. PICK state \in ChannelStates \ {"none", sv.chan}, c \in Choices :
        Become(ChannelChanged([Main EXCEPT !.sv.chan = state], c))
  BY DEF ChannelStep
<1> DEFINE s == [sv EXCEPT !.chan = state]
           w == [Main EXCEPT !.sv = s]
<1>2. sv \in Service /\ ServiceOK(sv) /\ KnowsAll(sv) /\ Owned(sv)
  <2>1. sv \in Service /\ sv.owner \notin {"new", "gone"}
    BY DEF IInv, TypeOK, OwnerOK, ChannelStep
  <2>2. sv.owner \in {"new", "prepared", "started", "gone"}
    BY <2>1 DEF Service
  <2> QED BY <2>1, <2>2 DEF IInv, Owned
<1>3. [Main EXCEPT !.sv.chan = state] = w
  BY DEF Main
<1>4. /\ s \in Service /\ s.owner = sv.owner /\ s.record = sv.record /\ s.running = sv.running
      /\ s.told = sv.told /\ s.want = sv.want /\ s.state = sv.state /\ s.active = sv.active
      /\ s.pids = sv.pids /\ s.pmt = sv.pmt /\ s.tuned = sv.tuned /\ s.have = sv.have
      /\ s.streaming = sv.streaming
  BY <1>2 DEF Service
<1> HIDE DEF s
<1>5. ServiceOK(s) /\ Owned(s) /\ KnowsAll(s) /\ sv.owner # "gone"
  BY <1>2, <1>4 DEF ServiceOK, Owned, KnowsAll
<1>6. Good(w) /\ w.sv = s
  BY <1>2, <1>4, <1>5, Begins
<1> HIDE DEF w
<1>7. Good(ChannelChanged(w, c)) /\ KnowsAll(ChannelChanged(w, c).sv)
  BY <1>5, <1>6, ChannelChangedKeeps, ChosenIs
<1> QED BY <1>1, <1>3, <1>5, <1>7, Ends DEF ChannelStep

LEMMA PMTreadyStep == IInv /\ PMTready => IInv' /\ Replaces
<1> SUFFICES ASSUME IInv, PMTready PROVE IInv' /\ Replaces
  OBVIOUS
<1>1. PICK c \in Choices :
        Become(NewInfo([Main EXCEPT !.sv.pmt = "current", !.sv.have = {}], c))
  BY DEF PMTready
<1> DEFINE s == [sv EXCEPT !.pmt = "current", !.have = {}]
           w == [Main EXCEPT !.sv = s]
<1>2. sv \in Service /\ ServiceOK(sv) /\ Owned(sv)
  <2>1. sv \in Service /\ sv.owner \notin {"new", "gone"}
    BY DEF IInv, TypeOK, OwnerOK, PMTready
  <2>2. sv.owner \in {"new", "prepared", "started", "gone"}
    BY <2>1 DEF Service
  <2> QED BY <2>1, <2>2 DEF IInv, Owned
<1>3. [Main EXCEPT !.sv.pmt = "current", !.sv.have = {}] = w
  BY DEF Main
<1>4. /\ s \in Service /\ s.owner = sv.owner /\ s.record = sv.record /\ s.running = sv.running
      /\ s.told = sv.told /\ s.want = sv.want /\ s.state = sv.state /\ s.active = sv.active
      /\ s.pids = sv.pids /\ s.tuned = sv.tuned /\ s.have = {} /\ s.streaming = sv.streaming
  BY <1>2 DEF Service
<1> HIDE DEF s
<1>5. ServiceOK(s) /\ Owned(s) /\ sv.owner # "gone"
  BY <1>2, <1>4 DEF ServiceOK, Owned
<1>6. Good(w) /\ w.sv = s
  BY <1>2, <1>4, <1>5, Begins
<1> HIDE DEF w
<1>7. Good(NewInfo(w, c)) /\ KnowsAll(NewInfo(w, c).sv)
  BY <1>6, NewInfoKeeps, ChosenIs
<1> QED BY <1>1, <1>3, <1>5, <1>7, Ends DEF PMTready

\* Steps that leave the recorder, its thread and the file alone.
LEMMA ServiceStep ==
  ASSUME IInv, sv' \in Service, ServiceOK(sv)', KnowsAll(sv)', sv'.owner = sv.owner,
         sv'.record = sv.record, sv'.running = sv.running, sv'.told = sv.told,
         sv'.chan = sv.chan, sv'.state = sv.state,
         UNCHANGED <<rpc, mstop, source, dest, aio, holds, cur, flushed, offset, lost, msgs, file,
                     fds, mpc, why, made>>
  PROVE  IInv'
<1>1. TypeOK'
  BY DEF IInv, TypeOK
<1>2. FilesOK(sv, file, made)' /\ dest' = made' /\ OwnerOK' /\ RecorderOK'
  BY DEF IInv, FilesOK, OwnerOK, RecorderOK
<1>3. FillsFree' /\ BlocksOK'
  BY DEF IInv, FillsFree, BlocksOK, Missing
<1>4. StopOK' /\ FlushOK'
  BY DEF IInv, StopOK, FlushOK
<1> QED BY <1>1, <1>2, <1>3, <1>4 DEF IInv

LEMMA PATreadyStep == IInv /\ PATready => IInv'
<1> SUFFICES ASSUME IInv, PATready PROVE IInv'
  OBVIOUS
<1>1. sv \in Service /\ sv' = [sv EXCEPT !.pmt = "wait"]
  BY DEF IInv, TypeOK, PATready
<1>2. sv' \in Service
  BY <1>1 DEF Service
<1>3. /\ sv'.owner = sv.owner /\ sv'.record = sv.record /\ sv'.running = sv.running
      /\ sv'.told = sv.told /\ sv'.want = sv.want /\ sv'.state = sv.state /\ sv'.active = sv.active
      /\ sv'.pids = sv.pids /\ sv'.tuned = sv.tuned /\ sv'.have = sv.have
      /\ sv'.streaming = sv.streaming /\ sv'.pmt = "wait" /\ sv'.chan = sv.chan
  BY <1>1 DEF Service
<1>4. ServiceOK(sv)' /\ KnowsAll(sv)'
  BY <1>3 DEF IInv, ServiceOK, KnowsAll
<1> QED BY <1>2, <1>3, <1>4, ServiceStep DEF PATready

LEMMA AskProgramStep == IInv /\ AskProgram => IInv'
<1> SUFFICES ASSUME IInv, AskProgram PROVE IInv'
  OBVIOUS
<1> DEFINE g == Fetched(sv)
<1>1. sv \in Service /\ ServiceOK(sv) /\ sv' = g
  BY DEF IInv, TypeOK, AskProgram
<1>2. g \in Service /\ ServiceOK(g) /\ g = [sv EXCEPT !.have = g.have]
  BY <1>1, FetchedKeeps
<1> HIDE DEF g
<1>3. /\ sv'.owner = sv.owner /\ sv'.record = sv.record /\ sv'.running = sv.running
      /\ sv'.told = sv.told /\ sv'.want = sv.want /\ sv'.state = sv.state /\ sv'.active = sv.active
      /\ sv'.streaming = sv.streaming /\ sv'.pmt = sv.pmt /\ sv'.chan = sv.chan
  BY <1>1, <1>2 DEF Service
<1>4. KnowsAll(sv)'
  BY <1>3 DEF IInv, KnowsAll
<1>5. ServiceOK(sv)' /\ sv' \in Service
  BY <1>1, <1>2
<1> QED BY <1>3, <1>4, <1>5, ServiceStep DEF AskProgram

-----------------------------------------------------------------------------
(* The thread *)

\* When something goes on, there is a file, and the recorder has been started.
LEMMA Runs ==
  ASSUME IInv, rpc # "none" \/ \E b \in Ring : aio[b] # "none"
  PROVE  made # 0 /\ (sv.record => sv.running)
<1>1. ~(rpc = "none" /\ aio = Unstarted)
  BY DEF Unstarted
<1> QED BY <1>1 DEF IInv, RecorderOK

\* Steps of the thread and the disk: what is left to show of them.
LEMMA RunsOn ==
  ASSUME IInv, rpc # "none" \/ \E b \in Ring : aio[b] # "none",
         UNCHANGED <<sv, why, made, dest>>, OwnerOK', TypeOK', FillsFree', BlocksOK', StopOK', FlushOK'
  PROVE  IInv'
<1>1. made # 0 /\ (sv.record => sv.running)
  BY Runs
<1>2. /\ ServiceOK(sv)' /\ KnowsAll(sv)' /\ FilesOK(sv, file, made)' /\ dest' = made'
      /\ RecorderOK'
  BY <1>1 DEF IInv, ServiceOK, KnowsAll, FilesOK, RecorderOK
<1> QED BY <1>2 DEF IInv

\* Busy buffers and their blocks stay as they are.
LEMMA BlocksStay ==
  ASSUME IInv, UNCHANGED <<offset, lost, file, dest, fds>>,
         \A b \in Ring : aio'[b] = "busy" <=> aio[b] = "busy",
         \A b \in Ring : aio[b] = "busy" => holds'[b] = holds[b]
  PROVE  BlocksOK'
<1>1. Missing' = Missing
  BY DEF Missing
<1> QED BY <1>1 DEF IInv, BlocksOK

\* The thread goes on, or ends.
LEMMA StopStays ==
  ASSUME IInv, rpc' # "none", rpc' = rpc \/ rpc \notin {"none", "ended"},
         UNCHANGED <<sv, mpc, mstop, dest, fds>>
  PROVE  StopOK'
BY DEF IInv, StopOK

\* The thread does not flush, or begins to, or stays where it is while writes end.
LEMMA FlushStays ==
  ASSUME IInv,
         \/ rpc' \notin {"flush", "ended"}
         \/ rpc' = "flush" /\ flushed' = 0
         \/ /\ rpc' = rpc /\ flushed' = flushed /\ (mstop => mstop')
            /\ \A b \in Ring : aio'[b] = "busy" => aio[b] = "busy"
  PROVE  FlushOK'
<1>1. \A b \in Ring : ~(b < 0)
  BY BuffersAssumption DEF Ring
<1>2. CASE rpc' \notin {"flush", "ended"}
  BY <1>2 DEF FlushOK
<1>3. CASE rpc' = "flush" /\ flushed' = 0
  BY <1>1, <1>3 DEF FlushOK
<1>4. CASE /\ rpc' = rpc /\ flushed' = flushed /\ (mstop => mstop')
           /\ \A b \in Ring : aio'[b] = "busy" => aio[b] = "busy"
  BY <1>4 DEF IInv, FlushOK
<1> QED BY <1>2, <1>3, <1>4

Control == <<sv, mpc, why, made>>

LEMMA Typed ==
  ASSUME IInv
  PROVE  /\ aio \in [Ring -> Requests] /\ holds \in [Ring -> Nat] /\ cur \in Ring /\ offset \in Nat
         /\ msgs \in Seq(Messages) /\ flushed \in 0 .. Buffers /\ 0 \in 0 .. Buffers
         /\ lost \subseteq Nat /\ file \in File /\ OwnerOK
BY BuffersAssumption DEF IInv, TypeOK, File

LEMMA Failing ==
  ASSUME IInv, NEW message \in Messages, Fail(message)
  PROVE  msgs' \in Seq(Messages) /\ rpc' = "flush" /\ flushed' = 0 /\ flushed' \in 0 .. Buffers
BY Typed DEF Fail

LEMMA ThreadStepKeeps ==
  ASSUME IInv, ThreadStep, UNCHANGED Control
  PROVE  IInv'
<1>1. CASE Check
  <2>1. TypeOK'
    BY <1>1, Typed DEF Check, Control, IInv, TypeOK, Pcs
  <2>2. FillsFree' /\ BlocksOK' /\ OwnerOK'
    BY <1>1, Typed, BlocksStay DEF Check, Control, IInv, FillsFree, OwnerOK
  <2>3. StopOK' /\ FlushOK'
    BY <1>1, StopStays, FlushStays DEF Check, Control
  <2> QED BY <1>1, <2>1, <2>2, <2>3, RunsOn DEF Check, Control
<1>2. CASE CallRead
  <2>1. TypeOK'
    BY <1>2, Typed, Failing DEF CallRead, Control, IInv, TypeOK, Pcs, Messages
  <2>2. FillsFree' /\ BlocksOK' /\ OwnerOK'
    BY <1>2, Typed, BlocksStay DEF CallRead, Fail, Control, IInv, FillsFree, OwnerOK
  <2>3. StopOK' /\ FlushOK'
    BY <1>2, StopStays, FlushStays DEF CallRead, Fail, Control
  <2> QED BY <1>2, <2>1, <2>2, <2>3, RunsOn DEF CallRead, Control
<1>3. CASE Submit
  <2>1. aio' \in [Ring -> Requests] /\ offset' \in Nat
    BY <1>3, Typed DEF Submit, Requests
  <2>2. TypeOK'
    BY <1>3, <2>1 DEF Submit, Control, IInv, TypeOK, Pcs
  <2>3. BlocksOK'
    <3>1. /\ aio[cur] # "busy" /\ holds[cur] = offset + 1 /\ holds' = holds /\ lost' = lost
          /\ file' = file /\ dest' = dest /\ offset' = offset + 1
          /\ \A b \in Ring : aio'[b] = IF b = cur THEN "busy" ELSE aio[b]
      BY <1>3, Typed DEF Submit, IInv, FillsFree
    <3>2. \A n \in Nat : n \in 1 .. offset' <=> n \in 1 .. offset \/ n = offset + 1
      BY <3>1, Typed
    <3>3. offset + 1 \notin 1 .. offset /\ offset + 1 \in Nat
      BY Typed
    <3>4. /\ \A b \in Ring : aio[b] = "busy" => holds[b] \in 1 .. offset /\ holds[b] \notin lost
          /\ \A b, d \in Ring : aio[b] = "busy" /\ aio[d] = "busy" /\ holds[b] = holds[d] => b = d
          /\ lost \subseteq 1 .. offset /\ 1 .. offset \subseteq Nat
      BY Typed DEF IInv, BlocksOK
    <3>5. ASSUME NEW b \in Ring, aio'[b] = "busy"
          PROVE  holds'[b] \in 1 .. offset' /\ holds'[b] \notin lost'
      <4>1. CASE b = cur
        BY <4>1, <3>1, <3>2, <3>3, <3>4
      <4>2. CASE b # cur
        BY <4>2, <3>1, <3>2, <3>4, <3>5
      <4> QED BY <4>1, <4>2
    <3>6. ASSUME NEW b \in Ring, NEW d \in Ring, aio'[b] = "busy", aio'[d] = "busy",
                 holds'[b] = holds'[d]
          PROVE  b = d
      <4>1. CASE b = cur
        BY <4>1, <3>1, <3>3, <3>4, <3>6
      <4>2. CASE b # cur
        BY <4>2, <3>1, <3>3, <3>4, <3>6
      <4> QED BY <4>1, <4>2
    <3>7. lost' \subseteq 1 .. offset'
      BY <3>1, <3>2, <3>4
    <3>8. ASSUME file'.id = dest'
          PROVE  /\ file'.blocks \subseteq (1 .. offset') \ lost'
                 /\ \A b \in Ring : aio'[b] = "busy" => holds'[b] \notin file'.blocks
      <4>1. /\ file.blocks \subseteq (1 .. offset) \ lost
            /\ \A b \in Ring : aio[b] = "busy" => holds[b] \notin file.blocks
        BY <3>1, <3>8 DEF IInv, BlocksOK
      <4> QED BY <4>1, <3>1, <3>2, <3>3
    <3>9. ASSUME file'.id = dest'
          PROVE  \A n \in Missing' : \E b \in Ring : aio'[b] = "busy" /\ holds'[b] = n
      <4>1. ASSUME NEW n \in Missing'
            PROVE  \E b \in Ring : aio'[b] = "busy" /\ holds'[b] = n
        <5>1. CASE n = offset + 1
          BY <5>1, <3>1, Typed
        <5>2. CASE n # offset + 1
          <6>1. n \in Missing
            BY <4>1, <5>2, <3>1, <3>2, <3>4, Typed DEF Missing
          <6>2. dest \in fds /\ file.id = dest
            BY <1>3, <3>1, <3>9 DEF Submit, IInv, StopOK, ServiceOK
          <6>3. PICK b \in Ring : aio[b] = "busy" /\ holds[b] = n
            BY <6>1, <6>2 DEF IInv, BlocksOK
          <6> QED BY <6>3, <3>1
        <5> QED BY <5>1, <5>2
      <4> QED BY <4>1
    <3>10. dest' \in fds'
      BY <1>3, <3>1 DEF Submit, IInv, StopOK, ServiceOK
    <3> QED BY <3>5, <3>6, <3>7, <3>8, <3>9, <3>10 DEF BlocksOK
  <2>4. FillsFree' /\ OwnerOK'
    BY <1>3, Typed DEF Submit, FillsFree, OwnerOK, Control
  <2>5. StopOK' /\ FlushOK'
    BY <1>3, StopStays, FlushStays DEF Submit, Control
  <2> QED BY <1>3, <2>2, <2>3, <2>4, <2>5, RunsOn DEF Submit, Control
<1>4. CASE Refuse
  <2>1. TypeOK'
    BY <1>4, Failing DEF Refuse, Control, IInv, TypeOK, Pcs, Messages
  <2>2. FillsFree' /\ BlocksOK' /\ OwnerOK'
    BY <1>4, Typed, BlocksStay DEF Refuse, Fail, Control, IInv, FillsFree, OwnerOK
  <2>3. StopOK' /\ FlushOK'
    BY <1>4, StopStays, FlushStays DEF Refuse, Fail, Control
  <2> QED BY <1>4, <2>1, <2>2, <2>3, RunsOn DEF Refuse, Control
<1>5. CASE Poll
  <2>1. \A b \in Ring : aio'[b] = IF b \in Done THEN "none" ELSE aio[b]
    BY <1>5 DEF Poll
  <2>2. aio' \in [Ring -> Requests]
    BY <1>5, Typed DEF Poll, Requests
  <2>3. \A b \in Ring : aio'[b] = "busy" <=> aio[b] = "busy"
    BY <2>1 DEF Done
  <2>4. Following(cur) \in Ring
    BY Typed, BuffersAssumption DEF Following, Ring
  <2>5. TypeOK'
    BY <1>5, <2>2, <2>4, Failing DEF Poll, Control, IInv, TypeOK, Pcs, Messages
  <2>6. BlocksOK'
    BY <1>5, <2>3, BlocksStay DEF Poll
  <2>7. FillsFree' /\ OwnerOK'
    BY <1>5, Typed DEF Poll, Fail, Control, FillsFree, OwnerOK
  <2>8. StopOK' /\ FlushOK'
    BY <1>5, StopStays, FlushStays DEF Poll, Fail, Control
  <2> QED BY <1>5, <2>5, <2>6, <2>7, <2>8, RunsOn DEF Poll, Control
<1>6. CASE WaitForBuffer
  <2>1. \A b \in Ring : aio'[b] = IF b = cur THEN "none" ELSE aio[b]
    BY <1>6, Typed DEF WaitForBuffer
  <2>2. aio' \in [Ring -> Requests] /\ aio[cur] # "busy" /\ aio'[cur] = "none"
    BY <1>6, Typed DEF WaitForBuffer, Requests
  <2>3. TypeOK'
    BY <1>6, <2>2, Failing DEF WaitForBuffer, Control, IInv, TypeOK, Pcs, Messages
  <2>4. BlocksOK'
    BY <1>6, <2>1, <2>2, BlocksStay DEF WaitForBuffer
  <2>5. FillsFree' /\ OwnerOK'
    BY <1>6, <2>2, Typed DEF WaitForBuffer, Fail, Control, FillsFree, OwnerOK
  <2>6. StopOK' /\ FlushOK'
    BY <1>6, StopStays, FlushStays DEF WaitForBuffer, Fail, Control
  <2> QED BY <1>6, <2>3, <2>4, <2>5, <2>6, RunsOn DEF WaitForBuffer, Control
<1>7. CASE Flush
  <2>1. /\ \A b \in Ring : aio'[b] = IF b = flushed THEN "none" ELSE aio[b]
        /\ aio[flushed] # "busy" /\ flushed \in Ring /\ rpc = "flush"
    BY <1>7, Typed DEF Flush
  <2>2. aio' \in [Ring -> Requests] /\ flushed' \in 0 .. Buffers
    <3>1. aio' \in [Ring -> Requests]
      BY <1>7, Typed DEF Flush, Requests
    <3>2. flushed' = flushed + 1
      BY <1>7 DEF Flush
    <3> QED BY <2>1, <3>1, <3>2, BuffersAssumption DEF Ring
  <2>3. TypeOK'
    BY <1>7, <2>2 DEF Flush, Control, IInv, TypeOK
  <2>4. BlocksOK'
    BY <1>7, <2>1, BlocksStay DEF Flush
  <2>5. FillsFree' /\ OwnerOK'
    BY <1>7, Typed DEF Flush, Control, FillsFree, OwnerOK
  <2>6. StopOK'
    BY <1>7, StopStays DEF Flush, Control
  <2>7. FlushOK'
    <3>1. flushed' = flushed + 1 /\ mstop' = mstop /\ rpc' = "flush"
      BY <1>7 DEF Flush
    <3>2. \A a \in Ring : a < flushed + 1 /\ aio'[a] = "busy" => a < flushed /\ aio[a] = "busy"
      BY <2>1 DEF Ring
    <3> QED BY <2>1, <3>1, <3>2 DEF IInv, FlushOK
  <2> QED BY <1>7, <2>1, <2>3, <2>4, <2>5, <2>6, <2>7, RunsOn DEF Flush, Control
<1>8. CASE EndThread
  <2>1. TypeOK'
    BY <1>8, Typed DEF EndThread, Control, IInv, TypeOK, Pcs, Messages
  <2>2. FillsFree' /\ BlocksOK' /\ OwnerOK'
    BY <1>8, Typed, BlocksStay DEF EndThread, Control, IInv, FillsFree, OwnerOK
  <2>3. StopOK' /\ FlushOK'
    BY <1>8, StopStays DEF EndThread, Control, IInv, FlushOK
  <2> QED BY <1>8, <2>1, <2>2, <2>3, RunsOn DEF EndThread, Control
<1> QED BY <1>1, <1>2, <1>3, <1>4, <1>5, <1>6, <1>7, <1>8 DEF ThreadStep

LEMMA CompleteKeeps ==
  ASSUME IInv, NEW b \in Ring, NEW result \in {"ok", "failed"}, Complete(b, result), UNCHANGED Control
  PROVE  IInv'
<1>1. /\ aio[b] = "busy" /\ aio' = [aio EXCEPT ![b] = result]
      /\ lost' = IF result = "failed" /\ dest \in fds THEN lost \cup {holds[b]} ELSE lost
      /\ file' = IF result = "ok" /\ file.id = dest
                 THEN [file EXCEPT !.blocks = @ \cup {holds[b]}] ELSE file
      /\ holds' = holds /\ offset' = offset /\ dest' = dest /\ fds' = fds
      /\ result = "ok" => dest \in fds
  BY DEF Complete
<1>2. \A d \in Ring : aio'[d] = IF d = b THEN result ELSE aio[d]
  BY <1>1, Typed
<1>3. /\ \A d \in Ring : aio[d] = "busy" => holds[d] \in 1 .. offset /\ holds[d] \notin lost
      /\ \A d, e \in Ring : aio[d] = "busy" /\ aio[e] = "busy" /\ holds[d] = holds[e] => d = e
      /\ lost \subseteq 1 .. offset /\ 1 .. offset \subseteq Nat
  BY Typed DEF IInv, BlocksOK
<1>4. /\ file'.id = file.id /\ file' \in File
      /\ file'.blocks = IF result = "ok" /\ file.id = dest THEN file.blocks \cup {holds[b]} ELSE file.blocks
  BY <1>1, Typed DEF File
<1>5. TypeOK'
  <2>1. aio' \in [Ring -> Requests]
    BY <1>1, Typed DEF Requests
  <2>2. lost' \subseteq Nat
    BY <1>1, <1>3
  <2> QED BY <1>4, <2>1, <2>2 DEF Complete, Control, IInv, TypeOK, File
<1>6. BlocksOK'
  <2>1. ASSUME NEW d \in Ring, aio'[d] = "busy"
        PROVE  d # b /\ aio[d] = "busy" /\ holds[d] # holds[b]
               /\ holds'[d] \in 1 .. offset' /\ holds'[d] \notin lost'
    <3>1. d # b /\ aio[d] = "busy"
      BY <1>2, <2>1
    <3>2. holds[d] # holds[b]
      BY <3>1, <1>1, <1>3
    <3> QED BY <3>1, <3>2, <1>1, <1>3
  <2>2. \A d, e \in Ring : aio'[d] = "busy" /\ aio'[e] = "busy" /\ holds'[d] = holds'[e] => d = e
    BY <2>1, <1>1, <1>3
  <2>3. lost' \subseteq 1 .. offset'
    BY <1>1, <1>3
  <2>4. ASSUME file'.id = dest'
        PROVE  /\ file'.blocks \subseteq (1 .. offset') \ lost'
               /\ \A d \in Ring : aio'[d] = "busy" => holds'[d] \notin file'.blocks
               /\ Missing' \subseteq Missing /\ (dest \in fds => holds[b] \notin Missing')
    <3>1. /\ file.id = dest /\ file.blocks \subseteq (1 .. offset) \ lost
          /\ \A d \in Ring : aio[d] = "busy" => holds[d] \notin file.blocks
      BY <1>1, <1>4, <2>4 DEF IInv, BlocksOK
    <3>2. /\ holds[b] \in 1 .. offset /\ holds[b] \notin lost /\ holds[b] \notin file.blocks
      BY <1>1, <1>3, <3>1
    <3>3. file'.blocks \subseteq (1 .. offset') \ lost'
      BY <3>1, <3>2, <1>1, <1>4
    <3>4. \A d \in Ring : aio'[d] = "busy" => holds'[d] \notin file'.blocks
      BY <3>1, <2>1, <1>1, <1>4
    <3>5. Missing' \subseteq Missing /\ (dest \in fds => holds[b] \notin Missing')
      BY <3>1, <1>1, <1>4 DEF Missing
    <3> QED BY <3>3, <3>4, <3>5
  <2>5. ASSUME file'.id = dest', dest' \in fds', NEW n \in Missing'
        PROVE  \E d \in Ring : aio'[d] = "busy" /\ holds'[d] = n
    <3>1. n \in Missing /\ n # holds[b] /\ file.id = dest /\ dest \in fds
      BY <1>1, <1>4, <2>4, <2>5
    <3>2. PICK d \in Ring : aio[d] = "busy" /\ holds[d] = n
      BY <3>1 DEF IInv, BlocksOK
    <3> QED BY <3>1, <3>2, <1>1, <1>2
  <2>6. ASSUME file'.id = dest', dest' \notin fds'
        PROVE  \A m, n \in Missing' : m = n
    BY <1>1, <1>4, <2>4, <2>6 DEF IInv, BlocksOK
  <2> QED BY <2>1, <2>2, <2>3, <2>4, <2>5, <2>6 DEF BlocksOK
<1>7. FillsFree' /\ OwnerOK'
  <2>1. rpc' = rpc /\ cur' = cur
    BY DEF Complete
  <2> QED BY <1>1, <1>2, <2>1, Typed DEF IInv, FillsFree, OwnerOK, Control
<1>8. aio[b] # "none" /\ rpc # "none"
  BY <1>1 DEF IInv, StopOK, Unstarted
<1>9. StopOK' /\ FlushOK'
  <2>1. UNCHANGED <<rpc, mstop, flushed, dest, fds>>
    BY DEF Complete
  <2> QED BY <1>2, <1>8, <2>1, StopStays, FlushStays DEF Control
<1> QED BY <1>1, <1>5, <1>6, <1>7, <1>8, <1>9, RunsOn DEF Control

LEMMA DeviceKeeps ==
  ASSUME IInv, Device, UNCHANGED Control
  PROVE  IInv'
<1>1. CASE ReadData
  <2>1. /\ aio[cur] # "busy" /\ aio' = aio /\ holds' = [holds EXCEPT ![cur] = offset + 1]
    BY <1>1 DEF ReadData, IInv, FillsFree
  <2>2. holds' \in [Ring -> Nat] /\ holds'[cur] = offset + 1
        /\ \A b \in Ring : aio[b] = "busy" => holds'[b] = holds[b]
    BY <2>1, Typed
  <2>3. TypeOK'
    BY <1>1, <2>2 DEF ReadData, Control, IInv, TypeOK, Pcs
  <2>4. BlocksOK'
    BY <1>1, <2>1, <2>2, BlocksStay DEF ReadData
  <2>5. FillsFree' /\ OwnerOK'
    BY <1>1, <2>1, <2>2, Typed DEF ReadData, Control, FillsFree, OwnerOK
  <2>6. StopOK' /\ FlushOK'
    BY <1>1, StopStays, FlushStays DEF ReadData, Control
  <2> QED BY <1>1, <2>3, <2>4, <2>5, <2>6, RunsOn DEF ReadData, Control
<1>2. CASE ReadAgain
  <2>1. TypeOK'
    BY <1>2 DEF ReadAgain, Control, IInv, TypeOK, Pcs
  <2>2. FillsFree' /\ BlocksOK' /\ OwnerOK'
    BY <1>2, Typed, BlocksStay DEF ReadAgain, Control, IInv, FillsFree, OwnerOK
  <2>3. StopOK' /\ FlushOK'
    BY <1>2, StopStays, FlushStays DEF ReadAgain, Control
  <2> QED BY <1>2, <2>1, <2>2, <2>3, RunsOn DEF ReadAgain, Control
<1>3. CASE ReadError
  <2>1. TypeOK'
    BY <1>3, Failing DEF ReadError, Control, IInv, TypeOK, Pcs, Messages
  <2>2. FillsFree' /\ BlocksOK' /\ OwnerOK'
    BY <1>3, Typed, BlocksStay DEF ReadError, Fail, Control, IInv, FillsFree, OwnerOK
  <2>3. StopOK' /\ FlushOK'
    BY <1>3, StopStays, FlushStays DEF ReadError, Fail, Control
  <2> QED BY <1>3, <2>1, <2>2, <2>3, RunsOn DEF ReadError, Control
<1>4. CASE \E b \in Ring : Complete(b, "ok") \/ Complete(b, "failed")
  BY <1>4, CompleteKeeps
<1> QED BY <1>1, <1>2, <1>3, <1>4 DEF Device

-----------------------------------------------------------------------------
(* stop *)

LEMMA SignalStep == IInv /\ Signal => IInv'
<1> SUFFICES ASSUME IInv, Signal PROVE IInv'
  OBVIOUS
<1>1. /\ mpc = "signal" /\ mpc' = "join" /\ mstop' = TRUE
      /\ UNCHANGED <<source, dest, aio, holds, cur, offset, lost, file, fds, sv, why, made>>
  BY DEF Signal
<1>2. OwnerOK'
  BY <1>1, Typed DEF OwnerOK
<1>3. BlocksOK'
  BY <1>1, BlocksStay
<1>4. ASSUME rpc' \in Pcs, msgs' \in Seq(Messages), flushed' \in 0 .. Buffers PROVE TypeOK'
  BY <1>1, <1>4 DEF IInv, TypeOK
<1>9. sv.running /\ ~mstop
  BY <1>1 DEF IInv, StopOK
<1>10. ASSUME rpc' # "none", rpc' = rpc \/ rpc \notin {"none", "ended"} PROVE StopOK'
  BY <1>1, <1>9, <1>10 DEF IInv, StopOK
<1>5. CASE rpc = "read"
  <2>1. rpc' = "check" /\ UNCHANGED <<msgs, flushed>>
    BY <1>5 DEF Signal, Interrupted
  <2>2. TypeOK'
    BY <2>1, <1>4, Typed DEF Pcs
  <2>3. FillsFree'
    BY <1>1, <1>5, <2>1 DEF IInv, FillsFree
  <2>4. StopOK' /\ FlushOK'
    BY <2>1, <1>5, <1>10, FlushStays
  <2> QED BY <1>1, <1>2, <1>3, <1>5, <2>2, <2>3, <2>4, RunsOn
<1>6. CASE rpc = "wait" /\ aio[cur] = "busy"
  <2>1. Fail("writeError")
    BY <1>6 DEF Signal, Interrupted
  <2>2. TypeOK' /\ FillsFree'
    BY <2>1, <1>4, Failing DEF Messages, Pcs, FillsFree
  <2>3. StopOK' /\ FlushOK'
    BY <2>1, <1>6, <1>10, Failing, FlushStays DEF Messages
  <2> QED BY <1>1, <1>2, <1>3, <1>6, <2>2, <2>3, RunsOn
<1>7. CASE rpc = "flush" /\ flushed \in Ring /\ aio[flushed] = "busy"
  <2>1. flushed' = flushed + 1 /\ UNCHANGED <<rpc, msgs>>
    BY <1>7 DEF Signal, Interrupted
  <2>2. flushed' \in 0 .. Buffers
    BY <1>7, <2>1, BuffersAssumption DEF Ring
  <2>3. TypeOK' /\ FillsFree'
    BY <1>7, <2>1, <2>2, <1>4, Typed DEF Pcs, FillsFree
  <2>4. StopOK'
    BY <2>1, <1>7, <1>10
  <2>5. FlushOK'
    <3>1. \A a \in Ring : a < flushed => aio[a] # "busy"
      BY <1>7, <1>9 DEF IInv, FlushOK
    <3>2. \A a \in Ring : a < flushed + 1 /\ aio[a] = "busy" => a = flushed
      BY <3>1, <1>7 DEF Ring
    <3> QED BY <1>1, <1>7, <2>1, <3>2 DEF FlushOK
  <2> QED BY <1>1, <1>2, <1>3, <1>7, <2>3, <2>4, <2>5, RunsOn
<1>8. CASE /\ rpc # "read" /\ ~(rpc = "wait" /\ aio[cur] = "busy")
           /\ ~(rpc = "flush" /\ flushed \in Ring /\ aio[flushed] = "busy")
  <2>1. UNCHANGED <<rpc, msgs, flushed>>
    BY <1>8 DEF Signal, Interrupted
  <2>2. TypeOK'
    BY <2>1, <1>4, Typed DEF IInv, TypeOK
  <2>4. StopOK' /\ FlushOK'
    BY <1>1, <1>9, <2>1 DEF IInv, StopOK, FlushOK
  <2>3. FillsFree' /\ RecorderOK' /\ ServiceOK(sv)' /\ KnowsAll(sv)' /\ FilesOK(sv, file, made)'
        /\ dest' = made'
    BY <1>1, <2>1 DEF IInv, FillsFree, RecorderOK, ServiceOK, KnowsAll, FilesOK
  <2> QED BY <1>2, <1>3, <2>2, <2>3, <2>4 DEF IInv
<1> QED BY <1>5, <1>6, <1>7, <1>8

LEMMA EndStopKeeps ==
  ASSUME IInv, NEW reason \in {"owner", "writeError"}, EndStop(reason), mpc' = "idle",
         source' \in BOOLEAN, why' \in {"none", "owner", "writeError"}, msgs' \in Seq(Messages),
         UNCHANGED <<rpc, mstop, cur, flushed, offset, holds, aio, lost, file, dest, made>>,
         rpc \in {"none", "ended"}
  PROVE  IInv'
<1> DEFINE s == [sv EXCEPT !.state = "idle", !.record = FALSE, !.running = FALSE,
                           !.fd = IF sv.state = "recording" THEN 0 ELSE @]
<1>1. sv \in Service /\ ServiceOK(sv)
  BY DEF IInv, TypeOK
<1>2. /\ s \in Service /\ s.owner = sv.owner /\ s.record = FALSE /\ s.running = FALSE
      /\ s.told = sv.told /\ s.want = sv.want /\ s.state = "idle" /\ s.pmt = sv.pmt
      /\ s.have = sv.have /\ s.chan = sv.chan
  BY <1>1 DEF Service
<1>3. sv' = IF reason = "owner" THEN [s EXCEPT !.owner = "gone", !.chan = "none"]
            ELSE [s EXCEPT !.told = @ \cup {reason}]
  BY DEF EndStop, StoppedService
<1> HIDE DEF s
<1>4. /\ sv' \in Service /\ sv'.record = FALSE /\ sv'.running = FALSE /\ sv'.state = "idle"
      /\ sv'.pmt = sv.pmt /\ sv'.have = sv.have
      /\ reason = "owner" => sv'.owner = "gone" /\ sv'.chan = "none"
      /\ reason # "owner" => sv'.owner = sv.owner /\ sv'.chan = sv.chan /\ "writeError" \in sv'.told
  <2>1. CASE reason = "owner"
    BY <2>1, <1>2, <1>3 DEF Service, ChannelStates
  <2>2. CASE reason = "writeError"
    <3>1. sv' = [s EXCEPT !.told = s.told \cup {"writeError"}]
      BY <2>2, <1>3
    <3> QED BY <2>2, <1>2, <3>1 DEF Service
  <2> QED BY <2>1, <2>2
<1>5. ServiceOK(sv)' /\ KnowsAll(sv)'
  BY <1>1, <1>4 DEF ServiceOK, KnowsAll
<1>6. FilesOK(sv, file, made)'
  BY <1>4 DEF IInv, FilesOK
<1>7. OwnerOK'
  BY <1>4, Typed DEF OwnerOK
<1>8. fds' \subseteq Nat
  BY DEF EndStop, IInv, TypeOK
<1>9. TypeOK'
  BY <1>4, <1>8 DEF IInv, TypeOK
<1>10. RecorderOK' /\ FillsFree' /\ dest' = made'
  BY <1>4 DEF IInv, RecorderOK, FillsFree
<1>11. \A a, b \in Ring : aio[a] = "busy" /\ aio[b] = "busy" => a = b
  <2>1. CASE rpc = "none"
    BY <2>1 DEF IInv, StopOK, Unstarted
  <2>2. CASE rpc = "ended"
    <3>1. \A b \in Ring : b < Buffers
      BY BuffersAssumption DEF Ring
    <3> QED BY <2>2, <3>1 DEF IInv, FlushOK
  <2> QED BY <2>1, <2>2
<1>12. BlocksOK'
  <2>1. fds' \subseteq fds /\ Missing' = Missing
    BY DEF EndStop, Missing
  <2>2. ASSUME file.id = dest, NEW m \in Missing, NEW n \in Missing, dest \in fds PROVE m = n
    BY <2>2, <1>11 DEF IInv, BlocksOK
  <2> QED BY <2>1, <2>2 DEF IInv, BlocksOK
<1>13. StopOK' /\ FlushOK'
  BY <1>4 DEF IInv, StopOK, FlushOK
<1> QED BY <1>5, <1>6, <1>7, <1>9, <1>10, <1>12, <1>13 DEF IInv

LEMMA StopServiceKeeps ==
  ASSUME IInv, Idle, NEW reason \in {"owner", "writeError"}, StopService(reason), msgs' \in Seq(Messages),
         UNCHANGED <<rpc, mstop, cur, flushed, offset, holds, aio, lost, file, dest, made>>
  PROVE  IInv'
<1>1. CASE HasToWait
  <2>1. mpc' = "signal" /\ why' = reason /\ source' = FALSE /\ UNCHANGED <<sv, fds>>
    BY <1>1 DEF StopService
  <2>2. TypeOK'
    BY <2>1 DEF IInv, TypeOK
  <2>3. OwnerOK'
    BY <2>1, Typed DEF OwnerOK
  <2>4. BlocksOK'
    BY <2>1, BlocksStay
  <2>5. StopOK' /\ FlushOK'
    BY <1>1, <2>1 DEF IInv, StopOK, FlushOK, HasToWait, Idle
  <2> QED BY <2>1, <2>2, <2>3, <2>4, <2>5 DEF IInv, ServiceOK, KnowsAll, FilesOK, RecorderOK, FillsFree
<1>2. CASE ~HasToWait
  <2>1. EndStop(reason) /\ UNCHANGED <<mpc, why, source>>
    BY <1>2 DEF StopService
  <2>2. rpc \in {"none", "ended"}
    BY <1>2 DEF HasToWait, IInv, StopOK, ServiceOK
  <2> QED BY <2>1, <2>2, EndStopKeeps DEF Idle, IInv, TypeOK
<1> QED BY <1>1, <1>2

LEMMA JoinStep == IInv /\ Join => IInv'
BY EndStopKeeps, Typed DEF Join, OwnerOK, thread, IInv, TypeOK

LEMMA OwnerStopsStep == IInv /\ OwnerStops => IInv'
BY StopServiceKeeps, Typed DEF OwnerStops, thread

LEMMA ReceiveStep == IInv /\ Receive => IInv'
<1> SUFFICES ASSUME IInv, Receive PROVE IInv'
  OBVIOUS
<1>1. msgs' \in Seq(Messages) /\ UNCHANGED <<rpc, mstop, cur, flushed, offset, holds, aio, lost, file, dest, made>>
  BY Typed DEF Receive
<1>2. CASE Head(msgs) = "writeError"
  BY <1>1, <1>2, StopServiceKeeps DEF Receive
<1>3. CASE Head(msgs) # "writeError"
  <2>1. UNCHANGED <<source, sv, fds, mpc, why>>
    BY <1>3 DEF Receive
  <2>2. BlocksOK'
    BY <1>1, <2>1, BlocksStay
  <2>3. StopOK' /\ FlushOK'
    BY <1>1, <2>1 DEF IInv, StopOK, FlushOK
  <2> QED BY <1>1, <2>1, <2>2, <2>3 DEF IInv, TypeOK, ServiceOK, KnowsAll, FilesOK, OwnerOK, RecorderOK, FillsFree
<1> QED BY <1>2, <1>3

-----------------------------------------------------------------------------
(* The specification *)

LEMMA Initially == Init => IInv
<1> SUFFICES ASSUME Init PROVE IInv
  OBVIOUS
<1>1. sv \in Service
  BY DEF Init, Service, ChannelStates
<1>2. /\ sv.owner = "new" /\ sv.state = "idle" /\ sv.record = FALSE /\ sv.running = FALSE
      /\ sv.chan = "none" /\ sv.pmt = "off"
  BY DEF Init
<1>3. Unstarted \in [Ring -> Requests] /\ [b \in Ring |-> 0] \in [Ring -> Nat] /\ 0 \in Ring
      /\ 0 \in 0 .. Buffers
  BY BuffersAssumption DEF Unstarted, Requests, Ring
<1>4. TypeOK
  <2>1. /\ rpc \in Pcs /\ mstop \in BOOLEAN /\ source \in BOOLEAN /\ dest \in Nat /\ cur \in Ring
        /\ aio \in [Ring -> Requests] /\ holds \in [Ring -> Nat] /\ flushed \in 0 .. Buffers
    BY <1>3 DEF Init, Pcs
  <2>2. /\ offset \in Nat /\ lost \subseteq Nat /\ msgs \in Seq(Messages) /\ made \in Nat
        /\ fds \subseteq Nat /\ mpc \in {"idle", "signal", "join"} /\ why \in {"none", "owner", "writeError"}
    BY DEF Init
  <2>3. file \in [id : Nat, blocks : SUBSET Nat]
    BY DEF Init
  <2> QED BY <1>1, <2>1, <2>2, <2>3 DEF TypeOK
<1>5. ServiceOK(sv) /\ KnowsAll(sv) /\ OwnerOK /\ RecorderOK
  BY <1>2 DEF Init, ServiceOK, KnowsAll, OwnerOK, RecorderOK
<1>6. FilesOK(sv, file, made) /\ dest = made /\ FillsFree
  BY <1>2 DEF Init, FilesOK, FillsFree
<1>7. BlocksOK
  <2>1. \A b \in Ring : aio[b] # "busy"
    BY DEF Init, Unstarted
  <2>2. Missing = {} /\ file.blocks = {} /\ lost = {}
    BY DEF Init, Missing
  <2> QED BY <2>1, <2>2 DEF Init, BlocksOK
<1>8. StopOK /\ FlushOK
  BY <1>2 DEF Init, StopOK, FlushOK
<1> QED BY <1>4, <1>5, <1>6, <1>7, <1>8 DEF IInv

LEMMA NextKeeps == IInv /\ [Next]_vars => IInv' /\ Replaces
<1> SUFFICES ASSUME IInv, [Next]_vars PROVE IInv' /\ Replaces
  OBVIOUS
<1>1. CASE UNCHANGED vars
  BY <1>1 DEF vars, IInv, TypeOK, ServiceOK, KnowsAll, FilesOK, OwnerOK, RecorderOK, FillsFree,
     BlocksOK, Missing, StopOK, FlushOK, Replaces
<1>2. CASE Prepare \/ Start \/ ChannelStep \/ PMTready
  BY <1>2, PrepareStep, StartStep, ChannelStepStep, PMTreadyStep
<1>3. CASE PATready \/ AskProgram
  BY <1>3, PATreadyStep, AskProgramStep DEF PATready, AskProgram, Replaces
<1>4. CASE OwnerStops \/ Receive \/ Signal \/ Join
  BY <1>4, OwnerStopsStep, ReceiveStep, SignalStep, JoinStep
     DEF OwnerStops, Receive, Signal, Join, Replaces
<1>5. CASE ThreadStep /\ UNCHANGED <<sv, mpc, why, made>>
  <2>1. file' = file
    BY <1>5 DEF ThreadStep, Check, CallRead, Submit, Refuse, Poll, WaitForBuffer, Flush, EndThread
  <2> QED BY <1>5, <2>1, ThreadStepKeeps DEF Control, Replaces
<1>6. CASE Device /\ UNCHANGED <<sv, mpc, why, made>>
  <2>1. file'.id = file.id
    BY <1>6, Typed DEF Device, ReadData, ReadAgain, ReadError, Complete, File
  <2> QED BY <1>6, <2>1, DeviceKeeps DEF Control, Replaces
<1> QED BY <1>1, <1>2, <1>3, <1>4, <1>5, <1>6 DEF Next, MainStep, Over

LEMMA Invariance == Spec => []IInv
<1>1. IInv /\ [Next]_vars => IInv'
  BY NextKeeps
<1> QED BY Initially, <1>1, PTL DEF Spec

\* Every variable keeps its type.
THEOREM RecordServiceTypes == Spec => []TypeOK
<1>1. IInv => TypeOK
  BY DEF IInv
<1> QED BY <1>1, Invariance, PTL

\* When the thread has ended and the disk has answered, the file has the blocks that were read
\* and the disk took: no buffer is filled while the disk has it, and a stop that interrupts the
\* thread gives up one write at most (demux.cpp: writeData, asyncWrite, flush).  Whether the
\* owner hears of a block that the disk refused, it does not say.
THEOREM StoppedIsCompleteAlways == Spec => []StoppedIsComplete
<1>1. IInv => StoppedIsComplete
  <2> SUFFICES ASSUME IInv, \A b \in Ring : aio[b] # "busy", file.id = dest
               PROVE  /\ file.blocks \subseteq (1 .. offset) \ lost
                      /\ \A m, n \in Missing : m = n
                      /\ dest \in fds => Missing = {}
    BY DEF StoppedIsComplete
  <2> QED BY DEF IInv, BlocksOK
<1> QED BY <1>1, Invariance, PTL

\* Whatever was recorded before the PMT was known, and however often tuning began anew, the
\* recorder has all pids (servicedvbrecord.cpp: doRecord).
THEOREM RecordsAllPidsAlways == Spec => []RecordsAllPids
<1>1. IInv => RecordsAllPids
  BY DEF IInv, ServiceOK, KnowsAll, RecordsAllPids
<1> QED BY <1>1, Invariance, PTL

\* A file with a recording in it is replaced only after a failure the owner was told of.
THEOREM FileKeptAlways == Spec => FileKept
<1> DEFINE Kept == file'.id # file.id /\ file.blocks # {} => "writeError" \in sv.told
<1>1. IInv /\ [Next]_vars => [Kept]_vars
  BY NextKeeps DEF Replaces, IInv, FilesOK
<1> QED BY <1>1, Invariance, PTL DEF Spec, FileKept
=============================================================================
