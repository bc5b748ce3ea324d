------------------------ MODULE ChannelManagerProofs ------------------------
(***************************************************************************)
(* What holds of the resource manager for any number of tuners, channels,  *)
(* handlers and owners of raw channels.                                    *)
(*                                                                         *)
(* The manager's operators take its state as a record and a use after the  *)
(* other is counted in it, so the invariant is one of records: Sound says  *)
(* what every record between two changes has in common, relative to the    *)
(* uses w it should count for every channel; an action ends where w is     *)
(* what the users hold.                                                    *)
(***************************************************************************)
EXTENDS ChannelManager, FiniteSetTheorems, TLAPS

Users == Handlers \cup RawUsers

State == [chan : [Channels -> Channel], active : Seq(Channels), inuse : [Frontends -> Nat],
          cached : Channels \cup {None}, conn : Channels \cup {None}, timer : BOOLEAN,
          holds : [Users -> Channels \cup {None}], fstate : [Frontends -> FrontendStates]]

\* What a channel is for its whole life.
Same(s, t, c) == /\ t.chan[c].live = s.chan[c].live
                 /\ t.chan[c].id = s.chan[c].id /\ t.chan[c].fe = s.chan[c].fe

\* A frontend is in use by one channel or by none.
Owned(s) == \A f \in Frontends :
  \/ s.inuse[f] = 0 /\ \A c \in Channels : s.chan[c].fe # f
  \/ s.inuse[f] = 1 /\ \E c \in Channels : s.chan[c].fe = f /\ \A d \in Channels \ {c} : s.chan[d].fe # f

\* m_active_channels has every live channel with an id, once.
Listed(s) ==
  /\ \A i, j \in DOMAIN s.active : s.active[i] = s.active[j] => i = j
  /\ \A i \in DOMAIN s.active : s.chan[s.active[i]].id # None
  /\ \A c \in Channels : s.chan[c].id # None => \E i \in DOMAIN s.active : s.active[i] = c

\* A transponder's channel has a tuner for it, and is the only one; a stream's has none.
Named(s) ==
  /\ \A c \in Channels : s.chan[c].id \in Ids => <<s.chan[c].id, s.chan[c].fe>> \in Tunable
  /\ \A c \in Channels : s.chan[c].id \in StreamIds => s.chan[c].fe = None
  /\ \A c, d \in Channels : s.chan[c].id \in Ids /\ s.chan[d].id = s.chan[c].id => c = d

Counts == [Channels -> Nat]
Counted(s, w) == \A c \in Channels : /\ s.chan[c].uses = w[c]
                                     /\ w[c] = 0 => s.chan[c] = Dead
                                     /\ w[c] > 0 => s.chan[c].live

Sound(s, w) == s \in State /\ w \in Counts /\ Counted(s, w) /\ Owned(s) /\ Listed(s) /\ Named(s)

-----------------------------------------------------------------------------
(* The operators, field by field *)

LEMMA StateFields ==
  ASSUME NEW s \in State
  PROVE  /\ s.chan \in [Channels -> Channel] /\ s.active \in Seq(Channels)
         /\ s.inuse \in [Frontends -> Nat]
         /\ s.cached \in Channels \cup {None} /\ s.conn \in Channels \cup {None}
         /\ s.timer \in BOOLEAN /\ s.holds \in [Users -> Channels \cup {None}]
         /\ s.fstate \in [Frontends -> FrontendStates]
BY DEF State

LEMMA ChannelFields ==
  ASSUME NEW ch \in [Channels -> Channel], NEW c \in Channels
  PROVE  /\ ch[c] \in Channel /\ ch[c].live \in BOOLEAN /\ ch[c].id \in Ids \cup StreamIds \cup {None}
         /\ ch[c].fe \in Frontends \cup {None} /\ ch[c].state \in States /\ ch[c].uses \in Nat
BY DEF Channel

LEMMA DeadChannel == /\ Dead \in Channel /\ Dead.live = FALSE /\ Dead.id = None /\ Dead.fe = None
                     /\ Dead.uses = 0
BY DEF Dead, Channel, States

\* m_state and the timer of the cached channel, and nothing else.
LEMMA StateChangedFields ==
  ASSUME NEW s \in State, NEW c \in Channels, NEW state \in States
  PROVE  LET t == StateChanged(s, c, state)
         IN  /\ t \in State
             /\ t.chan = [s.chan EXCEPT ![c].state = state]
             /\ t.active = s.active /\ t.inuse = s.inuse /\ t.cached = s.cached
             /\ t.conn = s.conn /\ t.holds = s.holds /\ t.fstate = s.fstate
<1> DEFINE on == IF s.conn # c THEN s.timer
                 ELSE CASE state \in {"ok", "release"} -> FALSE
                        [] state = "last_instance" -> TRUE
                        [] OTHER -> s.timer
           ch == [s.chan EXCEPT ![c].state = state]
<1>1. on \in BOOLEAN
  BY DEF State
<1>2. ch \in [Channels -> Channel]
  <2>1. s.chan \in [Channels -> Channel]
    BY StateFields
  <2>2. [s.chan[c] EXCEPT !.state = state] \in Channel
    BY <2>1 DEF Channel
  <2>3. ch = [s.chan EXCEPT ![c] = [s.chan[c] EXCEPT !.state = state]]
    BY <2>1
  <2> HIDE DEF ch
  <2> QED BY <2>1, <2>2, <2>3
<1>3. StateChanged(s, c, state) = [s EXCEPT !.chan = ch, !.timer = on]
  BY DEF StateChanged, State
<1> HIDE DEF on, ch
<1>4. /\ StateChanged(s, c, state) \in State
      /\ StateChanged(s, c, state).chan = ch
      /\ StateChanged(s, c, state).active = s.active /\ StateChanged(s, c, state).inuse = s.inuse
      /\ StateChanged(s, c, state).cached = s.cached /\ StateChanged(s, c, state).conn = s.conn
      /\ StateChanged(s, c, state).holds = s.holds /\ StateChanged(s, c, state).fstate = s.fstate
  BY <1>1, <1>2, <1>3 DEF State
<1> QED BY <1>4 DEF ch

\* The fields a change of a channel's uses leaves alone.
Framed(s, t) == t.cached = s.cached /\ t.holds = s.holds /\ t.fstate = s.fstate

\* Sound is of the channels' fields, but for state and uses.
LEMMA SoundStays ==
  ASSUME NEW s, NEW w, Sound(s, w), NEW t \in State, NEW v \in Counts,
         t.active = s.active, t.inuse = s.inuse,
         \A c \in Channels : Same(s, t, c), Counted(t, v)
  PROVE  Sound(t, v)
<1>1. Owned(t)
  BY DEF Sound, Owned, Same
<1>2. Listed(t)
  <2>1. \A i \in DOMAIN s.active : s.active[i] \in Channels
    BY StateFields DEF Sound
  <2> QED BY <2>1 DEF Sound, Listed, Same
<1>3. Named(t)
  BY DEF Sound, Named, Same
<1> QED BY <1>1, <1>2, <1>3 DEF Sound

LEMMA UsesSet ==
  ASSUME NEW s \in State, NEW c \in Channels, NEW n \in Nat
  PROVE  LET t == [s EXCEPT !.chan[c].uses = n]
         IN  /\ t \in State /\ Framed(s, t) /\ t.conn = s.conn
             /\ t.chan = [s.chan EXCEPT ![c].uses = n]
             /\ t.active = s.active /\ t.inuse = s.inuse
<1> DEFINE ch == [s.chan EXCEPT ![c].uses = n]
<1>1. ch \in [Channels -> Channel]
  <2>1. s.chan \in [Channels -> Channel]
    BY StateFields
  <2>2. [s.chan[c] EXCEPT !.uses = n] \in Channel
    BY <2>1 DEF Channel
  <2>3. ch = [s.chan EXCEPT ![c] = [s.chan[c] EXCEPT !.uses = n]]
    BY <2>1
  <2> HIDE DEF ch
  <2> QED BY <2>1, <2>2, <2>3
<1>2. [s EXCEPT !.chan[c].uses = n] = [s EXCEPT !.chan = ch]
  BY DEF State
<1> HIDE DEF ch
<1>3. [s EXCEPT !.chan = ch] \in State /\ [s EXCEPT !.chan = ch].chan = ch
  BY <1>1 DEF State
<1>4. /\ Framed(s, [s EXCEPT !.chan = ch])
      /\ [s EXCEPT !.chan = ch].conn = s.conn
      /\ [s EXCEPT !.chan = ch].active = s.active /\ [s EXCEPT !.chan = ch].inuse = s.inuse
  BY DEF State, Framed
<1> QED BY <1>2, <1>3, <1>4 DEF ch

\* A use more of a channel that lives.
LEMMA AddUseCounts ==
  ASSUME NEW s, NEW w, Sound(s, w), NEW c \in Channels, w[c] > 0
  PROVE  LET t == AddUse(s, c)
         IN  /\ Sound(t, [w EXCEPT ![c] = @ + 1]) /\ Framed(s, t) /\ t.conn = s.conn
             /\ \A d \in Channels : Same(s, t, d)
<1> DEFINE n == s.chan[c].uses + 1
           added == [s EXCEPT !.chan[c].uses = n]
           v == [w EXCEPT ![c] = w[c] + 1]
<1>1. s \in State /\ s.chan \in [Channels -> Channel] /\ w \in Counts
  BY StateFields DEF Sound
<1>2. n \in Nat /\ n = w[c] + 1 /\ s.chan[c].live
  BY <1>1, ChannelFields DEF Sound, Counted
<1> HIDE DEF n
<1>3. /\ added \in State /\ Framed(s, added) /\ added.conn = s.conn
      /\ added.chan = [s.chan EXCEPT ![c].uses = n]
      /\ added.active = s.active /\ added.inuse = s.inuse
  BY <1>1, <1>2, UsesSet
<1> HIDE DEF added
<1> DEFINE later == StateChanged(added, c, "ok")
<1>4. /\ later \in State /\ Framed(s, later) /\ later.conn = s.conn
      /\ later.chan = [added.chan EXCEPT ![c].state = "ok"]
      /\ later.active = s.active /\ later.inuse = s.inuse
  BY <1>3, StateChangedFields DEF States, Framed
<1>5. ASSUME NEW t, t = added \/ t = later
      PROVE  /\ Sound(t, v) /\ Framed(s, t) /\ t.conn = s.conn
             /\ \A d \in Channels : Same(s, t, d)
  <2>1. \A d \in Channels : Same(s, t, d) /\ t.chan[d].uses = IF d = c THEN n ELSE s.chan[d].uses
    BY <1>1, <1>3, <1>4, <1>5 DEF Same, Channel
  <2>2. \A d \in Channels : d # c => t.chan[d] = s.chan[d]
    BY <1>1, <1>3, <1>4, <1>5
  <2>3. v \in Counts /\ v[c] = w[c] + 1 /\ \A d \in Channels \ {c} : v[d] = w[d]
    BY <1>1, <1>2 DEF Counts
  <2>4. w[c] + 1 # 0 /\ w[c] + 1 > 0
    BY <1>1 DEF Counts
  <2>5. ASSUME NEW d \in Channels
        PROVE  t.chan[d].uses = v[d] /\ (v[d] = 0 => t.chan[d] = Dead) /\ (v[d] > 0 => t.chan[d].live)
    <3>1. CASE d = c
      BY <1>2, <2>1, <2>3, <2>4, <3>1 DEF Same
    <3>2. CASE d # c
      BY <2>2, <2>3, <3>2 DEF Sound, Counted
    <3> QED BY <3>1, <3>2
  <2>6. Counted(t, v)
    BY <2>5 DEF Counted
  <2> HIDE DEF v
  <2>7. t \in State /\ t.active = s.active /\ t.inuse = s.inuse
    BY <1>3, <1>4, <1>5
  <2>8. Sound(t, v)
    BY <2>1, <2>3, <2>6, <2>7, SoundStays
  <2> QED BY <1>3, <1>4, <1>5, <2>1, <2>8
<1>6. AddUse(s, c) = added \/ AddUse(s, c) = later
  BY DEF AddUse, added, later, n
<1> QED BY <1>5, <1>6

-----------------------------------------------------------------------------

LEMMA Joined ==
  ASSUME NEW S, NEW a \in Seq(S), NEW b \in Seq(S)
  PROVE  a \o b \in Seq(S) /\ Len(a \o b) = Len(a) + Len(b)
OBVIOUS

LEMMA Removed ==
  ASSUME NEW S, NEW list \in Seq(S), NEW i \in DOMAIN list
  PROVE  LET r == RemoveAt(list, i)
         IN  /\ r \in Seq(S) /\ Len(r) = Len(list) - 1
             /\ \A j \in DOMAIN r : r[j] = IF j < i THEN list[j] ELSE list[j + 1]
<1> DEFINE a == SubSeq(list, 1, i - 1)
           b == SubSeq(list, i + 1, Len(list))
<1>1. i \in Nat /\ i >= 1 /\ i <= Len(list) /\ Len(list) \in Nat /\ DOMAIN list = 1 .. Len(list)
  OBVIOUS
<1>2. a \in Seq(S) /\ Len(a) = i - 1 /\ \A j \in 1 .. i - 1 : a[j] = list[j]
  BY <1>1
<1>3. b \in Seq(S) /\ Len(b) = Len(list) - i /\ \A j \in 1 .. Len(list) - i : b[j] = list[i + j]
  BY <1>1
<1> HIDE DEF a, b
<1>4. RemoveAt(list, i) = a \o b
  BY DEF RemoveAt, a, b
<1>5. a \o b \in Seq(S) /\ Len(a \o b) = Len(list) - 1
  <2>1. a \o b \in Seq(S) /\ Len(a \o b) = Len(a) + Len(b)
    BY ONLY <1>2, <1>3, Joined
  <2>2. (i - 1) + (Len(list) - i) = Len(list) - 1
    BY <1>1
  <2> QED BY <1>2, <1>3, <2>1, <2>2
<1>6. ASSUME NEW j \in DOMAIN (a \o b)
      PROVE  (a \o b)[j] = IF j < i THEN list[j] ELSE list[j + 1]
  <2>1. j \in 1 .. Len(list) - 1
    BY <1>5
  <2>2. CASE j < i
    <3>1. j \in 1 .. i - 1 /\ (a \o b)[j] = a[j]
      BY <1>1, <1>2, <1>3, <2>1, <2>2
    <3> QED BY <1>2, <2>2, <3>1
  <2>3. CASE ~(j < i)
    <3>1. j - (i - 1) \in 1 .. Len(list) - i /\ i + (j - (i - 1)) = j + 1
      BY <1>1, <2>1, <2>3
    <3>2. (a \o b)[j] = b[j - (i - 1)]
      BY <1>1, <1>2, <1>3, <2>1, <2>3
    <3> QED BY <1>3, <2>3, <3>1, <3>2
  <2> QED BY <2>2, <2>3
<1> QED BY <1>4, <1>5, <1>6

\* removeChannel takes out the one entry and keeps the others, in their order.
LEMMA UnlistedEntries ==
  ASSUME NEW S, NEW list \in Seq(S), NEW c,
         \A i, j \in DOMAIN list : list[i] = list[j] => i = j
  PROVE  LET r == Unlisted(list, c)
         IN  /\ r \in Seq(S)
             /\ \A i, j \in DOMAIN r : r[i] = r[j] => i = j
             /\ \A i \in DOMAIN r : r[i] # c /\ \E j \in DOMAIN list : list[j] = r[i]
             /\ \A j \in DOMAIN list : list[j] # c => \E i \in DOMAIN r : r[i] = list[j]
<1> DEFINE at == {i \in DOMAIN list : list[i] = c}
<1>1. CASE at = {}
  <2>1. Unlisted(list, c) = list
    BY <1>1 DEF Unlisted
  <2> QED BY <1>1, <2>1
<1>2. CASE at # {}
  <2> DEFINE k == CHOOSE i \in at : TRUE
             r == RemoveAt(list, k)
  <2>1. k \in DOMAIN list /\ list[k] = c
    BY <1>2
  <2>2. Unlisted(list, c) = r
    BY <1>2 DEF Unlisted
  <2> HIDE DEF k
  <2>3. /\ r \in Seq(S) /\ Len(r) = Len(list) - 1
        /\ \A j \in DOMAIN r : r[j] = IF j < k THEN list[j] ELSE list[j + 1]
    BY <2>1, Removed
  <2> HIDE DEF r
  <2>4. /\ DOMAIN r = 1 .. Len(list) - 1 /\ DOMAIN list = 1 .. Len(list) /\ Len(list) \in Nat
        /\ k \in 1 .. Len(list)
    BY <2>1, <2>3
  <2>5. ASSUME NEW i \in DOMAIN r
        PROVE  \E j \in DOMAIN list : j # k /\ list[j] = r[i] /\ j = IF i < k THEN i ELSE i + 1
    BY <2>3, <2>4
  <2>6. \A i \in DOMAIN r : r[i] # c /\ \E j \in DOMAIN list : list[j] = r[i]
    BY <2>1, <2>5
  <2>7. ASSUME NEW i \in DOMAIN r, NEW j \in DOMAIN r, r[i] = r[j] PROVE i = j
    <3>1. (IF i < k THEN i ELSE i + 1) = (IF j < k THEN j ELSE j + 1)
      BY <2>5, <2>7
    <3> QED BY <2>4, <3>1
  <2>8. ASSUME NEW j \in DOMAIN list, list[j] # c PROVE \E i \in DOMAIN r : r[i] = list[j]
    <3>1. j # k
      BY <2>1, <2>8
    <3>2. CASE j < k
      <4>1. j \in DOMAIN r
        BY <2>4, <3>2
      <4> QED BY <2>3, <3>2, <4>1
    <3>3. CASE j > k
      <4>1. j - 1 \in DOMAIN r /\ ~(j - 1 < k) /\ (j - 1) + 1 = j
        BY <2>4, <3>3
      <4>2. r[j - 1] = list[(j - 1) + 1]
        BY <2>3, <4>1
      <4> QED BY <4>1, <4>2
    <3> QED BY <2>4, <3>1, <3>2, <3>3
  <2> QED BY <2>2, <2>3, <2>6, <2>7, <2>8
<1> QED BY <1>1, <1>2

\* Only c's state and uses differ.
Touched(s, t, c) ==
  /\ t \in State /\ t.active = s.active /\ t.inuse = s.inuse
  /\ \A d \in Channels : Same(s, t, d) /\ (d # c => t.chan[d] = s.chan[d])

\* The last use goes, and with it the channel: its entry, its use of the tuner, its listener.
LEMMA DestroyCounts ==
  ASSUME NEW s, NEW w, Sound(s, w), NEW c \in Channels, w[c] = 1,
         NEW t0, Touched(s, t0, c)
  PROVE  LET t == Destroy(t0, c)
         IN  /\ Sound(t, [w EXCEPT ![c] = 0]) /\ Framed(t0, t)
             /\ \A d \in Channels \ {c} : t.chan[d] = s.chan[d]
<1> DEFINE f == t0.chan[c].fe
           ch == [t0.chan EXCEPT ![c] = Dead]
           list == Unlisted(s.active, c)
           in == Allocated(s.inuse, f, -1)
           cn == IF t0.conn = c THEN None ELSE t0.conn
           v == [w EXCEPT ![c] = 0]
           t == Destroy(t0, c)
<1>0. /\ t0 \in State /\ t0.active = s.active /\ t0.inuse = s.inuse
      /\ \A d \in Channels : Same(s, t0, d)
      /\ \A d \in Channels \ {c} : t0.chan[d] = s.chan[d]
  BY DEF Touched
<1>1. /\ s \in State /\ s.chan \in [Channels -> Channel] /\ s.active \in Seq(Channels)
      /\ s.inuse \in [Frontends -> Nat] /\ w \in Counts /\ t0.chan \in [Channels -> Channel]
  BY <1>0, StateFields DEF Sound
<1>2. f \in Frontends \cup {None} /\ f = s.chan[c].fe
  BY <1>0, <1>1, ChannelFields DEF Same
<1>3. /\ ch \in [Channels -> Channel] /\ ch[c] = Dead
      /\ \A d \in Channels \ {c} : ch[d] = s.chan[d]
  BY <1>0, <1>1, DeadChannel
<1>4. /\ list \in Seq(Channels)
      /\ \A i, j \in DOMAIN list : list[i] = list[j] => i = j
      /\ \A i \in DOMAIN list : list[i] # c /\ \E j \in DOMAIN s.active : s.active[j] = list[i]
      /\ \A j \in DOMAIN s.active : s.active[j] # c => \E i \in DOMAIN list : list[i] = s.active[j]
  <2>1. \A i, j \in DOMAIN s.active : s.active[i] = s.active[j] => i = j
    BY DEF Sound, Listed
  <2> QED BY <1>1, <2>1, UnlistedEntries
<1>5. /\ in \in [Frontends -> Nat]
      /\ f \in Frontends => s.inuse[f] = 1 /\ in[f] = 0
      /\ \A g \in Frontends : g # f => in[g] = s.inuse[g]
  <2>1. f \in Frontends => s.inuse[f] = 1 /\ f # None
    BY <1>2, KindsAssumption DEF Sound, Owned
  <2> QED BY <1>1, <1>2, <2>1 DEF Allocated
<1>6. cn \in Channels \cup {None}
  BY <1>0, StateFields
<1>7. t = [t0 EXCEPT !.chan = ch, !.active = list, !.inuse = in, !.conn = cn]
  <2>1. t = [t0 EXCEPT !.chan[c] = Dead, !.active = Unlisted(t0.active, c),
                       !.inuse = Allocated(t0.inuse, f, -1),
                       !.conn = IF t0.conn = c THEN None ELSE t0.conn]
    BY <1>0 DEF Destroy
  <2> QED BY <1>0, <2>1 DEF State
<1>8. v \in Counts /\ v[c] = 0 /\ \A d \in Channels \ {c} : v[d] = w[d]
  BY <1>1 DEF Counts
<1> HIDE DEF f, ch, list, in, cn, v, t
<1>9. /\ t \in State /\ t.chan = ch /\ t.active = list /\ t.inuse = in /\ t.conn = cn /\ Framed(t0, t)
  BY <1>0, <1>3, <1>4, <1>5, <1>6, <1>7 DEF State, Framed
<1>10. Counted(t, v)
  <2>1. ASSUME NEW d \in Channels
        PROVE  ch[d].uses = v[d] /\ (v[d] = 0 => ch[d] = Dead) /\ (v[d] > 0 => ch[d].live)
    <3>1. CASE d = c
      BY <1>3, <1>8, <3>1, DeadChannel
    <3>2. CASE d # c
      BY <1>3, <1>8, <3>2 DEF Sound, Counted
    <3> QED BY <3>1, <3>2
  <2> QED BY <1>9, <2>1 DEF Counted
<1>11. Owned(t)
  <2>1. ASSUME NEW g \in Frontends
        PROVE  \/ in[g] = 0 /\ \A d \in Channels : ch[d].fe # g
               \/ in[g] = 1 /\ \E d \in Channels : ch[d].fe = g /\ \A e \in Channels \ {d} : ch[e].fe # g
    <3>0. g # None /\ ch[c].fe # g
      BY <1>3, DeadChannel, KindsAssumption
    <3>1. CASE g = f
      <4>1. PICK d \in Channels : s.chan[d].fe = g /\ \A e \in Channels \ {d} : s.chan[e].fe # g
        BY <1>2, <1>5, <3>1 DEF Sound, Owned
      <4>2. d = c
        BY <1>2, <3>1, <4>1
      <4> QED BY <1>3, <1>5, <3>0, <3>1, <4>1, <4>2
    <3>2. CASE g # f
      <4>1. in[g] = s.inuse[g] /\ \A d \in Channels : (ch[d].fe = g <=> s.chan[d].fe = g)
        BY <1>2, <1>3, <1>5, <3>0, <3>2
      <4> QED BY <4>1 DEF Sound, Owned
    <3> QED BY <3>1, <3>2
  <2> QED BY <1>9, <2>1 DEF Owned
<1>12. Listed(t)
  <2>1. \A i \in DOMAIN s.active : s.active[i] \in Channels
    BY <1>1
  <2>2. ASSUME NEW i \in DOMAIN list PROVE ch[list[i]].id # None
    BY <1>3, <1>4, <2>1, <2>2 DEF Sound, Listed
  <2>3. ASSUME NEW d \in Channels, ch[d].id # None PROVE \E i \in DOMAIN list : list[i] = d
    <3>1. d # c /\ s.chan[d].id # None
      BY <1>3, <2>3, DeadChannel
    <3> QED BY <1>4, <3>1 DEF Sound, Listed
  <2> QED BY <1>4, <1>9, <2>2, <2>3 DEF Listed
<1>13. Named(t)
  <2>1. \A d \in Channels : ch[d].id \in Ids \cup StreamIds => d # c
    BY <1>3, DeadChannel, KindsAssumption
  <2> QED BY <1>3, <1>9, <2>1 DEF Sound, Named
<1>14. Sound(t, v)
  BY <1>8, <1>9, <1>10, <1>11, <1>12, <1>13 DEF Sound
<1> QED BY <1>3, <1>9, <1>14 DEF t, v

\* A use less: the channel may go, or its state change; no other channel does.
LEMMA ReleaseUseCounts ==
  ASSUME NEW s, NEW w, Sound(s, w), NEW c \in Channels, w[c] > 0
  PROVE  LET t == ReleaseUse(s, c)
         IN  /\ Sound(t, [w EXCEPT ![c] = @ - 1]) /\ Framed(s, t)
             /\ \A d \in Channels : d # c \/ w[c] > 1 => Same(s, t, d)
<1> DEFINE n == s.chan[c].uses - 1
           less == [s EXCEPT !.chan[c].uses = n]
           v == [w EXCEPT ![c] = w[c] - 1]
<1>1. s \in State /\ s.chan \in [Channels -> Channel] /\ w \in Counts
  BY StateFields DEF Sound
<1>2. n \in Nat /\ n = w[c] - 1 /\ s.chan[c].live /\ w[c] \in Nat
  BY <1>1, ChannelFields DEF Sound, Counted, Counts
<1> HIDE DEF n
<1>3. /\ less \in State /\ Framed(s, less)
      /\ less.chan = [s.chan EXCEPT ![c].uses = n]
      /\ less.active = s.active /\ less.inuse = s.inuse
  BY <1>1, <1>2, UsesSet
<1>4. v \in Counts /\ v[c] = w[c] - 1 /\ \A d \in Channels \ {c} : v[d] = w[d]
  BY <1>1, <1>2 DEF Counts
<1>5. CASE n = 0
  <2> DEFINE t0 == StateChanged(less, c, "release")
             t == Destroy(t0, c)
  <2>1. ReleaseUse(s, c) = t
    BY <1>5 DEF ReleaseUse, n
  <2>2. w[c] = 1 /\ v = [w EXCEPT ![c] = 0]
    <3>1. w[c] = 1
      BY <1>2, <1>5
    <3> QED BY <3>1
  <2> HIDE DEF less
  <2>3. /\ t0 \in State /\ Framed(s, t0) /\ t0.active = s.active /\ t0.inuse = s.inuse
        /\ t0.chan = [less.chan EXCEPT ![c].state = "release"]
    BY <1>3, StateChangedFields DEF States, Framed
  <2> HIDE DEF t0, t, v
  <2>4. Touched(s, t0, c)
    BY <1>1, <1>3, <2>3 DEF Touched, Same, Channel
  <2>5. /\ Sound(t, v) /\ Framed(t0, t) /\ \A d \in Channels \ {c} : t.chan[d] = s.chan[d]
    <3>1. Sound(s, w) /\ c \in Channels /\ w[c] = 1 /\ Touched(s, t0, c)
      BY <2>2, <2>4
    <3>2. /\ Sound(Destroy(t0, c), [w EXCEPT ![c] = 0]) /\ Framed(t0, Destroy(t0, c))
          /\ \A d \in Channels \ {c} : Destroy(t0, c).chan[d] = s.chan[d]
      BY ONLY <3>1, DestroyCounts
    <3> QED BY ONLY <2>2, <3>2 DEF t
  <2>6. Framed(s, t) /\ \A d \in Channels : d # c \/ w[c] > 1 => Same(s, t, d)
    BY <2>2, <2>3, <2>5 DEF Framed, Same
  <2> QED BY <2>1, <2>5, <2>6 DEF v
<1>6. CASE n # 0
  <2> DEFINE later == StateChanged(less, c, "last_instance")
  <2>1. ReleaseUse(s, c) = less \/ ReleaseUse(s, c) = later
    BY <1>6 DEF ReleaseUse, n
  <2> HIDE DEF less
  <2>2. /\ later \in State /\ Framed(s, later) /\ later.active = s.active /\ later.inuse = s.inuse
        /\ later.chan = [less.chan EXCEPT ![c].state = "last_instance"]
    BY <1>3, StateChangedFields DEF States, Framed
  <2> HIDE DEF later
  <2>3. ASSUME NEW t, t = less \/ t = later
        PROVE  Sound(t, v) /\ Framed(s, t) /\ \A d \in Channels : Same(s, t, d)
    <3>1. \A d \in Channels : Same(s, t, d) /\ t.chan[d].uses = IF d = c THEN n ELSE s.chan[d].uses
      BY <1>1, <1>3, <2>2, <2>3 DEF Same, Channel
    <3>2. \A d \in Channels : d # c => t.chan[d] = s.chan[d]
      BY <1>1, <1>3, <2>2, <2>3
    <3>3. ASSUME NEW d \in Channels
          PROVE  t.chan[d].uses = v[d] /\ (v[d] = 0 => t.chan[d] = Dead) /\ (v[d] > 0 => t.chan[d].live)
      <4>1. CASE d = c
        BY <1>2, <1>4, <1>6, <3>1, <4>1 DEF Same
      <4>2. CASE d # c
        BY <1>4, <3>2, <4>2 DEF Sound, Counted
      <4> QED BY <4>1, <4>2
    <3> HIDE DEF v
    <3>4. Counted(t, v)
      BY <3>3 DEF Counted
    <3>5. t \in State /\ t.active = s.active /\ t.inuse = s.inuse /\ Framed(s, t)
      BY <1>3, <2>2, <2>3
    <3> QED BY <1>4, <3>1, <3>4, <3>5, SoundStays
  <2> QED BY <2>1, <2>3
<1> QED BY <1>5, <1>6

\* Nothing but references to channels changes.
LEMMA SoundMoved ==
  ASSUME NEW s, NEW w, Sound(s, w), NEW t \in State,
         t.chan = s.chan, t.active = s.active, t.inuse = s.inuse
  PROVE  Sound(t, w) /\ \A d \in Channels : Same(s, t, d)
<1>1. \A d \in Channels : Same(s, t, d)
  BY DEF Same
<1>2. w \in Counts /\ Counted(t, w)
  BY DEF Sound, Counted
<1> QED BY <1>1, <1>2, SoundStays

\* The uses without the cache's.
Uncached(s, w) == IF s.cached = None THEN w ELSE [w EXCEPT ![s.cached] = @ - 1]

LEMMA DropCacheCounts ==
  ASSUME NEW s, NEW w, Sound(s, w), s.cached # None => w[s.cached] > 0
  PROVE  LET t == DropCache(s)
             v == Uncached(s, w)
         IN  /\ Sound(t, v)
             /\ t.cached = None /\ t.holds = s.holds /\ t.fstate = s.fstate
             /\ \A d \in Channels : v[d] > 0 => Same(s, t, d)
<1>1. s \in State /\ w \in Counts
  BY DEF Sound
<1>2. CASE s.cached = None
  <2>1. DropCache(s) = s /\ Uncached(s, w) = w
    BY <1>2 DEF DropCache, Uncached
  <2> QED BY <1>2, <2>1 DEF Same
<1>3. CASE s.cached # None
  <2> DEFINE c == s.cached
             a == [s EXCEPT !.conn = None]
             b == ReleaseUse(a, c)
             t == [b EXCEPT !.cached = None, !.timer = FALSE]
             v == Uncached(s, w)
  <2>1. c \in Channels
    BY <1>1, <1>3, StateFields
  <2>2. /\ a \in State /\ a.chan = s.chan /\ a.active = s.active /\ a.inuse = s.inuse
        /\ Framed(s, a)
    BY <1>1 DEF State, Framed
  <2>3. DropCache(s) = t
    BY <1>3 DEF DropCache
  <2>4. v = [w EXCEPT ![c] = @ - 1]
    BY <1>3 DEF Uncached
  <2> HIDE DEF a, c, v
  <2>5. Sound(a, w) /\ \A d \in Channels : Same(s, a, d)
    BY <2>2, SoundMoved
  <2>6. w[c] > 0
    BY <1>3 DEF c
  <2>7. /\ Sound(b, v) /\ Framed(a, b)
        /\ \A d \in Channels : d # c \/ w[c] > 1 => Same(a, b, d)
    BY <2>1, <2>4, <2>5, <2>6, ReleaseUseCounts
  <2> HIDE DEF b
  <2>8. b \in State
    BY <2>7 DEF Sound
  <2>9. /\ t \in State /\ t.chan = b.chan /\ t.active = b.active /\ t.inuse = b.inuse
        /\ t.cached = None /\ t.holds = b.holds /\ t.fstate = b.fstate
    BY <2>8 DEF State
  <2> HIDE DEF t
  <2>10. Sound(t, v) /\ \A d \in Channels : Same(b, t, d)
    BY <2>7, <2>9, SoundMoved
  <2>11. t.holds = s.holds /\ t.fstate = s.fstate
    BY <2>2, <2>7, <2>9 DEF Framed
  <2>12. ASSUME NEW d \in Channels, v[d] > 0 PROVE Same(s, t, d)
    <3>1. d = c => w[c] > 1
      BY <1>1, <2>1, <2>4, <2>12 DEF Counts
    <3> QED BY <2>5, <2>7, <2>10, <3>1 DEF Same
  <2> QED BY <2>3, <2>9, <2>10, <2>11, <2>12 DEF v
<1> QED BY <1>2, <1>3

Put(ho, u, c) == [ho EXCEPT ![u] = c]

\* What allows a channel to be made for id on f.
Allowed(s, id, f) ==
  /\ id \in Ids \cup StreamIds \cup {None} /\ f \in Frontends \cup {None}
  /\ f # None => s.inuse[f] = 0
  /\ id \in Ids => <<id, f>> \in Tunable /\ \A c \in Channels : s.chan[c].id # id
  /\ id \in StreamIds => f = None

\* A new channel, with its first use.
LEMMA CreateCounts ==
  ASSUME NEW s, NEW w, Sound(s, w), NEW c \in Channels, w[c] = 0, NEW u \in Users,
         NEW id, NEW f, Allowed(s, id, f), NEW state \in States
  PROVE  LET t == Hold(Create(s, c, id, f, state), u, c)
         IN  /\ Sound(t, [w EXCEPT ![c] = 1])
             /\ t.cached = s.cached /\ t.holds = Put(s.holds, u, c) /\ t.fstate = s.fstate
             /\ t.chan[c].id = id /\ t.chan[c].fe = f
             /\ \A d \in Channels \ {c} : Same(s, t, d)
<1> DEFINE new == [live |-> TRUE, id |-> id, fe |-> f, state |-> state, uses |-> 0]
           ch == [s.chan EXCEPT ![c] = new]
           list == IF id = None THEN s.active ELSE Append(s.active, c)
           in == Allocated(s.inuse, f, 1)
           ho == [s.holds EXCEPT ![u] = c]
           a == [s EXCEPT !.chan = ch, !.active = list, !.inuse = in]
           b == [a EXCEPT !.holds = ho]
           t == [b EXCEPT !.chan[c].uses = 1]
           v == [w EXCEPT ![c] = 1]
<1>1. /\ s \in State /\ s.chan \in [Channels -> Channel] /\ s.active \in Seq(Channels)
      /\ s.inuse \in [Frontends -> Nat] /\ w \in Counts /\ s.holds \in [Users -> Channels \cup {None}]
  BY StateFields DEF Sound
<1>2. /\ new \in Channel /\ new.live /\ new.id = id /\ new.fe = f /\ new.uses = 0
  BY DEF Allowed, Channel
<1>3. /\ ch \in [Channels -> Channel] /\ ch[c] = new
      /\ \A d \in Channels \ {c} : ch[d] = s.chan[d]
  BY <1>1, <1>2
<1>4. s.chan[c] = Dead /\ s.chan[c].id = None /\ s.chan[c].fe = None
  BY DeadChannel DEF Sound, Counted
<1>5. /\ list \in Seq(Channels)
      /\ id = None => list = s.active
      /\ id # None => /\ Len(list) = Len(s.active) + 1 /\ list[Len(s.active) + 1] = c
                      /\ \A i \in DOMAIN s.active : list[i] = s.active[i]
      /\ Len(s.active) \in Nat /\ DOMAIN s.active = 1 .. Len(s.active) /\ DOMAIN list = 1 .. Len(list)
  BY <1>1
<1>6. /\ in \in [Frontends -> Nat]
      /\ f # None => in[f] = 1
      /\ \A g \in Frontends : g # f => in[g] = s.inuse[g]
  BY <1>1, KindsAssumption DEF Allocated, Allowed
<1>7. ho \in [Users -> Channels \cup {None}]
  BY <1>1
<1>8. v \in Counts /\ v[c] = 1 /\ \A d \in Channels \ {c} : v[d] = w[d]
  BY <1>1 DEF Counts
<1>9. Hold(Create(s, c, id, f, state), u, c) = t
  <2>1. Create(s, c, id, f, state) = a
    BY DEF Create
  <2>2. b.chan = ch
    BY <1>1 DEF State
  <2>3. AddUse(b, c) = [b EXCEPT !.chan[c].uses = @ + 1]
    BY <1>2, <1>3, <2>2 DEF AddUse
  <2>4. b.chan[c].uses + 1 = 1
    BY <1>2, <1>3, <2>2
  <2>6. a.holds = s.holds
    BY <1>1 DEF State
  <2> HIDE DEF a
  <2>7. [a EXCEPT !.holds[u] = c] = b
    BY <2>6
  <2> HIDE DEF b
  <2>5. [b EXCEPT !.chan[c].uses = @ + 1] = t
    BY <2>4
  <2> QED BY <2>1, <2>3, <2>5, <2>7 DEF Hold
<1> HIDE DEF new, ch, list, in, ho, v
<1>10. /\ b \in State /\ b.chan = ch /\ b.active = list /\ b.inuse = in
       /\ b.cached = s.cached /\ b.fstate = s.fstate /\ b.holds = ho
  <2>1. s \in State /\ ch \in [Channels -> Channel] /\ list \in Seq(Channels)
        /\ in \in [Frontends -> Nat]
    BY <1>1, <1>3, <1>5, <1>6
  <2>2. /\ a \in State /\ a.chan = ch /\ a.active = list /\ a.inuse = in
        /\ a.cached = s.cached /\ a.fstate = s.fstate
    BY ONLY <2>1 DEF State
  <2> HIDE DEF a
  <2> QED BY ONLY <1>7, <2>2 DEF State
<1> HIDE DEF b
<1>11. /\ t \in State /\ Framed(b, t) /\ t.chan = [ch EXCEPT ![c].uses = 1]
       /\ t.active = list /\ t.inuse = in
  <2>1. b \in State
    BY <1>10
  <2>2. \A n \in Nat : LET r == [b EXCEPT !.chan[c].uses = n]
                      IN  /\ r \in State /\ Framed(b, r) /\ r.chan = [b.chan EXCEPT ![c].uses = n]
                          /\ r.active = b.active /\ r.inuse = b.inuse
    BY ONLY <2>1, c \in Channels, UsesSet
  <2>3. /\ t \in State /\ Framed(b, t) /\ t.chan = [b.chan EXCEPT ![c].uses = 1]
        /\ t.active = b.active /\ t.inuse = b.inuse
    BY ONLY <2>2, 1 \in Nat
  <2> HIDE DEF t
  <2> QED BY <1>10, <2>3
<1> HIDE DEF t
<1>12. /\ t.cached = s.cached /\ t.fstate = s.fstate /\ t.holds = ho
  BY <1>10, <1>11 DEF Framed
<1>13. /\ t.chan[c].live /\ t.chan[c].id = id /\ t.chan[c].fe = f /\ t.chan[c].uses = 1
       /\ \A d \in Channels \ {c} : t.chan[d] = s.chan[d]
  BY <1>2, <1>3, <1>11 DEF Channel
<1>14. Counted(t, v)
  <2>1. ASSUME NEW d \in Channels
        PROVE  t.chan[d].uses = v[d] /\ (v[d] = 0 => t.chan[d] = Dead) /\ (v[d] > 0 => t.chan[d].live)
    <3>1. CASE d = c
      BY <1>8, <1>13, <3>1
    <3>2. CASE d # c
      BY <1>8, <1>13, <3>2 DEF Sound, Counted
    <3> QED BY <3>1, <3>2
  <2> QED BY <2>1 DEF Counted
<1>15. Owned(t)
  <2>1. ASSUME NEW g \in Frontends
        PROVE  \/ in[g] = 0 /\ \A d \in Channels : t.chan[d].fe # g
               \/ in[g] = 1 /\ \E d \in Channels : t.chan[d].fe = g /\ \A e \in Channels \ {d} : t.chan[e].fe # g
    <3>0. g # None
      BY KindsAssumption
    <3>1. CASE g = f
      <4>1. s.inuse[g] = 0 /\ \A d \in Channels : s.chan[d].fe # g
        BY <3>0, <3>1 DEF Sound, Owned, Allowed
      <4> QED BY <1>6, <1>13, <3>0, <3>1, <4>1
    <3>2. CASE g # f
      <4>1. in[g] = s.inuse[g] /\ \A d \in Channels : (t.chan[d].fe = g <=> s.chan[d].fe = g)
        BY <1>4, <1>6, <1>13, <3>0, <3>2
      <4> QED BY <4>1 DEF Sound, Owned
    <3> QED BY <3>1, <3>2
  <2> QED BY <1>11, <2>1 DEF Owned
<1>16. Listed(t)
  <2>0. \A i \in DOMAIN s.active : s.active[i] \in Channels /\ s.active[i] # c
    BY <1>1, <1>4 DEF Sound, Listed
  <2>1. CASE id = None
    BY <1>5, <1>11, <1>13, <2>0, <2>1 DEF Sound, Listed
  <2>2. CASE id # None
    <3> DEFINE n == Len(s.active)
               old == s.active
    <3>0. /\ n \in Nat /\ DOMAIN old = 1 .. n /\ DOMAIN list = 1 .. n + 1
          /\ list[n + 1] = c /\ \A i \in 1 .. n : list[i] = old[i]
      BY ONLY <1>5, <2>2
    <3>1. /\ \A i \in 1 .. n : old[i] \in Channels /\ old[i] # c /\ s.chan[old[i]].id # None
          /\ \A i, j \in 1 .. n : old[i] = old[j] => i = j
          /\ \A d \in Channels : s.chan[d].id # None => \E i \in 1 .. n : old[i] = d
      BY <2>0, <3>0 DEF Sound, Listed
    <3> HIDE DEF n, old
    <3>2. \A i \in 1 .. n + 1 : i = n + 1 \/ i \in 1 .. n
      BY <3>0
    <3>3. n + 1 \in 1 .. n + 1 /\ \A i \in 1 .. n : i \in 1 .. n + 1
      BY <3>0
    <3>4. ASSUME NEW i \in 1 .. n + 1, NEW j \in 1 .. n + 1, list[i] = list[j] PROVE i = j
      BY <3>0, <3>1, <3>2, <3>4
    <3>5. ASSUME NEW i \in 1 .. n + 1 PROVE t.chan[list[i]].id # None
      <4>1. CASE i = n + 1
        BY <1>13, <2>2, <3>0, <4>1
      <4>2. CASE i \in 1 .. n
        BY <1>13, <3>0, <3>1, <4>2
      <4> QED BY <3>2, <4>1, <4>2
    <3>6. ASSUME NEW d \in Channels, t.chan[d].id # None PROVE \E i \in 1 .. n + 1 : list[i] = d
      <4>1. CASE d = c
        BY <3>0, <3>3, <4>1
      <4>2. CASE d # c
        <5>1. PICK i \in 1 .. n : old[i] = d
          BY <1>13, <3>1, <3>6, <4>2
        <5> QED BY <3>0, <3>3, <5>1
      <4> QED BY <4>1, <4>2
    <3> QED BY <1>11, <3>0, <3>4, <3>5, <3>6 DEF Listed
  <2> QED BY <2>1, <2>2
<1>17. Named(t)
  <2>1. \A d \in Channels : t.chan[d].id \in Ids => <<t.chan[d].id, t.chan[d].fe>> \in Tunable
    BY <1>13 DEF Sound, Named, Allowed
  <2>2. \A d \in Channels : t.chan[d].id \in StreamIds => t.chan[d].fe = None
    BY <1>13 DEF Sound, Named, Allowed
  <2>3. ASSUME NEW d \in Channels, NEW e \in Channels, t.chan[d].id \in Ids, t.chan[e].id = t.chan[d].id
        PROVE  d = e
    BY <1>13, <2>3 DEF Sound, Named, Allowed
  <2> QED BY <2>1, <2>2, <2>3 DEF Named
<1>18. Sound(t, v)
  BY <1>8, <1>11, <1>14, <1>15, <1>16, <1>17 DEF Sound
<1>19. \A d \in Channels \ {c} : Same(s, t, d)
  BY <1>13 DEF Same
<1> QED BY <1>9, <1>12, <1>13, <1>18, <1>19 DEF v, ho, Put

-----------------------------------------------------------------------------
(* What the users hold *)

Holders(U, ho, c) == {u \in U : ho[u] = c}

\* The uses of every channel, when users hold ho and the manager ca.
Owed(ho, ca) ==
  [c \in Channels |-> 2 * Cardinality(Holders(Handlers, ho, c)) + Cardinality(Holders(RawUsers, ho, c))
                        + (IF ca = c THEN 1 ELSE 0)]

HoldMap == [Users -> Channels \cup {None}]

LEMMA Finite ==
  ASSUME NEW U, U \in {Handlers, RawUsers}, NEW ho, NEW c
  PROVE  IsFiniteSet(Holders(U, ho, c)) /\ Cardinality(Holders(U, ho, c)) \in Nat
<1>1. IsFiniteSet(U) /\ Holders(U, ho, c) \subseteq U
  BY ChannelsAssumption DEF Holders
<1>2. IsFiniteSet(Holders(U, ho, c))
  BY <1>1, FS_Subset
<1> QED BY <1>2, FS_CardinalityType

LEMMA HolderAdded ==
  ASSUME NEW U, U \in {Handlers, RawUsers}, NEW ho \in HoldMap, NEW u \in Users, ho[u] = None,
         NEW c \in Channels, NEW d \in Channels
  PROVE  Cardinality(Holders(U, [ho EXCEPT ![u] = c], d))
           = Cardinality(Holders(U, ho, d)) + (IF u \in U /\ d = c THEN 1 ELSE 0)
<1> DEFINE h2 == [ho EXCEPT ![u] = c]
<1>1. U \subseteq Users /\ d # None
  BY KindsAssumption DEF Users
<1>2. h2[u] = c /\ \A v \in Users \ {u} : h2[v] = ho[v]
  BY DEF HoldMap
<1> HIDE DEF h2
<1>3. CASE u \in U /\ d = c
  <2>1. Holders(U, h2, d) = Holders(U, ho, d) \cup {u} /\ u \notin Holders(U, ho, d)
    BY <1>1, <1>2, <1>3 DEF Holders
  <2>2. Cardinality(Holders(U, ho, d) \cup {u}) = Cardinality(Holders(U, ho, d)) + 1
    BY <2>1, Finite, FS_AddElement
  <2> QED BY <1>3, <2>1, <2>2 DEF h2
<1>4. CASE ~(u \in U /\ d = c)
  <2>1. Holders(U, h2, d) = Holders(U, ho, d)
    BY <1>1, <1>2, <1>4 DEF Holders
  <2> QED BY <1>4, <2>1, Finite DEF h2
<1> QED BY <1>3, <1>4

LEMMA OwedType ==
  ASSUME NEW ho, NEW ca
  PROVE  Owed(ho, ca) \in Counts
<1>1. ASSUME NEW c \in Channels
      PROVE  2 * Cardinality(Holders(Handlers, ho, c)) + Cardinality(Holders(RawUsers, ho, c))
                        + (IF ca = c THEN 1 ELSE 0) \in Nat
  <2>1. Cardinality(Holders(Handlers, ho, c)) \in Nat /\ Cardinality(Holders(RawUsers, ho, c)) \in Nat
    BY Finite
  <2> QED BY <2>1
<1> QED BY <1>1 DEF Owed, Counts

Worth(u) == IF u \in Handlers THEN 2 ELSE 1

\* A handler takes two uses, a raw user one, the cache one.
LEMMA OwedTaken ==
  ASSUME NEW ho \in HoldMap, NEW ca, NEW u \in Users, ho[u] = None, NEW c \in Channels,
         NEW h2, h2 = Put(ho, u, c)
  PROVE  Owed(h2, ca) = [Owed(ho, ca) EXCEPT ![c] = @ + Worth(u)]
<1> DEFINE k == Worth(u)
<1>0. k = IF u \in Handlers THEN 2 ELSE 1
  BY DEF Worth
<1>1. ASSUME NEW d \in Channels
      PROVE  Owed(h2, ca)[d] = IF d = c THEN Owed(ho, ca)[d] + k ELSE Owed(ho, ca)[d]
  <2> DEFINE a == Cardinality(Holders(Handlers, ho, d))
             b == Cardinality(Holders(RawUsers, ho, d))
             e == IF ca = d THEN 1 ELSE 0
  <2>1. a \in Nat /\ b \in Nat /\ e \in Nat
    BY Finite
  <2>2. /\ Cardinality(Holders(Handlers, h2, d)) = a + (IF u \in Handlers /\ d = c THEN 1 ELSE 0)
        /\ Cardinality(Holders(RawUsers, h2, d)) = b + (IF u \in RawUsers /\ d = c THEN 1 ELSE 0)
    BY HolderAdded DEF Put
  <2>3. u \in Handlers <=> u \notin RawUsers
    BY KindsAssumption DEF Users
  <2>4. /\ Owed(ho, ca)[d] = 2 * a + b + e
        /\ Owed(h2, ca)[d] = 2 * Cardinality(Holders(Handlers, h2, d))
                               + Cardinality(Holders(RawUsers, h2, d)) + e
    BY DEF Owed
  <2> HIDE DEF a, b, e, k
  <2> QED BY <1>0, <2>1, <2>2, <2>3, <2>4
<1>2. Owed(h2, ca) \in Counts /\ Owed(ho, ca) \in Counts
  BY OwedType
<1> HIDE DEF k
<1>3. Owed(h2, ca) = [Owed(ho, ca) EXCEPT ![c] = @ + k]
  BY <1>1, <1>2 DEF Counts
<1> QED BY <1>3 DEF k

LEMMA OwedGiven ==
  ASSUME NEW ho \in HoldMap, NEW ca, NEW u \in Users, NEW c \in Channels, ho[u] = c,
         NEW h0, h0 = Put(ho, u, None)
  PROVE  Owed(h0, ca) = [Owed(ho, ca) EXCEPT ![c] = @ - Worth(u)] /\ Owed(ho, ca)[c] >= Worth(u)
<1> DEFINE k == Worth(u)
<1>1. h0 \in HoldMap /\ h0[u] = None /\ ho = Put(h0, u, c)
  BY DEF HoldMap, Put
<1>2. Owed(ho, ca) = [Owed(h0, ca) EXCEPT ![c] = @ + k]
  BY <1>1, OwedTaken
<1>3. Owed(ho, ca) \in Counts /\ Owed(h0, ca) \in Counts /\ k \in Nat
  BY OwedType DEF Worth
<1>4. Owed(h0, ca) = [Owed(ho, ca) EXCEPT ![c] = @ - k] /\ Owed(ho, ca)[c] >= k
  <2> DEFINE A == Owed(h0, ca)
             B == Owed(ho, ca)
  <2>1. A \in [Channels -> Nat] /\ B \in [Channels -> Nat] /\ k \in Nat /\ B = [A EXCEPT ![c] = @ + k]
    BY <1>2, <1>3 DEF Counts
  <2> HIDE DEF A, B
  <2>2. \A d \in Channels : B[d] = IF d = c THEN A[d] + k ELSE A[d]
    BY <2>1
  <2>3. B[c] - k = A[c] /\ B[c] >= k
    BY <2>1, <2>2
  <2>4. A = [B EXCEPT ![c] = B[c] - k]
    BY <2>1, <2>2, <2>3
  <2> QED BY <2>3, <2>4 DEF A, B
<1> QED BY <1>4

LEMMA OwedCached ==
  ASSUME NEW ho, NEW c \in Channels
  PROVE  /\ Owed(ho, c) = [Owed(ho, None) EXCEPT ![c] = @ + 1]
         /\ Owed(ho, None) = [Owed(ho, c) EXCEPT ![c] = @ - 1]
         /\ Owed(ho, c)[c] > 0
<1>1. Owed(ho, c) \in Counts /\ Owed(ho, None) \in Counts
  BY OwedType
<1>2. ASSUME NEW d \in Channels
      PROVE  Owed(ho, c)[d] = IF d = c THEN Owed(ho, None)[d] + 1 ELSE Owed(ho, None)[d]
  <2>1. d # None
    BY KindsAssumption
  <2>2. Cardinality(Holders(Handlers, ho, d)) \in Nat /\ Cardinality(Holders(RawUsers, ho, d)) \in Nat
    BY Finite
  <2> QED BY <2>1, <2>2 DEF Owed
<1> QED BY <1>1, <1>2 DEF Counts

\* A channel somebody holds has uses, and one with uses somebody holds.
LEMMA OwedSomebody ==
  ASSUME NEW ho, NEW ca, NEW c \in Channels
  PROVE  /\ Owed(ho, ca)[c] > 0 <=> ca = c \/ \E u \in Users : ho[u] = c
         /\ Owed(ho, ca)[c] = 0 <=> ca # c /\ \A u \in Users : ho[u] # c
<1> DEFINE a == Cardinality(Holders(Handlers, ho, c))
           b == Cardinality(Holders(RawUsers, ho, c))
<1>1. a \in Nat /\ b \in Nat
  BY Finite
<1>2. /\ a = 0 <=> Holders(Handlers, ho, c) = {}
      /\ b = 0 <=> Holders(RawUsers, ho, c) = {}
  BY Finite, FS_EmptySet
<1>3. Owed(ho, ca)[c] = 2 * a + b + (IF ca = c THEN 1 ELSE 0)
  BY DEF Owed
<1> HIDE DEF a, b
<1>4. Owed(ho, ca)[c] = 0 <=> a = 0 /\ b = 0 /\ ca # c
  BY <1>1, <1>3
<1>5. Owed(ho, ca)[c] > 0 <=> ~(Owed(ho, ca)[c] = 0)
  BY OwedType DEF Counts
<1> QED BY <1>2, <1>4, <1>5 DEF Holders, Users

\* There is a channel object for whoever asks: the others and the cache hold too few.
LEMMA OneIsUnborn ==
  ASSUME NEW ho \in HoldMap, NEW ca, NEW u \in Users, ho[u] = None
  PROVE  \E c \in Channels : Owed(ho, ca)[c] = 0
<1> SUFFICES ASSUME \A c \in Channels : ca = c \/ \E v \in Users : ho[v] = c
             PROVE  FALSE
  BY OwedSomebody
<1> DEFINE of == [v \in Users |-> IF v = u THEN ca ELSE ho[v]]
           T == {of[v] : v \in Users}
<1>1. \A c \in Channels : c # None /\ c \in T
  <2>1. ASSUME NEW c \in Channels PROVE c # None /\ \E v \in Users : of[v] = c
    <3>1. c # None
      BY KindsAssumption
    <3>2. CASE ca = c
      BY <3>1, <3>2
    <3>3. CASE \E v \in Users : ho[v] = c
      BY <3>1, <3>3
    <3> QED BY <3>1, <3>2, <3>3
  <2> QED BY <2>1
<1>2. /\ IsFiniteSet(Users)
      /\ Cardinality(Users) = Cardinality(Handlers) + Cardinality(RawUsers)
  <2>1. Handlers \cap RawUsers = {} /\ Cardinality({}) = 0
    BY KindsAssumption, FS_EmptySet
  <2>2. /\ IsFiniteSet(Users)
        /\ Cardinality(Users) = Cardinality(Handlers) + Cardinality(RawUsers) - Cardinality(Handlers \cap RawUsers)
    BY ChannelsAssumption, FS_Union DEF Users
  <2>3. Cardinality(Handlers) \in Nat /\ Cardinality(RawUsers) \in Nat
    BY ChannelsAssumption, FS_CardinalityType
  <2>4. Cardinality(Handlers \cap RawUsers) = 0
    BY <2>1
  <2> HIDE DEF of, T
  <2> QED BY ONLY <2>2, <2>3, <2>4
<1>3. of \in Surjection(Users, T)
  BY DEF Surjection
<1>4. IsFiniteSet(T) /\ Cardinality(T) <= Cardinality(Users)
  BY <1>2, <1>3, FS_Surjection
<1> HIDE DEF of, T
<1>5. Cardinality(Channels) <= Cardinality(T)
  <2>1. Channels \in SUBSET T
    BY <1>1
  <2> QED BY <1>4, <2>1, FS_Subset
<1>6. /\ Cardinality(Channels) \in Nat /\ Cardinality(T) \in Nat /\ Cardinality(Users) \in Nat
      /\ Cardinality(Handlers) \in Nat /\ Cardinality(RawUsers) \in Nat
  BY <1>2, <1>4, ChannelsAssumption, FS_CardinalityType
<1> QED BY <1>2, <1>4, <1>5, <1>6, ChannelsAssumption

-----------------------------------------------------------------------------
(* The inductive invariant *)

\* What a user holds: a raw user a tuner of its own, a handler one only for a transponder.
Proper(s, u) ==
  s.holds[u] # None =>
    IF u \in Handlers THEN s.chan[s.holds[u]].id \notin Ids => s.chan[s.holds[u]].fe = None
    ELSE s.chan[s.holds[u]].id = None /\ s.chan[s.holds[u]].fe \in Frontends

MInv(s) ==
  /\ Sound(s, Owed(s.holds, s.cached))
  /\ s.cached # None => s.chan[s.cached].id \in Ids
  /\ \A u \in Users : Proper(s, u)
  /\ \A q, r \in RawUsers : s.holds[q] # None /\ s.holds[q] = s.holds[r] => q = r

LEMMA Becomes ==
  ASSUME NEW s \in State, Become(s)
  PROVE  Manager' = s
<1>1. Manager' = [chan |-> s.chan, active |-> s.active, inuse |-> s.inuse, cached |-> s.cached,
                  conn |-> s.conn, timer |-> s.timer, holds |-> s.holds, fstate |-> s.fstate]
  BY DEF Become, Manager
<1>2. s = [chan |-> s.chan, active |-> s.active, inuse |-> s.inuse, cached |-> s.cached,
           conn |-> s.conn, timer |-> s.timer, holds |-> s.holds, fstate |-> s.fstate]
  BY DEF State
<1> QED BY <1>1, <1>2

\* An action of user u keeps the invariant when its uses are counted and the others' channels
\* stay what they were.
LEMMA Settled ==
  ASSUME NEW s, MInv(s), NEW t, NEW u \in Users,
         Sound(t, Owed(t.holds, t.cached)),
         t.cached # None => t.chan[t.cached].id \in Ids,
         \A v \in Users \ {u} : /\ t.holds[v] = s.holds[v]
                                /\ s.holds[v] # None => Same(s, t, s.holds[v]),
         Proper(t, u),
         u \in RawUsers => \A v \in RawUsers \ {u} : t.holds[u] # None => t.holds[v] # t.holds[u]
  PROVE  MInv(t)
<1>1. \A v \in Users \ {u} : Proper(t, v)
  BY DEF MInv, Proper, Same
<1>2. ASSUME NEW q \in RawUsers, NEW r \in RawUsers, t.holds[q] # None, t.holds[q] = t.holds[r]
      PROVE  q = r
  <2>1. q \in Users /\ r \in Users
    BY DEF Users
  <2> QED BY <1>2, <2>1 DEF MInv
<1> QED BY <1>1, <1>2 DEF MInv

\* A user's first use of a channel that lives.
LEMMA HoldCounts ==
  ASSUME NEW s, NEW w, Sound(s, w), NEW c \in Channels, w[c] > 0, NEW u \in Users
  PROVE  LET t == Hold(s, u, c)
         IN  /\ Sound(t, [w EXCEPT ![c] = @ + 1])
             /\ t.cached = s.cached /\ t.holds = Put(s.holds, u, c) /\ t.fstate = s.fstate
             /\ \A d \in Channels : Same(s, t, d)
<1> DEFINE a == [s EXCEPT !.holds[u] = c]
<1>1. s \in State
  BY DEF Sound
<1>2. /\ a \in State /\ a.chan = s.chan /\ a.active = s.active /\ a.inuse = s.inuse
      /\ a.cached = s.cached /\ a.holds = Put(s.holds, u, c) /\ a.fstate = s.fstate
  <2> DEFINE ho == [s.holds EXCEPT ![u] = c]
  <2>1. ho \in [Users -> Channels \cup {None}] /\ ho = Put(s.holds, u, c)
    BY <1>1, StateFields DEF Put
  <2>2. a = [s EXCEPT !.holds = ho]
    BY <1>1 DEF State
  <2> HIDE DEF ho
  <2> QED BY <1>1, <2>1, <2>2 DEF State
<1>3. Hold(s, u, c) = AddUse(a, c)
  BY DEF Hold
<1> HIDE DEF a
<1>4. Sound(a, w) /\ \A d \in Channels : Same(s, a, d)
  BY <1>2, SoundMoved
<1> DEFINE t == AddUse(a, c)
<1>5. /\ Sound(t, [w EXCEPT ![c] = @ + 1]) /\ Framed(a, t) /\ \A d \in Channels : Same(a, t, d)
  BY <1>4, AddUseCounts
<1> HIDE DEF t
<1>6. /\ t.cached = s.cached /\ t.holds = Put(s.holds, u, c) /\ t.fstate = s.fstate
      /\ \A d \in Channels : Same(s, t, d)
  BY <1>2, <1>4, <1>5 DEF Framed, Same
<1> QED BY <1>3, <1>5, <1>6 DEF t

\* The state after the cache was dropped, as every allocation begins.
LEMMA Freed ==
  ASSUME NEW s, MInv(s)
  PROVE  LET t == DropCache(s)
         IN  /\ MInv(t) /\ Sound(t, Owed(s.holds, None))
             /\ t.cached = None /\ t.holds = s.holds /\ t.fstate = s.fstate
             /\ \A d \in Channels : Owed(s.holds, None)[d] > 0 => Same(s, t, d)
<1> DEFINE t == DropCache(s)
           w == Owed(s.holds, s.cached)
<1>1. Sound(s, w) /\ s \in State /\ s.cached \in Channels \cup {None} /\ s.holds \in HoldMap
  BY StateFields DEF MInv, Sound, HoldMap
<1>2. s.cached # None => w[s.cached] > 0
  BY <1>1, OwedCached
<1>3. Uncached(s, w) = Owed(s.holds, None)
  BY <1>1, OwedCached DEF Uncached
<1> HIDE DEF w
<1>4. /\ Sound(t, Owed(s.holds, None))
      /\ t.cached = None /\ t.holds = s.holds /\ t.fstate = s.fstate
      /\ \A d \in Channels : Owed(s.holds, None)[d] > 0 => Same(s, t, d)
  <2>1. /\ Sound(t, Uncached(s, w))
        /\ t.cached = None /\ t.holds = s.holds /\ t.fstate = s.fstate
        /\ \A d \in Channels : Uncached(s, w)[d] > 0 => Same(s, t, d)
    BY <1>1, <1>2, DropCacheCounts
  <2> QED BY <1>3, <2>1
<1> HIDE DEF t
<1>5. ASSUME NEW u \in Users, s.holds[u] # None PROVE Same(s, t, s.holds[u])
  <2>1. s.holds[u] \in Channels
    BY <1>1, <1>5 DEF HoldMap
  <2> QED BY <1>4, <2>1, OwedSomebody
<1>6. \A u \in Users : Proper(t, u)
  BY <1>4, <1>5 DEF MInv, Proper, Same
<1>7. MInv(t)
  BY <1>4, <1>6 DEF MInv
<1> QED BY <1>4, <1>7 DEF t

\* The channels in use after a change, but for the new one, are what they were.
Kept(s, t, new) ==
  \A d \in Channels : d # new /\ Owed(t.holds, t.cached)[d] > 0 => Same(s, t, d)

LEMMA Fields ==
  ASSUME NEW s, MInv(s)
  PROVE  /\ s \in State /\ s.cached \in Channels \cup {None} /\ s.holds \in HoldMap
         /\ Sound(s, Owed(s.holds, s.cached)) /\ Owed(s.holds, s.cached) \in Counts
         /\ \A u \in Users : s.holds[u] \in Channels \cup {None}
BY StateFields DEF MInv, Sound, HoldMap

LEMMA PutFields ==
  ASSUME NEW ho \in HoldMap, NEW u \in Users, NEW c \in Channels \cup {None}
  PROVE  Put(ho, u, c) \in HoldMap /\ Put(ho, u, c)[u] = c /\ \A v \in Users \ {u} : Put(ho, u, c)[v] = ho[v]
BY DEF Put, HoldMap

LEMMA PutOthers ==
  ASSUME NEW ho \in HoldMap, NEW u \in Users, NEW c \in Channels \cup {None}, NEW v \in Users,
         Put(ho, u, c)[v] # c
  PROVE  ho[v] = Put(ho, u, c)[v]
<1>1. v # u
  BY PutFields
<1> QED BY <1>1, PutFields

LEMMA UnbornIs ==
  ASSUME NEW s, MInv(s), NEW u \in Users, s.holds[u] = None
  PROVE  Unborn(s) \in Channels /\ Owed(s.holds, s.cached)[Unborn(s)] = 0
<1>1. PICK c \in Channels : Owed(s.holds, s.cached)[c] = 0
  BY Fields, OneIsUnborn
<1>2. \A d \in Channels : s.chan[d].live <=> Owed(s.holds, s.cached)[d] # 0
  BY Fields, DeadChannel DEF Sound, Counted, Counts
<1>3. ~s.chan[c].live
  BY <1>1, <1>2
<1>4. Unborn(s) \in Channels /\ ~s.chan[Unborn(s)].live
  BY <1>3 DEF Unborn
<1> QED BY <1>2, <1>4

\* tuneExt on a channel that lives.
LEMMA SharedKeeps ==
  ASSUME NEW s, MInv(s), NEW h \in Handlers, s.holds[h] = None, NEW c \in Channels,
         Owed(s.holds, s.cached)[c] > 0, s.chan[c].id \in Ids
  PROVE  LET t == AddUse(Hold(s, h, c), c)
         IN  /\ MInv(t) /\ t.holds = Put(s.holds, h, c) /\ t.cached = s.cached
             /\ \A d \in Channels : Same(s, t, d)
<1> DEFINE w == Owed(s.holds, s.cached)
           a == Hold(s, h, c)
           t == AddUse(a, c)
           w1 == [w EXCEPT ![c] = @ + 1]
           w2 == [w1 EXCEPT ![c] = @ + 1]
<1>0. h \in Users /\ Worth(h) = 2
  BY DEF Users, Worth
<1>1. Sound(s, w) /\ w \in Counts /\ w[c] > 0 /\ s.holds \in HoldMap
  BY Fields
<1>2. Owed(Put(s.holds, h, c), s.cached) = [w EXCEPT ![c] = @ + Worth(h)]
  BY <1>0, <1>1, OwedTaken
<1> HIDE DEF w, a, t
<1>3. /\ Sound(a, w1) /\ a.cached = s.cached /\ a.holds = Put(s.holds, h, c)
      /\ \A d \in Channels : Same(s, a, d)
  BY <1>0, <1>1, HoldCounts DEF a
<1>4. w1[c] > 0 /\ w1 \in Counts
  BY <1>1 DEF Counts
<1>5. w2 = Owed(Put(s.holds, h, c), s.cached)
  BY <1>0, <1>1, <1>2 DEF Counts
<1> HIDE DEF w1, w2
<1>6. /\ Sound(t, w2) /\ Framed(a, t) /\ \A d \in Channels : Same(a, t, d)
  BY <1>3, <1>4, AddUseCounts DEF t, w2
<1>7. /\ t.holds = Put(s.holds, h, c) /\ t.cached = s.cached /\ \A d \in Channels : Same(s, t, d)
  BY <1>3, <1>6 DEF Framed, Same
<1>8. MInv(t)
  <2>1. Sound(t, Owed(t.holds, t.cached))
    BY <1>5, <1>6, <1>7
  <2>2. t.cached # None => t.chan[t.cached].id \in Ids
    BY <1>7, Fields DEF MInv, Same
  <2>3. t.holds[h] = c /\ \A v \in Users \ {h} : t.holds[v] = s.holds[v]
    BY <1>0, <1>1, <1>7, PutFields
  <2>4. \A v \in Users : s.holds[v] # None => Same(s, t, s.holds[v])
    BY <1>7, Fields
  <2>5. Proper(t, h)
    BY <1>7, <2>3 DEF Proper, Same
  <2>6. h \notin RawUsers
    BY KindsAssumption
  <2> QED BY <1>0, <2>1, <2>2, <2>3, <2>4, <2>5, <2>6, Settled
<1> QED BY <1>7, <1>8 DEF t, a

\* A new channel for a transponder, which the manager keeps for later.
Allotted(s, h, id, f) ==
  LET c == Unborn(s)
      made == Hold(Create(s, c, id, f, "tuning"), h, c)
  IN  [AddUse(made, c) EXCEPT !.cached = c, !.conn = c, !.fstate[f] = "tuning"]

LEMMA AllocationsAre ==
  ASSUME NEW s, NEW h, NEW id, ~Caches(s, id), Found(DropCache(s), id) = {}
  PROVE  Allocations(s, h, id)
           = {Allotted(DropCache(s), h, id, f) : f \in FreeFrontends(DropCache(s).inuse, id)}
BY DEF Allocations, Allotted

\* tuneExt on it.
LEMMA TunedKeeps ==
  ASSUME NEW s, MInv(s), s.cached = None, NEW h \in Handlers, s.holds[h] = None,
         NEW id \in Ids, NEW f \in Frontends, Allowed(s, id, f)
  PROVE  LET c == Unborn(s)
             kept == Allotted(s, h, id, f)
             t == AddUse(kept, c)
         IN  /\ MInv(t) /\ t.holds = Put(s.holds, h, c) /\ t.cached = c /\ kept.holds[h] = c
             /\ t.chan[c].id = id /\ t.chan[c].fe = f /\ c \in Channels
             /\ \A d \in Channels \ {c} : Same(s, t, d)
<1> DEFINE w == Owed(s.holds, None)
           c == Unborn(s)
           made == Hold(Create(s, c, id, f, "tuning"), h, c)
           used == AddUse(made, c)
           kept == [used EXCEPT !.cached = c, !.conn = c, !.fstate[f] = "tuning"]
           t == AddUse(kept, c)
           w1 == [w EXCEPT ![c] = 1]
           w2 == [w1 EXCEPT ![c] = @ + 1]
           w3 == [w2 EXCEPT ![c] = @ + 1]
<1>0. h \in Users /\ Worth(h) = 2 /\ "tuning" \in States /\ "tuning" \in FrontendStates
  BY DEF Users, Worth, States, FrontendStates
<1>1. Sound(s, w) /\ w \in Counts /\ s.holds \in HoldMap
  BY Fields
<1>2. c \in Channels /\ w[c] = 0
  BY <1>0, UnbornIs
<1>3. Owed(Put(s.holds, h, c), None) = [w EXCEPT ![c] = @ + Worth(h)]
  BY <1>0, <1>1, <1>2, OwedTaken
<1>4. Owed(Put(s.holds, h, c), c) = [Owed(Put(s.holds, h, c), None) EXCEPT ![c] = @ + 1]
  BY <1>2, OwedCached
<1> HIDE DEF w, c
<1>5. /\ Sound(made, w1) /\ made.cached = s.cached /\ made.holds = Put(s.holds, h, c)
      /\ made.fstate = s.fstate /\ made.chan[c].id = id /\ made.chan[c].fe = f
      /\ \A d \in Channels \ {c} : Same(s, made, d)
  BY <1>0, <1>1, <1>2, CreateCounts
<1> HIDE DEF made
<1>6. w1 \in Counts /\ w1[c] = 1 /\ w2 \in Counts /\ w2[c] = 2
  BY <1>1, <1>2 DEF Counts
<1>7. w3 = Owed(Put(s.holds, h, c), c)
  BY <1>0, <1>1, <1>2, <1>3, <1>4 DEF Counts
<1> HIDE DEF w1, w2, w3
<1>8. /\ Sound(used, w2) /\ Framed(made, used) /\ \A d \in Channels : Same(made, used, d)
  BY <1>2, <1>5, <1>6, AddUseCounts DEF w2
<1> HIDE DEF used
<1>9. /\ kept \in State /\ kept.chan = used.chan /\ kept.active = used.active /\ kept.inuse = used.inuse
      /\ kept.cached = c /\ kept.holds = used.holds
  <2> DEFINE fs == [used.fstate EXCEPT ![f] = "tuning"]
  <2>1. used \in State
    BY <1>8 DEF Sound
  <2>2. fs \in [Frontends -> FrontendStates]
    BY <1>0, <2>1, StateFields
  <2>3. kept = [used EXCEPT !.cached = c, !.conn = c, !.fstate = fs]
    BY <2>1 DEF State
  <2> HIDE DEF fs, kept
  <2> QED BY <1>2, <2>1, <2>2, <2>3 DEF State
<1> HIDE DEF kept
<1>10. Sound(kept, w2) /\ \A d \in Channels : Same(used, kept, d)
  BY <1>8, <1>9, SoundMoved
<1>11. /\ Sound(t, w3) /\ Framed(kept, t) /\ \A d \in Channels : Same(kept, t, d)
  BY <1>2, <1>6, <1>10, AddUseCounts DEF w3
<1> HIDE DEF t
<1>12. /\ t.holds = Put(s.holds, h, c) /\ t.cached = c /\ kept.holds[h] = c
       /\ t.chan[c].id = id /\ t.chan[c].fe = f
       /\ \A d \in Channels \ {c} : Same(s, t, d)
  BY <1>0, <1>1, <1>2, <1>5, <1>8, <1>9, <1>10, <1>11, PutFields DEF Framed, Same
<1>13. MInv(t)
  <2>1. Sound(t, Owed(t.holds, t.cached))
    BY <1>7, <1>11, <1>12
  <2>3. t.holds[h] = c /\ \A v \in Users \ {h} : t.holds[v] = s.holds[v]
    BY <1>0, <1>1, <1>2, <1>12, PutFields
  <2>4. \A v \in Users : s.holds[v] # None => s.holds[v] \in Channels \ {c}
    BY <1>2, Fields, OwedSomebody DEF w
  <2>5. Proper(t, h)
    BY <1>12, <2>3 DEF Proper
  <2>6. h \notin RawUsers
    BY KindsAssumption
  <2> QED BY <1>0, <1>12, <2>1, <2>3, <2>4, <2>5, <2>6, Settled
<1>14. Allotted(s, h, id, f) = kept
  BY DEF Allotted, kept, used, made, c
<1> QED BY <1>2, <1>12, <1>13, <1>14 DEF t, c

\* allocatePVRChannel: a channel without a tuner.
LEMMA PlayedKeeps ==
  ASSUME NEW s, MInv(s), NEW h \in Handlers, s.holds[h] = None, NEW id \in StreamIds \cup {None}
  PROVE  LET c == Unborn(s)
             t == AddUse(Hold(Create(s, c, id, None, "idle"), h, c), c)
         IN  /\ MInv(t) /\ t.holds = Put(s.holds, h, c) /\ t.cached = s.cached
             /\ t.chan[c].id = id /\ t.chan[c].fe = None /\ c \in Channels
             /\ Owed(s.holds, s.cached)[c] = 0
             /\ \A d \in Channels \ {c} : Same(s, t, d)
<1> DEFINE w == Owed(s.holds, s.cached)
           c == Unborn(s)
           made == Hold(Create(s, c, id, None, "idle"), h, c)
           t == AddUse(made, c)
           w1 == [w EXCEPT ![c] = 1]
           w2 == [w1 EXCEPT ![c] = @ + 1]
<1>0. h \in Users /\ Worth(h) = 2 /\ "idle" \in States
  BY DEF Users, Worth, States
<1>1. Sound(s, w) /\ w \in Counts /\ s.holds \in HoldMap
  BY Fields
<1>2. c \in Channels /\ w[c] = 0
  BY <1>0, UnbornIs
<1>3. Owed(Put(s.holds, h, c), s.cached) = [w EXCEPT ![c] = @ + Worth(h)]
  BY <1>0, <1>1, <1>2, OwedTaken
<1>4. Allowed(s, id, None)
  BY KindsAssumption DEF Allowed
<1> HIDE DEF w, c
<1>5. /\ Sound(made, w1) /\ made.cached = s.cached /\ made.holds = Put(s.holds, h, c)
      /\ made.chan[c].id = id /\ made.chan[c].fe = None
      /\ \A d \in Channels \ {c} : Same(s, made, d)
  BY <1>0, <1>1, <1>2, <1>4, CreateCounts
<1> HIDE DEF made
<1>6. w1 \in Counts /\ w1[c] = 1
  BY <1>1, <1>2 DEF Counts
<1>7. w2 = Owed(Put(s.holds, h, c), s.cached)
  BY <1>0, <1>1, <1>2, <1>3 DEF Counts
<1> HIDE DEF w1, w2
<1>8. /\ Sound(t, w2) /\ Framed(made, t) /\ \A d \in Channels : Same(made, t, d)
  BY <1>2, <1>5, <1>6, AddUseCounts DEF w2
<1> HIDE DEF t
<1>9. /\ t.holds = Put(s.holds, h, c) /\ t.cached = s.cached
      /\ t.chan[c].id = id /\ t.chan[c].fe = None
      /\ \A d \in Channels \ {c} : Same(s, t, d)
  BY <1>2, <1>5, <1>8 DEF Framed, Same
<1>10. MInv(t)
  <2>1. Sound(t, Owed(t.holds, t.cached))
    BY <1>7, <1>8, <1>9
  <2>2. t.cached # None => t.chan[t.cached].id \in Ids
    <3>1. t.cached # None => t.cached \in Channels \ {c}
      BY <1>2, <1>9, Fields, OwedSomebody DEF w
    <3> QED BY <1>9, <3>1 DEF MInv, Same
  <2>3. t.holds[h] = c /\ \A v \in Users \ {h} : t.holds[v] = s.holds[v]
    BY <1>0, <1>1, <1>2, <1>9, PutFields
  <2>4. \A v \in Users : s.holds[v] # None => s.holds[v] \in Channels \ {c}
    BY <1>2, Fields, OwedSomebody DEF w
  <2>5. Proper(t, h)
    BY <1>9, <2>3 DEF Proper
  <2>6. h \notin RawUsers
    BY KindsAssumption
  <2> QED BY <1>0, <1>9, <2>1, <2>2, <2>3, <2>4, <2>5, <2>6, Settled
<1> QED BY <1>2, <1>9, <1>10 DEF t, made, c, w

\* allocateRawChannel, with or without the copy that a scan drops.
LEMMA RawKeeps ==
  ASSUME NEW s, MInv(s), NEW r \in RawUsers, s.holds[r] = None, NEW f \in Frontends, s.inuse[f] = 0,
         s.cached = None
  PROVE  LET c == Unborn(s)
             raw == Hold(Create(s, c, None, f, "idle"), r, c)
         IN  /\ c \in Channels /\ Owed(s.holds, None)[c] = 0
             /\ \A t \in {raw, ReleaseUse(AddUse(raw, c), c)} :
                  /\ MInv(t) /\ t.holds = Put(s.holds, r, c) /\ t.cached = None
                  /\ t.chan[c].id = None /\ t.chan[c].fe = f
                  /\ \A d \in Channels \ {c} : Same(s, t, d)
<1> DEFINE w == Owed(s.holds, None)
           c == Unborn(s)
           raw == Hold(Create(s, c, None, f, "idle"), r, c)
           a == AddUse(raw, c)
           b == ReleaseUse(a, c)
           w1 == [w EXCEPT ![c] = 1]
           w2 == [w1 EXCEPT ![c] = @ + 1]
           w3 == [w2 EXCEPT ![c] = @ - 1]
<1>0. r \in Users /\ Worth(r) = 1 /\ "idle" \in States
  BY KindsAssumption DEF Users, Worth, States
<1>1. Sound(s, w) /\ w \in Counts /\ s.holds \in HoldMap
  BY Fields
<1>2. c \in Channels /\ w[c] = 0
  BY <1>0, UnbornIs
<1>3. Owed(Put(s.holds, r, c), None) = [w EXCEPT ![c] = @ + Worth(r)]
  BY <1>0, <1>1, <1>2, OwedTaken
<1>4. Allowed(s, None, f)
  BY KindsAssumption DEF Allowed
<1> HIDE DEF w, c
<1>5. /\ Sound(raw, w1) /\ raw.cached = s.cached /\ raw.holds = Put(s.holds, r, c)
      /\ raw.chan[c].id = None /\ raw.chan[c].fe = f
      /\ \A d \in Channels \ {c} : Same(s, raw, d)
  BY <1>0, <1>1, <1>2, <1>4, CreateCounts
<1> HIDE DEF raw
<1>6. w1 \in Counts /\ w1[c] = 1 /\ w2 \in Counts /\ w2[c] = 2 /\ w3 = w1
  BY <1>1, <1>2 DEF Counts
<1>7. w1 = Owed(Put(s.holds, r, c), None)
  BY <1>0, <1>1, <1>2, <1>3 DEF Counts
<1> HIDE DEF w1, w2, w3
<1>8. /\ Sound(a, w2) /\ Framed(raw, a) /\ \A d \in Channels : Same(raw, a, d)
  BY <1>2, <1>5, <1>6, AddUseCounts DEF w2
<1> HIDE DEF a
<1>9. /\ Sound(b, w3) /\ Framed(a, b) /\ \A d \in Channels : Same(a, b, d)
  <2>1. w2[c] > 0 /\ w2[c] > 1
    BY <1>6
  <2>2. /\ Sound(b, w3) /\ Framed(a, b)
        /\ \A d \in Channels : d # c \/ w2[c] > 1 => Same(a, b, d)
    BY <1>2, <1>8, <2>1, ReleaseUseCounts DEF b, w3
  <2> QED BY <2>1, <2>2
<1> HIDE DEF b
<1>10. ASSUME NEW t, t = raw \/ t = b
       PROVE  /\ MInv(t) /\ t.holds = Put(s.holds, r, c) /\ t.cached = None
              /\ t.chan[c].id = None /\ t.chan[c].fe = f
              /\ \A d \in Channels \ {c} : Same(s, t, d)
  <2>0. /\ t.holds = Put(s.holds, r, c) /\ t.cached = None
        /\ t.chan[c].id = None /\ t.chan[c].fe = f
        /\ \A d \in Channels \ {c} : Same(s, t, d)
    BY <1>2, <1>5, <1>8, <1>9, <1>10 DEF Framed, Same
  <2>1. Sound(t, Owed(t.holds, t.cached))
    BY <1>5, <1>6, <1>7, <1>9, <1>10, <2>0
  <2>3. t.holds[r] = c /\ \A v \in Users \ {r} : t.holds[v] = s.holds[v]
    BY <1>0, <1>1, <1>2, <2>0, PutFields
  <2>4. \A v \in Users : s.holds[v] # c /\ (s.holds[v] # None => s.holds[v] \in Channels \ {c})
    BY <1>2, Fields, OwedSomebody DEF w
  <2>5. Proper(t, r)
    BY <2>0, <2>3, KindsAssumption DEF Proper
  <2>6. \A v \in RawUsers \ {r} : t.holds[v] # t.holds[r]
    BY <2>3, <2>4 DEF Users
  <2> QED BY <1>0, <2>0, <2>1, <2>3, <2>4, <2>5, <2>6, Settled
<1> QED BY <1>2, <1>10 DEF b, a, raw, c, w

LEMMA HoldsSet ==
  ASSUME NEW s \in State, NEW u \in Users, NEW c \in Channels \cup {None}
  PROVE  LET a == [s EXCEPT !.holds[u] = c]
         IN  /\ a \in State /\ a.chan = s.chan /\ a.active = s.active /\ a.inuse = s.inuse
             /\ a.cached = s.cached /\ a.holds = Put(s.holds, u, c) /\ a.fstate = s.fstate
<1> DEFINE ho == [s.holds EXCEPT ![u] = c]
           a == [s EXCEPT !.holds[u] = c]
<1>1. ho \in [Users -> Channels \cup {None}] /\ ho = Put(s.holds, u, c)
  BY StateFields DEF Put
<1>2. a = [s EXCEPT !.holds = ho]
  BY DEF State
<1> HIDE DEF ho, a
<1>3. /\ a \in State /\ a.chan = s.chan /\ a.active = s.active /\ a.inuse = s.inuse
      /\ a.cached = s.cached /\ a.holds = Put(s.holds, u, c) /\ a.fstate = s.fstate
  BY <1>1, <1>2 DEF State
<1> QED BY <1>3 DEF a

\* eDVBServicePMTHandler::free
LEMMA LeftKeeps ==
  ASSUME NEW s, MInv(s), NEW h \in Handlers, s.holds[h] # None
  PROVE  LET t == Left(s, h)
         IN  /\ MInv(t) /\ t.holds = Put(s.holds, h, None) /\ t.cached = s.cached
             /\ Owed(t.holds, t.cached) = [Owed(s.holds, s.cached) EXCEPT ![s.holds[h]] = @ - 2]
             /\ Owed(s.holds, s.cached)[s.holds[h]] >= 2
             /\ Kept(s, t, None)
<1> DEFINE w == Owed(s.holds, s.cached)
           c == s.holds[h]
           a == ReleaseUse(s, c)
           b == ReleaseUse(a, c)
           t == [b EXCEPT !.holds[h] = None]
           w1 == [w EXCEPT ![c] = @ - 1]
           w2 == [w1 EXCEPT ![c] = @ - 1]
<1>0. h \in Users /\ Worth(h) = 2
  BY DEF Users, Worth
<1>1. Sound(s, w) /\ w \in Counts /\ s.holds \in HoldMap /\ c \in Channels
  BY <1>0, Fields
<1>2. /\ Owed(Put(s.holds, h, None), s.cached) = [w EXCEPT ![c] = @ - Worth(h)]
      /\ w[c] >= Worth(h)
  BY <1>0, <1>1, OwedGiven
<1>3. Left(s, h) = t
  BY DEF Left
<1> HIDE DEF w, c, a, b, t
<1>4. /\ w[c] \in Nat /\ w[c] >= 2 /\ w1[c] = w[c] - 1 /\ w1 \in Counts
  BY <1>0, <1>1, <1>2 DEF Counts
<1>5. /\ Sound(a, w1) /\ Framed(s, a)
      /\ \A d \in Channels : d # c \/ w[c] > 1 => Same(s, a, d)
  BY <1>1, <1>4, ReleaseUseCounts DEF a
<1>6. w2 = Owed(Put(s.holds, h, None), s.cached) /\ w2 = [w EXCEPT ![c] = @ - 2]
  BY <1>0, <1>1, <1>2, <1>4 DEF Counts
<1>7. w2[c] = w[c] - 2
  BY <1>1, <1>6 DEF Counts
<1> HIDE DEF w1, w2
<1>8. /\ Sound(b, w2) /\ Framed(a, b)
      /\ \A d \in Channels : d # c \/ w1[c] > 1 => Same(a, b, d)
  BY <1>1, <1>4, <1>5, ReleaseUseCounts DEF b, w2
<1>9. /\ t \in State /\ t.chan = b.chan /\ t.active = b.active /\ t.inuse = b.inuse
      /\ t.cached = b.cached /\ t.holds = Put(b.holds, h, None)
  <2>1. b \in State
    BY <1>8 DEF Sound
  <2> QED BY <1>0, <2>1, HoldsSet DEF t
<1>10. Sound(t, w2) /\ \A d \in Channels : Same(b, t, d)
  BY <1>8, <1>9, SoundMoved
<1>11. t.holds = Put(s.holds, h, None) /\ t.cached = s.cached
  BY <1>5, <1>8, <1>9 DEF Framed
<1>12. ASSUME NEW d \in Channels, w2[d] > 0 PROVE Same(s, t, d)
  <2>1. d # c \/ w1[c] > 1
    BY <1>4, <1>7, <1>12
  <2>2. w[c] > 1
    BY <1>4
  <2> QED BY <1>5, <1>8, <1>10, <2>1, <2>2 DEF Same
<1>13. Kept(s, t, None)
  BY <1>6, <1>11, <1>12 DEF Kept
<1>14. MInv(t)
  <2>1. Sound(t, Owed(t.holds, t.cached))
    BY <1>6, <1>10, <1>11
  <2>2. t.cached # None => t.chan[t.cached].id \in Ids
    <3>1. SUFFICES ASSUME t.cached # None PROVE t.chan[t.cached].id \in Ids
      OBVIOUS
    <3>2. t.cached \in Channels
      BY <1>11, <3>1, Fields
    <3>3. Owed(t.holds, t.cached)[t.cached] > 0
      BY <3>2, OwedSomebody
    <3>4. w2[t.cached] > 0
      BY <1>6, <1>11, <3>3
    <3> QED BY <1>11, <1>12, <3>1, <3>2, <3>4 DEF MInv, Same
  <2>3. t.holds[h] = None /\ \A v \in Users \ {h} : t.holds[v] = s.holds[v]
    BY <1>0, <1>1, <1>11, PutFields
  <2>4. ASSUME NEW v \in Users \ {h}, s.holds[v] # None PROVE Same(s, t, s.holds[v])
    <3>1. s.holds[v] \in Channels
      BY <2>4, Fields
    <3>2. Owed(t.holds, t.cached)[s.holds[v]] > 0
      BY <2>3, <3>1, OwedSomebody
    <3>3. w2[s.holds[v]] > 0
      BY <1>6, <1>11, <3>2
    <3> QED BY <1>12, <3>1, <3>3
  <2>5. Proper(t, h)
    BY <2>3 DEF Proper
  <2>6. h \notin RawUsers
    BY KindsAssumption
  <2> QED BY <1>0, <2>1, <2>2, <2>3, <2>4, <2>5, <2>6, Settled
<1> QED BY <1>3, <1>4, <1>6, <1>11, <1>13, <1>14 DEF c, w

\* The owner of a raw channel drops it: nobody else has it, so it goes.
LEMMA RawLeftKeeps ==
  ASSUME NEW s, MInv(s), NEW r \in RawUsers, s.holds[r] # None
  PROVE  LET t == [ReleaseUse(s, s.holds[r]) EXCEPT !.holds[r] = None]
         IN  /\ MInv(t) /\ t.holds = Put(s.holds, r, None) /\ t.cached = s.cached
             /\ \A d \in Channels \ {s.holds[r]} : Same(s, t, d)
             /\ Kept(s, t, None)
<1> DEFINE w == Owed(s.holds, s.cached)
           c == s.holds[r]
           b == ReleaseUse(s, c)
           t == [b EXCEPT !.holds[r] = None]
           w1 == [w EXCEPT ![c] = @ - 1]
<1>0. r \in Users /\ Worth(r) = 1 /\ r \notin Handlers
  BY KindsAssumption DEF Users, Worth
<1>1. Sound(s, w) /\ w \in Counts /\ s.holds \in HoldMap /\ c \in Channels
  BY <1>0, Fields
<1>2. /\ Owed(Put(s.holds, r, None), s.cached) = [w EXCEPT ![c] = @ - Worth(r)]
      /\ w[c] >= Worth(r)
  BY <1>0, <1>1, OwedGiven
<1>3. s.chan[c].id = None /\ s.chan[c].fe \in Frontends
  BY <1>0 DEF MInv, Proper
<1>4. Owed(Put(s.holds, r, None), s.cached)[c] = 0
  <2>1. s.cached # c
    BY <1>3, KindsAssumption DEF MInv
  <2>2. ASSUME NEW u \in Users PROVE Put(s.holds, r, None)[u] # c
    <3>1. CASE u = r
      BY <1>0, <1>1, <3>1, KindsAssumption DEF Put, HoldMap
    <3>2. CASE u # r /\ u \in RawUsers
      BY <1>0, <1>1, <3>2, PutFields DEF MInv
    <3>3. CASE u # r /\ u \in Handlers
      <4>1. Proper(s, u) /\ Put(s.holds, r, None)[u] = s.holds[u]
        BY <1>0, <1>1, <3>3, PutFields DEF MInv
      <4> QED BY <1>1, <1>3, <3>3, <4>1, KindsAssumption DEF Proper
    <3> QED BY <3>1, <3>2, <3>3 DEF Users
  <2> QED BY <1>1, <2>1, <2>2, OwedSomebody
<1> HIDE DEF w, c, b, t
<1>5. w[c] > 0 /\ w1 = Owed(Put(s.holds, r, None), s.cached)
  BY <1>0, <1>1, <1>2 DEF Counts
<1> HIDE DEF w1
<1>6. /\ Sound(b, w1) /\ Framed(s, b)
      /\ \A d \in Channels : d # c \/ w[c] > 1 => Same(s, b, d)
  BY <1>1, <1>5, ReleaseUseCounts DEF b, w1
<1>7. /\ t \in State /\ t.chan = b.chan /\ t.active = b.active /\ t.inuse = b.inuse
      /\ t.cached = b.cached /\ t.holds = Put(b.holds, r, None)
  <2>1. b \in State
    BY <1>6 DEF Sound
  <2> QED BY <1>0, <2>1, HoldsSet DEF t
<1>8. Sound(t, w1) /\ \A d \in Channels : Same(b, t, d)
  BY <1>6, <1>7, SoundMoved
<1>9. t.holds = Put(s.holds, r, None) /\ t.cached = s.cached
  BY <1>6, <1>7 DEF Framed
<1>10. \A d \in Channels \ {c} : Same(s, t, d)
  BY <1>6, <1>8 DEF Same
<1>11. Kept(s, t, None)
  BY <1>4, <1>9, <1>10 DEF Kept
<1>12. MInv(t)
  <2>1. Sound(t, Owed(t.holds, t.cached))
    BY <1>5, <1>8, <1>9
  <2>2. t.cached # None => t.chan[t.cached].id \in Ids
    <3>1. t.cached # None => t.cached \in Channels /\ t.cached # c
      BY <1>3, <1>9, Fields, KindsAssumption DEF MInv
    <3> QED BY <1>9, <1>10, <3>1 DEF MInv, Same
  <2>3. t.holds[r] = None /\ \A v \in Users \ {r} : t.holds[v] = s.holds[v]
    BY <1>0, <1>1, <1>9, PutFields
  <2>4. ASSUME NEW v \in Users \ {r}, s.holds[v] # None PROVE Same(s, t, s.holds[v])
    <3>1. s.holds[v] \in Channels
      BY <2>4, Fields
    <3>2. s.holds[v] # c
      BY <1>1, <1>4, <1>9, <2>3, OwedSomebody
    <3> QED BY <1>10, <3>1, <3>2
  <2>5. Proper(t, r)
    BY <2>3 DEF Proper
  <2> QED BY <1>0, <2>1, <2>2, <2>3, <2>4, <2>5, Settled
<1> QED BY <1>9, <1>10, <1>11, <1>12 DEF t, b, c

\* The timer of the cached channel fired.
LEMMA CacheReleasedKeeps ==
  ASSUME NEW s, MInv(s)
  PROVE  LET a == [s EXCEPT !.timer = FALSE]
             t == IF s.cached = None THEN a ELSE [ReleaseUse(a, s.cached) EXCEPT !.cached = None]
         IN  MInv(t) /\ t.holds = s.holds /\ t.cached = None /\ Kept(s, t, None)
<1> DEFINE a == [s EXCEPT !.timer = FALSE]
           c == s.cached
           b == ReleaseUse(a, c)
           t == IF s.cached = None THEN a ELSE [b EXCEPT !.cached = None]
           w == Owed(s.holds, s.cached)
           v == Owed(s.holds, None)
<1>1. Sound(s, w) /\ w \in Counts /\ s \in State /\ c \in Channels \cup {None} /\ s.holds \in HoldMap
  BY Fields
<1>2. /\ a \in State /\ a.chan = s.chan /\ a.active = s.active /\ a.inuse = s.inuse
      /\ Framed(s, a)
  BY <1>1 DEF State, Framed
<1> HIDE DEF a
<1>3. Sound(a, w) /\ \A d \in Channels : Same(s, a, d)
  BY <1>1, <1>2, SoundMoved
<1>4. Sound(t, v) /\ t.holds = s.holds /\ t.cached = None /\ \A d \in Channels : v[d] > 0 => Same(s, t, d)
  <2>1. CASE c = None
    BY <1>2, <1>3, <2>1 DEF Framed
  <2>2. CASE c # None
    <3>1. c \in Channels /\ w[c] > 0 /\ v = [w EXCEPT ![c] = @ - 1]
      BY <1>1, <2>2, OwedCached
    <3> HIDE DEF w, v
    <3>2. /\ Sound(b, v) /\ Framed(a, b)
          /\ \A d \in Channels : d # c \/ w[c] > 1 => Same(a, b, d)
      BY <1>3, <3>1, ReleaseUseCounts
    <3> HIDE DEF b, c
    <3>3. b \in State
      BY <3>2 DEF Sound
    <3>4. t = [b EXCEPT !.cached = None]
      BY <2>2 DEF c
    <3> HIDE DEF t
    <3>5. /\ t \in State /\ t.chan = b.chan /\ t.active = b.active /\ t.inuse = b.inuse
          /\ t.cached = None /\ t.holds = b.holds
      BY <3>3, <3>4 DEF State
    <3>6. Sound(t, v) /\ \A d \in Channels : Same(b, t, d)
      BY <3>2, <3>5, SoundMoved
    <3>7. t.holds = s.holds
      BY <1>2, <3>2, <3>5 DEF Framed
    <3>8. ASSUME NEW d \in Channels, v[d] > 0 PROVE Same(s, t, d)
      <4>1. d = c => w[c] > 1
        BY <1>1, <3>1, <3>8 DEF Counts
      <4> QED BY <1>3, <3>2, <3>6, <4>1 DEF Same
    <3> QED BY <3>5, <3>6, <3>7, <3>8
  <2> QED BY <2>1, <2>2
<1> HIDE DEF t
<1>5. ASSUME NEW u \in Users, s.holds[u] # None PROVE Same(s, t, s.holds[u])
  <2>1. s.holds[u] \in Channels
    BY <1>1, <1>5 DEF HoldMap
  <2> QED BY <1>4, <2>1, OwedSomebody
<1>6. \A u \in Users : Proper(t, u)
  BY <1>4, <1>5 DEF MInv, Proper, Same
<1>7. MInv(t)
  BY <1>4, <1>6 DEF MInv
<1>8. Kept(s, t, None)
  BY <1>4 DEF Kept
<1> QED BY <1>4, <1>7, <1>8 DEF t, b, a, c

Turned(s, f, then) == [s EXCEPT !.fstate[f] = then]

\* An event of the frontend: states and the timer, never a use.
LEMMA EventKeeps ==
  ASSUME NEW s, MInv(s), NEW f \in Frontends, NEW c \in Channels, s.chan[c].live,
         NEW then \in FrontendStates, NEW state \in States
  PROVE  LET a == Turned(s, f, then)
         IN  \A t \in {a, StateChanged(a, c, state)} :
               MInv(t) /\ t.holds = s.holds /\ t.cached = s.cached /\ \A d \in Channels : Same(s, t, d)
<1> DEFINE w == Owed(s.holds, s.cached)
           fs == [s.fstate EXCEPT ![f] = then]
           a == [s EXCEPT !.fstate[f] = then]
           b == StateChanged(a, c, state)
<1>1. Sound(s, w) /\ w \in Counts /\ s \in State /\ s.holds \in HoldMap
  BY Fields
<1>2. fs \in [Frontends -> FrontendStates]
  BY <1>1, StateFields
<1>3. a = [s EXCEPT !.fstate = fs]
  BY <1>1 DEF State
<1> HIDE DEF fs, a, w
<1>4. /\ a \in State /\ a.chan = s.chan /\ a.active = s.active /\ a.inuse = s.inuse
      /\ a.cached = s.cached /\ a.holds = s.holds
  BY <1>1, <1>2, <1>3 DEF State
<1>5. Sound(a, w) /\ \A d \in Channels : Same(s, a, d)
  BY <1>1, <1>4, SoundMoved
<1>6. /\ b \in State /\ b.active = a.active /\ b.inuse = a.inuse /\ b.cached = a.cached /\ b.holds = a.holds
      /\ b.chan = [a.chan EXCEPT ![c].state = state]
  BY <1>4, StateChangedFields
<1> HIDE DEF b
<1>7. /\ \A d \in Channels : Same(a, b, d) /\ b.chan[d].uses = a.chan[d].uses
      /\ \A d \in Channels \ {c} : b.chan[d] = a.chan[d]
  BY <1>4, <1>6, StateFields DEF Same, Channel
<1>8. w[c] > 0
  <2>1. w[c] # 0
    BY <1>1, DeadChannel DEF Sound, Counted
  <2> QED BY <1>1, <2>1 DEF Counts
<1>9. Sound(b, w)
  <2>1. ASSUME NEW d \in Channels
        PROVE  b.chan[d].uses = w[d] /\ (w[d] = 0 => b.chan[d] = Dead) /\ (w[d] > 0 => b.chan[d].live)
    <3>1. a.chan[d].uses = w[d] /\ (w[d] = 0 => a.chan[d] = Dead) /\ (w[d] > 0 => a.chan[d].live)
      BY <1>5 DEF Sound, Counted
    <3>2. CASE d = c
      BY <1>1, <1>7, <1>8, <3>1, <3>2 DEF Same, Counts
    <3>3. CASE d # c
      BY <1>7, <3>1, <3>3
    <3> QED BY <3>2, <3>3
  <2>2. Counted(b, w)
    BY <2>1 DEF Counted
  <2> QED BY <1>1, <1>5, <1>6, <1>7, <2>2, SoundStays
<1>10. ASSUME NEW t, t = a \/ t = b
       PROVE  MInv(t) /\ t.holds = s.holds /\ t.cached = s.cached /\ \A d \in Channels : Same(s, t, d)
  <2>1. t.holds = s.holds /\ t.cached = s.cached /\ \A d \in Channels : Same(s, t, d)
    <3>1. CASE t = a
      BY <1>4, <1>5, <3>1
    <3>2. CASE t = b
      <4>1. \A d \in Channels : Same(s, a, d) /\ Same(a, b, d)
        BY <1>5, <1>7
      <4>2. \A d \in Channels : Same(s, b, d)
        BY <4>1 DEF Same
      <4>3. b.holds = s.holds /\ b.cached = s.cached
        BY <1>4, <1>6
      <4> QED BY <3>2, <4>2, <4>3
    <3> QED BY <1>10, <3>1, <3>2
  <2>2. Sound(t, Owed(t.holds, t.cached))
    BY <1>5, <1>9, <1>10, <2>1 DEF w
  <2>3. s.cached # None => s.cached \in Channels
    BY Fields
  <2>4. \A u \in Users : s.holds[u] # None => s.holds[u] \in Channels
    BY Fields
  <2>5. \A u \in Users : Proper(t, u)
    BY <2>1, <2>4 DEF MInv, Proper, Same
  <2> QED BY <2>1, <2>2, <2>3, <2>5 DEF MInv, Same
<1> QED BY <1>10 DEF b, a, Turned

-----------------------------------------------------------------------------
(* The actions *)

\* A search for a transponder finds its one channel.
LEMMA FoundIs ==
  ASSUME NEW s \in State, Listed(s), Named(s), NEW id \in Ids
  PROVE  Found(s, id) = {c \in Channels : s.chan[c].id = id}
<1> DEFINE at == {i \in DOMAIN s.active : s.chan[s.active[i]].id = id}
           first == {j \in at : \A k \in at : j <= k}
<1>1. \A i \in DOMAIN s.active : s.active[i] \in Channels /\ i \in Nat
  BY StateFields
<1>2. \A i, j \in at : i = j
  BY <1>1 DEF Listed, Named
<1>3. first = at
  BY <1>1, <1>2
<1>4. Found(s, id) = {s.active[i] : i \in at}
  BY <1>3 DEF Found
<1>5. ASSUME NEW c \in Channels, s.chan[c].id = id PROVE c \in Found(s, id)
  <2>1. id # None
    BY KindsAssumption
  <2>2. PICK i \in DOMAIN s.active : s.active[i] = c
    BY <1>5, <2>1 DEF Listed
  <2>3. i \in at
    BY <1>5, <2>2
  <2> QED BY <1>4, <2>2, <2>3
<1>6. ASSUME NEW c \in Found(s, id) PROVE c \in Channels /\ s.chan[c].id = id
  BY <1>1, <1>4
<1> QED BY <1>5, <1>6

\* Whatever the id, what a search finds has it.
LEMMA FoundHave ==
  ASSUME NEW s \in State, Listed(s), NEW id
  PROVE  \A c \in Found(s, id) : c \in Channels /\ s.chan[c].id = id /\ id # None
BY StateFields DEF Found, Listed

\* A channel that is something is used.
LEMMA UsedIs ==
  ASSUME NEW s, NEW w, Sound(s, w), NEW c \in Channels,
         s.chan[c].id # None \/ s.chan[c].fe # None \/ s.chan[c].live
  PROVE  w[c] > 0
<1>1. w[c] # 0
  BY DeadChannel DEF Sound, Counted
<1> QED BY <1>1 DEF Sound, Counts

\* What becomes of an attempt of h to tune to id: it shares a channel, makes one on a tuner
\* that is free once the cache is dropped, or has only dropped the cache.
Shared(s, t, h, id) ==
  \E c \in Channels : /\ s.chan[c].id = id
                      /\ t.holds = Put(s.holds, h, c) /\ Kept(s, t, None)

Taken(s, t, h, id) ==
  \E c \in Channels, f \in Frontends :
    /\ \A d \in Channels : s.chan[d].id # id
    /\ <<id, f>> \in Tunable /\ DropCache(s).inuse[f] = 0
    /\ Owed(s.holds, None)[c] = 0
    /\ t.holds = Put(s.holds, h, c) /\ t.chan[c].id = id /\ t.chan[c].fe = f
    /\ Kept(s, t, c)

Refused(s, t) == t.holds = s.holds /\ Kept(s, t, None)

LEMMA TuneKeeps ==
  ASSUME NEW s, MInv(s), NEW h \in Handlers, s.holds[h] = None, NEW id \in Ids,
         NEW a \in Allocations(s, h, id)
  PROVE  LET t == AddUse(a, a.holds[h]) IN MInv(t) /\ (Shared(s, t, h, id) \/ Taken(s, t, h, id))
<1> DEFINE free == DropCache(s)
           w == Owed(s.holds, s.cached)
           v == Owed(s.holds, None)
           t == AddUse(a, a.holds[h])
<1>0. h \in Users
  BY DEF Users
<1>1. /\ s \in State /\ s.cached \in Channels \cup {None} /\ s.holds \in HoldMap
      /\ Sound(s, w) /\ w \in Counts
  BY Fields
<1>2. /\ MInv(free) /\ Sound(free, v) /\ v \in Counts
      /\ free.cached = None /\ free.holds = s.holds
      /\ \A d \in Channels : v[d] > 0 => Same(s, free, d)
  BY Freed, OwedType
<1>3. CASE Caches(s, id)
  <2> DEFINE c == s.cached
  <2>1. a = Hold(s, h, c) /\ c # None /\ s.chan[c].id = id
    BY <1>3 DEF Allocations, Caches
  <2>2. c \in Channels
    BY <1>1, <2>1
  <2>3. w[c] > 0
    BY <2>2, OwedSomebody
  <2> HIDE DEF c, w
  <2>4. a.holds = Put(s.holds, h, c)
    BY <1>0, <1>1, <2>1, <2>2, <2>3, HoldCounts
  <2>5. a.holds[h] = c
    BY <1>0, <1>1, <2>2, <2>4, PutFields
  <2>6. t = AddUse(Hold(s, h, c), c)
    BY <2>1, <2>5
  <2>7. MInv(t) /\ t.holds = Put(s.holds, h, c) /\ \A d \in Channels : Same(s, t, d)
    BY <2>1, <2>2, <2>3, <2>6, SharedKeeps DEF w
  <2> QED BY <2>1, <2>2, <2>7 DEF Shared, Kept
<1>4. CASE ~Caches(s, id) /\ Found(free, id) # {}
  <2>1. PICK c \in Found(free, id) : a = Hold(free, h, c)
    BY <1>4 DEF Allocations
  <2>2. c \in Channels /\ free.chan[c].id = id
    BY <1>2, <2>1, FoundHave DEF Sound
  <2>3. v[c] > 0
    BY <1>2, <2>2, UsedIs, KindsAssumption
  <2> HIDE DEF v, free
  <2>4. a.holds = Put(s.holds, h, c)
    BY <1>0, <1>2, <2>1, <2>2, <2>3, HoldCounts
  <2>5. a.holds[h] = c
    BY <1>0, <1>1, <2>2, <2>4, PutFields
  <2>6. t = AddUse(Hold(free, h, c), c)
    BY <2>1, <2>5
  <2> HIDE DEF t
  <2>7. Owed(free.holds, free.cached) = v
    BY <1>2 DEF v
  <2>8. /\ MInv(t) /\ t.holds = Put(s.holds, h, c) /\ t.cached = None
        /\ \A d \in Channels : Same(free, t, d)
    BY <1>2, <2>2, <2>3, <2>6, <2>7, SharedKeeps
  <2>9. s.chan[c].id = id
    BY <1>2, <2>2, <2>3 DEF Same
  <2>10. ASSUME NEW d \in Channels, Owed(t.holds, t.cached)[d] > 0 PROVE Same(s, t, d)
    <3>1. None # d /\ \E u \in Users : Put(s.holds, h, c)[u] = d
      BY <2>8, <2>10, OwedSomebody, KindsAssumption
    <3>2. d = c \/ \E u \in Users : s.holds[u] = d
      <4>1. PICK u \in Users : Put(s.holds, h, c)[u] = d
        BY <3>1
      <4>2. d # c => s.holds[u] = d
        BY <1>0, <1>1, <2>2, <4>1, PutOthers
      <4> QED BY <4>2
    <3>3. v[d] > 0
      BY <2>3, <3>2, OwedSomebody DEF v
    <3> QED BY <1>2, <2>8, <3>3 DEF Same
  <2>11. Kept(s, t, None)
    BY <2>10 DEF Kept
  <2> QED BY <2>2, <2>8, <2>9, <2>11 DEF Shared, t
<1>5. CASE ~Caches(s, id) /\ Found(free, id) = {}
  <2> DEFINE c == Unborn(free)
  <2>1. PICK f \in FreeFrontends(free.inuse, id) : a = Allotted(free, h, id, f)
    BY <1>5, AllocationsAre
  <2>2. f \in Frontends /\ free.inuse[f] = 0 /\ <<id, f>> \in Tunable
    BY <2>1 DEF FreeFrontends
  <2>3. \A d \in Channels : free.chan[d].id # id
    BY <1>2, <1>5, FoundIs DEF Sound
  <2>4. Allowed(free, id, f)
    BY <2>2, <2>3, KindsAssumption DEF Allowed
  <2>5. c \in Channels /\ v[c] = 0
    BY <1>0, <1>2, UnbornIs
  <2> HIDE DEF free, v
  <2>6. /\ a.holds[h] = c
        /\ MInv(AddUse(a, c)) /\ AddUse(a, c).holds = Put(s.holds, h, c) /\ AddUse(a, c).cached = c
        /\ AddUse(a, c).chan[c].id = id /\ AddUse(a, c).chan[c].fe = f
        /\ \A d \in Channels \ {c} : Same(free, AddUse(a, c), d)
    BY <1>2, <2>1, <2>2, <2>4, TunedKeeps
  <2> HIDE DEF t
  <2>7. t = AddUse(a, c)
    BY <2>6 DEF t
  <2> HIDE DEF c
  <2>8. /\ MInv(t) /\ t.holds = Put(s.holds, h, c) /\ t.cached = c
        /\ t.chan[c].id = id /\ t.chan[c].fe = f /\ \A d \in Channels \ {c} : Same(free, t, d)
    BY <2>6, <2>7
  <2>9. ASSUME NEW d \in Channels, d # c, Owed(t.holds, t.cached)[d] > 0 PROVE Same(s, t, d)
    <3>1. \E u \in Users : Put(s.holds, h, c)[u] = d
      BY <2>8, <2>9, OwedSomebody
    <3>2. \E u \in Users : s.holds[u] = d
      <4>1. PICK u \in Users : Put(s.holds, h, c)[u] = d
        BY <3>1
      <4>2. s.holds[u] = d
        BY <1>0, <1>1, <2>5, <2>9, <4>1, PutOthers
      <4> QED BY <4>2
    <3>3. v[d] > 0
      BY <3>2, OwedSomebody DEF v
    <3> QED BY <1>2, <2>8, <2>9, <3>3 DEF Same
  <2>10. Kept(s, t, c)
    BY <2>9 DEF Kept
  <2>11. ASSUME NEW d \in Channels, s.chan[d].id = id PROVE FALSE
    <3>1. w[d] > 0 /\ s.cached # d
      BY <1>1, <1>5, <2>11, UsedIs, KindsAssumption DEF Caches
    <3>2. v[d] > 0
      BY <3>1, OwedSomebody DEF v
    <3> QED BY <1>2, <2>3, <2>11, <3>2 DEF Same
  <2>12. Taken(s, t, h, id)
    BY <2>2, <2>5, <2>8, <2>10, <2>11 DEF Taken, free, v
  <2> QED BY <2>8, <2>12 DEF t
<1> QED BY <1>3, <1>4, <1>5

\* What was in use without the cache is what it was, but for the user's new channel.
LEMMA NewKept ==
  ASSUME NEW s, MInv(s), NEW u \in Users, NEW c \in Channels, NEW t,
         t.holds = Put(s.holds, u, c), t.cached = None,
         \A d \in Channels \ {c} : Same(DropCache(s), t, d)
  PROVE  Kept(s, t, c)
<1>1. ASSUME NEW d \in Channels, d # c, Owed(t.holds, t.cached)[d] > 0 PROVE Same(s, t, d)
  <2>1. \E v \in Users : Put(s.holds, u, c)[v] = d
    BY <1>1, OwedSomebody, KindsAssumption
  <2>2. PICK v \in Users : Put(s.holds, u, c)[v] = d
    BY <2>1
  <2>3. s.holds[v] = d
    BY <1>1, <2>2, Fields, PutOthers
  <2>4. Owed(s.holds, None)[d] > 0
    BY <2>3, OwedSomebody
  <2>5. Same(s, DropCache(s), d)
    BY <2>4, Freed
  <2> QED BY <1>1, <2>5 DEF Same
<1> QED BY <1>1 DEF Kept

\* A file or a stream: the new channel has no tuner.
Played(s, t, h) ==
  \E c \in Channels : /\ t.holds = Put(s.holds, h, c) /\ Owed(s.holds, None)[c] = 0
                      /\ t.chan[c].id \notin Ids /\ t.chan[c].fe = None
                      /\ Kept(s, t, c)

LEMMA PlayKeeps ==
  ASSUME NEW s, MInv(s), NEW h \in Handlers, s.holds[h] = None, NEW id \in StreamIds \cup {None}
  PROVE  \A free \in {s, DropCache(s)} :
           LET c == Unborn(free)
               t == AddUse(Hold(Create(free, c, id, None, "idle"), h, c), c)
           IN  MInv(t) /\ Played(s, t, h)
<1> DEFINE kept(free) == AddUse(Hold(Create(free, Unborn(free), id, None, "idle"), h, Unborn(free)), Unborn(free))
<1>0. h \in Users /\ id \notin Ids
  BY KindsAssumption DEF Users
<1>1. MInv(kept(s)) /\ Played(s, kept(s), h)
  <2> DEFINE t == kept(s)
             c == Unborn(s)
  <2>1. /\ MInv(t) /\ t.holds = Put(s.holds, h, c) /\ t.cached = s.cached
        /\ t.chan[c].id = id /\ t.chan[c].fe = None /\ c \in Channels
        /\ Owed(s.holds, s.cached)[c] = 0
        /\ \A d \in Channels \ {c} : Same(s, t, d)
    BY PlayedKeeps
  <2> HIDE DEF t, c
  <2>2. Owed(s.holds, None)[c] = 0
    BY <2>1, OwedSomebody, KindsAssumption
  <2>3. Kept(s, t, c)
    BY <2>1 DEF Kept
  <2>4. Played(s, t, h)
    BY <1>0, <2>1, <2>2, <2>3 DEF Played
  <2> QED BY <2>1, <2>4 DEF t
<1>2. MInv(kept(DropCache(s))) /\ Played(s, kept(DropCache(s)), h)
  <2> DEFINE free == DropCache(s)
             t == kept(free)
             c == Unborn(free)
  <2>1. MInv(free) /\ free.cached = None /\ free.holds = s.holds
    BY Freed
  <2> HIDE DEF free
  <2>2. /\ MInv(t) /\ t.holds = Put(s.holds, h, c) /\ t.cached = None
        /\ t.chan[c].id = id /\ t.chan[c].fe = None /\ c \in Channels
        /\ Owed(s.holds, None)[c] = 0
        /\ \A d \in Channels \ {c} : Same(free, t, d)
    BY <2>1, PlayedKeeps
  <2> HIDE DEF t, c
  <2>3. Kept(s, t, c)
    BY <1>0, <2>2, NewKept DEF free
  <2>4. Played(s, t, h)
    BY <1>0, <2>2, <2>3 DEF Played
  <2> QED BY <2>2, <2>4 DEF t, free
<1> QED BY <1>1, <1>2

\* A scan or a frontend opened by its index: the channel is raw.
RawTaken(s, t, r, f) ==
  \E c \in Channels : /\ DropCache(s).inuse[f] = 0 /\ Owed(s.holds, None)[c] = 0
                      /\ t.holds = Put(s.holds, r, c) /\ t.chan[c].fe = f
                      /\ Kept(s, t, c)

LEMMA AllocateRawKeeps ==
  ASSUME NEW s, MInv(s), NEW r \in RawUsers, s.holds[r] = None, NEW f \in Frontends
  PROVE  LET free == DropCache(s)
             c == Unborn(free)
             raw == Hold(Create(free, c, None, f, "idle"), r, c)
         IN  /\ MInv(free) /\ Refused(s, free)
             /\ ~(free.inuse[f] > 0) =>
                  \A t \in {raw, ReleaseUse(AddUse(raw, c), c)} : MInv(t) /\ RawTaken(s, t, r, f)
<1> DEFINE free == DropCache(s)
           c == Unborn(free)
           raw == Hold(Create(free, c, None, f, "idle"), r, c)
<1>0. r \in Users
  BY DEF Users
<1>1. /\ MInv(free) /\ free.cached = None /\ free.holds = s.holds
      /\ \A d \in Channels : Owed(s.holds, None)[d] > 0 => Same(s, free, d)
  BY Freed
<1>2. Refused(s, free)
  BY <1>1 DEF Refused, Kept
<1>3. ASSUME ~(free.inuse[f] > 0), NEW t, t \in {raw, ReleaseUse(AddUse(raw, c), c)}
      PROVE  MInv(t) /\ RawTaken(s, t, r, f)
  <2>1. free.inuse[f] = 0
    <3>1. free \in State
      BY <1>1, Fields
    <3>2. free.inuse[f] \in Nat
      BY <3>1, StateFields
    <3> QED BY <1>3, <3>2
  <2> HIDE DEF free
  <2>2. /\ c \in Channels /\ Owed(s.holds, None)[c] = 0
        /\ MInv(t) /\ t.holds = Put(s.holds, r, c) /\ t.cached = None
        /\ t.chan[c].id = None /\ t.chan[c].fe = f
        /\ \A d \in Channels \ {c} : Same(free, t, d)
    BY <1>1, <1>3, <2>1, RawKeeps
  <2> HIDE DEF c
  <2>3. Kept(s, t, c)
    BY <1>0, <2>2, NewKept DEF free
  <2>4. RawTaken(s, t, r, f)
    BY <2>1, <2>2, <2>3 DEF RawTaken, free
  <2> QED BY <2>2, <2>4
<1> QED BY <1>1, <1>2, <1>3

-----------------------------------------------------------------------------
(* The specification *)

LEMMA Start == Init => MInv(Manager)
<1> SUFFICES ASSUME Init PROVE MInv(Manager)
  OBVIOUS
<1> DEFINE s == Manager
           w == Owed(holds, cached)
<1>1. /\ s.chan = [c \in Channels |-> Dead] /\ s.active = <<>> /\ s.inuse = [f \in Frontends |-> 0]
      /\ s.cached = None /\ s.conn = None /\ s.timer = FALSE
      /\ s.holds = [u \in Users |-> None] /\ s.fstate = [f \in Frontends |-> "idle"]
      /\ s = [chan |-> s.chan, active |-> s.active, inuse |-> s.inuse, cached |-> s.cached,
              conn |-> s.conn, timer |-> s.timer, holds |-> s.holds, fstate |-> s.fstate]
  BY DEF Init, Manager, Users
<1>2. w = Owed(s.holds, s.cached)
  BY DEF Manager
<1> HIDE DEF s, w
<1>3. s \in State
  <2>1. s.chan \in [Channels -> Channel] /\ s.active \in Seq(Channels)
    BY <1>1, DeadChannel
  <2>2. s.inuse \in [Frontends -> Nat] /\ s.holds \in [Users -> Channels \cup {None}]
    BY <1>1
  <2>3. s.fstate \in [Frontends -> FrontendStates]
    BY <1>1 DEF FrontendStates
  <2>4. /\ s.cached \in Channels \cup {None} /\ s.conn \in Channels \cup {None}
        /\ s.timer \in BOOLEAN
    BY <1>1
  <2> QED BY ONLY <1>1, <2>1, <2>2, <2>3, <2>4 DEF State
<1>4. w \in Counts /\ \A c \in Channels : w[c] = 0
  BY <1>1, <1>2, OwedType, OwedSomebody, KindsAssumption
<1>5. Counted(s, w)
  BY <1>1, <1>4, DeadChannel DEF Counted
<1>6. Owned(s)
  BY <1>1, DeadChannel, KindsAssumption DEF Owned
<1>7. Listed(s)
  BY <1>1, DeadChannel DEF Listed
<1>8. Named(s)
  BY <1>1, DeadChannel, KindsAssumption DEF Named
<1>9. Sound(s, w)
  BY <1>3, <1>4, <1>5, <1>6, <1>7, <1>8 DEF Sound
<1> QED BY <1>1, <1>2, <1>9 DEF MInv, Proper, s, Users

\* What a step does, as the users see it.
Effect(s, t) ==
  \/ \E h \in Handlers, id \in Ids : s.holds[h] = None /\ (Shared(s, t, h, id) \/ Taken(s, t, h, id))
  \/ \E h \in Handlers : s.holds[h] = None /\ Played(s, t, h)
  \/ \E r \in RawUsers, f \in Frontends : s.holds[r] = None /\ RawTaken(s, t, r, f)
  \/ \E u \in Users : /\ s.holds[u] # None /\ t.holds = Put(s.holds, u, None) /\ Kept(s, t, None)
                      /\ u \in RawUsers => \A d \in Channels \ {s.holds[u]} : Same(s, t, d)
  \/ Refused(s, t)

LEMMA StepKeeps ==
  ASSUME MInv(Manager), [Next]_vars
  PROVE  MInv(Manager') /\ Effect(Manager, Manager')
<1> DEFINE s == Manager
<1>0. /\ s.chan = chan /\ s.active = active /\ s.inuse = inuse /\ s.cached = cached
      /\ s.timer = timer /\ s.holds = holds /\ s.fstate = fstate
  BY DEF Manager
<1>1. \A t : MInv(t) /\ Become(t) => Manager' = t
  BY Fields, Becomes
<1> HIDE DEF s
<1>2. ASSUME NEW h \in Handlers, NEW id \in Ids, Tune(h, id)
      PROVE  MInv(s') /\ Effect(s, s')
  <2>1. s.holds[h] = None
    BY <1>0, <1>2 DEF Tune
  <2>2. CASE \E a \in Allocations(s, h, id) : Become(AddUse(a, a.holds[h]))
    <3>1. PICK a \in Allocations(s, h, id) : Become(AddUse(a, a.holds[h]))
      BY <2>2
    <3> DEFINE t == AddUse(a, a.holds[h])
    <3>2. MInv(t) /\ (Shared(s, t, h, id) \/ Taken(s, t, h, id))
      BY <2>1, TuneKeeps, MInv(s) DEF s
    <3> HIDE DEF t
    <3>3. s' = t
      BY <1>1, <3>1, <3>2 DEF s, t
    <3> QED BY <2>1, <3>2, <3>3 DEF Effect
  <2>3. CASE Become(DropCache(s))
    <3> DEFINE t == DropCache(s)
    <3>1. MInv(t) /\ Refused(s, t)
      BY Freed DEF s, Refused, Kept
    <3> HIDE DEF t
    <3>2. s' = t
      BY <1>1, <2>3, <3>1 DEF s, t
    <3> QED BY <3>1, <3>2 DEF Effect
  <2> QED BY <1>2, <2>2, <2>3 DEF Tune, s
<1>3. ASSUME NEW h \in Handlers, NEW id \in StreamIds \cup {None}, Play(h, id)
      PROVE  MInv(s') /\ Effect(s, s')
  <2> DEFINE free == IF timer THEN DropCache(s) ELSE s
             c == Unborn(free)
             t == AddUse(Hold(Create(free, c, id, None, "idle"), h, c), c)
  <2>1. s.holds[h] = None /\ Become(t)
    BY <1>0, <1>3 DEF Play, s
  <2>2. free \in {s, DropCache(s)}
    OBVIOUS
  <2> HIDE DEF free
  <2>3. MInv(t) /\ Played(s, t, h)
    BY <2>1, <2>2, PlayKeeps DEF s
  <2> HIDE DEF t
  <2>4. s' = t
    BY <1>1, <2>1, <2>3 DEF s
  <2> QED BY <2>1, <2>3, <2>4 DEF Effect
<1>4. ASSUME NEW h \in Handlers, Free(h)
      PROVE  MInv(s') /\ Effect(s, s')
  <2> DEFINE t == Left(s, h)
  <2>1. s.holds[h] # None /\ Become(t) /\ h \in Users /\ h \notin RawUsers
    BY <1>0, <1>4, KindsAssumption DEF Free, s, Users
  <2>2. MInv(t) /\ t.holds = Put(s.holds, h, None) /\ Kept(s, t, None)
    BY <2>1, LeftKeeps DEF s
  <2> HIDE DEF t
  <2>3. s' = t
    BY <1>1, <2>1, <2>2 DEF s
  <2> QED BY <2>1, <2>2, <2>3 DEF Effect
<1>5. ASSUME NEW r \in RawUsers, FreeRaw(r)
      PROVE  MInv(s') /\ Effect(s, s')
  <2> DEFINE t == [ReleaseUse(s, s.holds[r]) EXCEPT !.holds[r] = None]
  <2>1. s.holds[r] # None /\ Become(t) /\ r \in Users
    BY <1>0, <1>5 DEF FreeRaw, s, Users
  <2>2. /\ MInv(t) /\ t.holds = Put(s.holds, r, None) /\ Kept(s, t, None)
        /\ \A d \in Channels \ {s.holds[r]} : Same(s, t, d)
    BY <2>1, RawLeftKeeps DEF s
  <2> HIDE DEF t
  <2>3. s' = t
    BY <1>1, <2>1, <2>2 DEF s
  <2> QED BY <2>1, <2>2, <2>3 DEF Effect
<1>6. ASSUME NEW r \in RawUsers, NEW f \in Frontends, AllocateRaw(r, f)
      PROVE  MInv(s') /\ Effect(s, s')
  <2> DEFINE free == DropCache(s)
             c == Unborn(free)
             raw == Hold(Create(free, c, None, f, "idle"), r, c)
             busy == free.inuse[f] > 0 \/ \E g \in Frontends : <<f, g>> \in Linked /\ free.inuse[g] > 0
  <2>1. s.holds[r] = None
    BY <1>0, <1>6 DEF AllocateRaw
  <2>2. PICK t \in IF busy THEN {free} ELSE {raw, ReleaseUse(AddUse(raw, c), c)} : Become(t)
    BY <1>6 DEF AllocateRaw, s
  <2>3. /\ MInv(free) /\ Refused(s, free)
        /\ ~(free.inuse[f] > 0) =>
             \A x \in {raw, ReleaseUse(AddUse(raw, c), c)} : MInv(x) /\ RawTaken(s, x, r, f)
    BY <2>1, AllocateRawKeeps DEF s
  <2> HIDE DEF free, raw, c
  <2>4. MInv(t) /\ (Refused(s, t) \/ RawTaken(s, t, r, f))
    BY <2>2, <2>3
  <2>5. s' = t
    BY <1>1, <2>2, <2>4 DEF s
  <2> QED BY <2>1, <2>4, <2>5 DEF Effect
<1>7. ASSUME ReleaseCachedChannel
      PROVE  MInv(s') /\ Effect(s, s')
  <2> DEFINE a == [s EXCEPT !.timer = FALSE]
             t == IF s.cached = None THEN a ELSE [ReleaseUse(a, s.cached) EXCEPT !.cached = None]
  <2>1. Become(t)
    BY <1>0, <1>7 DEF ReleaseCachedChannel, s
  <2>2. MInv(t) /\ t.holds = s.holds /\ Kept(s, t, None)
    BY CacheReleasedKeeps DEF s
  <2> HIDE DEF t
  <2>3. s' = t
    BY <1>1, <2>1, <2>2 DEF s
  <2> QED BY <2>2, <2>3 DEF Effect, Refused
<1>8. ASSUME NEW f \in Frontends, FrontendEvent(f)
      PROVE  MInv(s') /\ Effect(s, s')
  <2>1. PICK c \in Channels, new \in FrontendStates \ {"idle", fstate[f]} :
          /\ chan[c].live
          /\ \E then \in {new} \cup (IF chan[c].id # None /\ new \in {"lost", "failed"}
                                    THEN {"tuning"} ELSE {}) :
               LET a == [s EXCEPT !.fstate[f] = then]
               IN  Become(IF OurState(c, new) = chan[c].state THEN a
                          ELSE StateChanged(a, c, OurState(c, new)))
    BY <1>8 DEF FrontendEvent, s
  <2>2. PICK then \in {new} \cup {"tuning"} :
          LET a == [s EXCEPT !.fstate[f] = then]
          IN  Become(IF OurState(c, new) = chan[c].state THEN a
                     ELSE StateChanged(a, c, OurState(c, new)))
    BY <2>1
  <2>3. then \in FrontendStates /\ OurState(c, new) \in States
    BY DEF FrontendStates, States, OurState
  <2> DEFINE a == Turned(s, f, then)
             state == OurState(c, new)
             b == StateChanged(a, c, state)
  <2>4. PICK t \in {a, b} : Become(t)
    BY <2>2 DEF Turned
  <2>5. s.chan[c].live
    BY <1>0, <2>1
  <2>6. MInv(t) /\ t.holds = s.holds /\ t.cached = s.cached /\ \A d \in Channels : Same(s, t, d)
    <3>1. MInv(s)
      BY DEF s
    <3>3. state \in States
      BY <2>3
    <3> HIDE DEF state
    <3>2. \A x \in {a, b} : MInv(x) /\ x.holds = s.holds /\ x.cached = s.cached
                            /\ \A d \in Channels : Same(s, x, d)
      BY <2>3, <2>5, <3>1, <3>3, EventKeeps
    <3> HIDE DEF a, b
    <3> QED BY <2>4, <3>2
  <2> HIDE DEF a, b
  <2>7. s' = t
    BY <1>1, <2>4, <2>6 DEF s
  <2> QED BY <2>6, <2>7 DEF Effect, Refused, Kept
<1>9. CASE UNCHANGED vars
  <2>1. s' = s
    BY <1>9 DEF vars, s, Manager
  <2> QED BY <2>1 DEF s, Effect, Refused, Kept, Same
<1> QED BY <1>2, <1>3, <1>4, <1>5, <1>6, <1>7, <1>8, <1>9 DEF Next, s

\* The invariant: every use is counted, and the channels are sound.
LEMMA Kernel == Spec => []MInv(Manager)
<1>1. MInv(Manager) /\ [Next]_vars => MInv(Manager)'
  BY StepKeeps
<1> QED BY <1>1, Start, PTL DEF Spec

\* ChannelTypes: channels, their uses and their states keep their types (dvb.cpp, eDVBChannel
\* and eDVBResourceManager).
THEOREM ChannelTypes == Spec => []TypeOK
<1>1. MInv(Manager) => TypeOK
  <2>1. MInv(Manager) => Manager \in State
    BY Fields
  <2>2. Manager \in State => TypeOK
    BY DEF State, Manager, TypeOK, Users
  <2> QED BY <2>1, <2>2
<1> QED BY <1>1, Kernel, PTL

LEMMA OwnersCounted ==
  ASSUME NEW s, NEW w, Sound(s, w), NEW f \in Frontends
  PROVE  /\ s.inuse[f] \in {0, 1}
         /\ s.inuse[f] = Cardinality({c \in Channels : s.chan[c].fe = f})
<1> DEFINE owners == {c \in Channels : s.chan[c].fe = f}
<1>1. CASE s.inuse[f] = 0 /\ \A c \in Channels : s.chan[c].fe # f
  <2>1. owners = {}
    BY <1>1
  <2> HIDE DEF owners
  <2>2. Cardinality(owners) = 0
    BY <2>1, FS_EmptySet
  <2> QED BY <1>1, <2>2 DEF owners
<1>2. CASE s.inuse[f] = 1 /\ \E c \in Channels : s.chan[c].fe = f /\ \A d \in Channels \ {c} : s.chan[d].fe # f
  <2>1. PICK c \in Channels : s.chan[c].fe = f /\ \A d \in Channels \ {c} : s.chan[d].fe # f
    BY <1>2
  <2>2. owners = {c}
    BY <2>1
  <2> HIDE DEF owners
  <2>3. Cardinality(owners) = 1
    BY <2>2, FS_Singleton
  <2> QED BY <1>2, <2>3 DEF owners
<1> QED BY <1>1, <1>2 DEF Sound, Owned

\* UsesAreCountedAlways: a channel has the uses its handlers, raw users and the cache hold,
\* lives as long as it has one, and a tuner is in use by one channel or by none
\* (ReleaseUse, eDVBAllocatedFrontend).
THEOREM UsesAreCountedAlways == Spec => []UsesAreCounted
<1>1. ASSUME MInv(Manager) PROVE UsesAreCounted
  <2> DEFINE s == Manager
             w == Owed(s.holds, s.cached)
  <2>0. s.chan = chan /\ s.inuse = inuse /\ s.cached = cached /\ s.holds = holds
    BY DEF Manager
  <2>1. Sound(s, w)
    BY <1>1 DEF MInv
  <2>2. \A c \in Channels :
          w[c] = 2 * Cardinality({h \in Handlers : holds[h] = c})
                   + Cardinality({r \in RawUsers : holds[r] = c}) + (IF cached = c THEN 1 ELSE 0)
    BY <2>0 DEF Owed, Holders
  <2> HIDE DEF s, w
  <2>3. ASSUME NEW c \in Channels PROVE chan[c].uses = w[c] /\ (chan[c].live <=> w[c] > 0)
    BY <2>0, <2>1, DeadChannel DEF Sound, Counted, Counts
  <2>4. ASSUME NEW f \in Frontends
        PROVE  inuse[f] <= 1 /\ inuse[f] = Cardinality({c \in Channels : chan[c].fe = f})
    <3>1. inuse[f] \in {0, 1} /\ inuse[f] = Cardinality({c \in Channels : chan[c].fe = f})
      BY <2>0, <2>1, OwnersCounted
    <3> QED BY <3>1
  <2> QED BY <2>2, <2>3, <2>4 DEF UsesAreCounted
<1> QED BY <1>1, Kernel, PTL

-----------------------------------------------------------------------------
(* canAllocateChannel *)

\* What goes when h leaves and the cache is dropped: its channel, if nobody shares it, and
\* the cached one, if nobody uses it.
Remain(s, h) == Owed(Put(s.holds, h, None), None)

LEMMA Remains ==
  ASSUME NEW s, MInv(s), NEW h \in Handlers, s.holds[h] # None
  PROVE  LET l == Left(s, h)
             free == DropCache(l)
             v == Remain(s, h)
         IN  /\ MInv(l) /\ l.cached = s.cached
             /\ s.cached # None => l.chan[s.cached].id = s.chan[s.cached].id
             /\ Sound(free, v) /\ \A d \in Channels : v[d] > 0 => Same(s, free, d)
<1> DEFINE l == Left(s, h)
           free == DropCache(l)
           v == Remain(s, h)
           wl == Owed(l.holds, l.cached)
<1>1. MInv(l) /\ l.holds = Put(s.holds, h, None) /\ l.cached = s.cached /\ Kept(s, l, None)
  BY LeftKeeps
<1> HIDE DEF l
<1>2. Sound(free, v) /\ \A d \in Channels : v[d] > 0 => Same(l, free, d)
  BY <1>1, Freed DEF Remain
<1> HIDE DEF free
<1>3. \A d \in Channels : wl[d] > 0 => Same(s, l, d)
  BY <1>1, KindsAssumption DEF Kept
<1>4. \A d \in Channels : v[d] > 0 => wl[d] > 0
  BY <1>1, OwedSomebody, KindsAssumption DEF Remain
<1>5. \A d \in Channels : v[d] > 0 => Same(s, free, d)
  BY <1>2, <1>3, <1>4 DEF Same
<1>6. s.cached # None => l.chan[s.cached].id = s.chan[s.cached].id
  <2>1. SUFFICES ASSUME s.cached # None PROVE l.chan[s.cached].id = s.chan[s.cached].id
    OBVIOUS
  <2>2. s.cached \in Channels
    BY <2>1, Fields
  <2>3. wl[s.cached] > 0
    BY <1>1, <2>2, OwedSomebody
  <2> QED BY <1>3, <2>2, <2>3 DEF Same
<1> QED BY <1>1, <1>2, <1>5, <1>6 DEF l, free, v

\* canAllocateChannel counts them as given back.
LEMMA GivenBack ==
  ASSUME NEW s, MInv(s), NEW h \in Handlers, s.holds[h] # None, NEW f \in Frontends
  PROVE  LET leaving == {c \in Found(s, s.chan[s.holds[h]].id) : UsedOnce(s, c)}
             idle == IF s.cached # None /\ s.cached \notin leaving /\ s.chan[s.cached].uses = 1
                     THEN {s.cached} ELSE {}
         IN  {c \in leaving \cup idle : s.chan[c].fe = f}
               = {c \in Channels : s.chan[c].fe = f /\ Remain(s, h)[c] = 0}
<1> DEFINE w == Owed(s.holds, s.cached)
           v == Remain(s, h)
           x == s.holds[h]
           ignore == s.chan[x].id
           leaving == {c \in Found(s, ignore) : UsedOnce(s, c)}
           idle == IF s.cached # None /\ s.cached \notin leaving /\ s.chan[s.cached].uses = 1
                   THEN {s.cached} ELSE {}
<1>0. h \in Users /\ Worth(h) = 2
  BY DEF Users, Worth
<1>1. /\ s \in State /\ Sound(s, w) /\ w \in Counts /\ s.holds \in HoldMap /\ x \in Channels
      /\ s.cached \in Channels \cup {None}
  BY <1>0, Fields
<1>2. \A c \in Channels : s.chan[c].uses = w[c] /\ w[c] \in Nat
  BY <1>1 DEF Sound, Counted, Counts
<1>3. v \in Counts /\ \A c \in Channels : v[c] \in Nat
  BY OwedType DEF Remain, Counts
<1>4. ASSUME NEW c \in Channels
      PROVE  w[c] = v[c] + (IF c = x THEN 2 ELSE 0) + (IF c = s.cached THEN 1 ELSE 0)
  <2> DEFINE m == Owed(s.holds, None)
  <2>1. v = [m EXCEPT ![x] = @ - 2] /\ m[x] >= 2
    BY <1>0, <1>1, OwedGiven DEF Remain
  <2>2. m \in Counts
    BY OwedType
  <2>3. s.cached # None => w = [m EXCEPT ![s.cached] = @ + 1]
    BY <1>1, OwedCached
  <2>4. s.cached = None => w = m
    OBVIOUS
  <2> HIDE DEF m, w, v, x
  <2>5. v[c] = IF c = x THEN m[c] - 2 ELSE m[c]
    BY <1>1, <2>1, <2>2 DEF Counts
  <2>6. w[c] = IF c = s.cached THEN m[c] + 1 ELSE m[c]
    <3>1. CASE s.cached = None
      BY <2>4, <3>1, KindsAssumption
    <3>2. CASE s.cached # None
      BY <1>1, <2>2, <2>3, <3>2 DEF Counts
    <3> QED BY <3>1, <3>2
  <2>7. m[c] \in Nat
    BY <2>2 DEF Counts
  <2> QED BY <2>5, <2>6, <2>7
<1>5. \A c \in Found(s, ignore) : c \in Channels /\ s.chan[c].id = ignore /\ ignore # None
  BY <1>1, FoundHave DEF Sound
<1>6. ignore \in Ids => Found(s, ignore) = {x}
  <2>1. ignore \in Ids => Found(s, ignore) = {c \in Channels : s.chan[c].id = ignore}
    BY <1>1, FoundIs DEF Sound
  <2> QED BY <1>1, <2>1 DEF Sound, Named
<1>7. UsedOnce(s, x) <=> v[x] = 0
  BY <1>1, <1>2, <1>3, <1>4 DEF UsedOnce
<1>8. ignore \in Ids \/ s.chan[x].fe = None
  BY <1>0 DEF MInv, Proper
<1>9. s.cached # None => s.chan[s.cached].id \in Ids
  BY DEF MInv
<1>10. ASSUME NEW c \in leaving \cup idle, s.chan[c].fe = f PROVE c \in Channels /\ v[c] = 0
  <2>1. CASE c \in leaving
    <3>1. c \in Channels /\ s.chan[c].id = ignore /\ ignore # None
      BY <1>5, <2>1
    <3>2. ignore \in Ids
      BY <1>1, <1>8, <1>10, <3>1, KindsAssumption DEF Sound, Named, State, Channel
    <3> QED BY <1>6, <1>7, <2>1, <3>1, <3>2
  <2>2. CASE c \in idle
    <3>1. c = s.cached /\ c \in Channels /\ w[c] = 1
      BY <1>1, <1>2, <2>2
    <3> HIDE DEF w, v, x
    <3> QED BY <1>3, <1>4, <3>1
  <2> QED BY <1>10, <2>1, <2>2
<1>11. ASSUME NEW c \in Channels, s.chan[c].fe = f, v[c] = 0 PROVE c \in leaving \cup idle
  <2>1. w[c] > 0
    BY <1>1, <1>11, UsedIs, KindsAssumption
  <2>2. c = x \/ c = s.cached
    BY <1>4, <1>11, <2>1
  <2>3. ASSUME c = x PROVE c \in leaving
    <3>1. ignore \in Ids
      BY <1>8, <1>11, <2>3, KindsAssumption
    <3> QED BY <1>6, <1>7, <1>11, <2>3, <3>1
  <2>4. CASE c # x
    <3>1. c = s.cached /\ w[c] = 1 /\ c # None
      BY <1>4, <1>11, <2>2, <2>4, KindsAssumption
    <3>2. c \notin leaving
      BY <1>1, <1>5, <1>6, <1>9, <2>4, <3>1
    <3> QED BY <1>2, <3>1, <3>2
  <2> QED BY <2>3, <2>4
<1> HIDE DEF leaving, idle, v
<1>12. {c \in leaving \cup idle : s.chan[c].fe = f} = {c \in Channels : s.chan[c].fe = f /\ v[c] = 0}
  BY <1>10, <1>11
<1> QED BY <1>12 DEF leaving, idle, v, ignore, x

LEMMA GivenIsFree ==
  ASSUME NEW s, MInv(s), NEW h \in Handlers, s.holds[h] # None, NEW f \in Frontends
  PROVE  s.inuse[f] - Cardinality({c \in Channels : s.chan[c].fe = f /\ Remain(s, h)[c] = 0}) = 0
           <=> DropCache(Left(s, h)).inuse[f] = 0
<1> DEFINE v == Remain(s, h)
           free == DropCache(Left(s, h))
           back == {c \in Channels : s.chan[c].fe = f /\ v[c] = 0}
<1>1. Sound(s, Owed(s.holds, s.cached))
  BY Fields
<1>2. Sound(free, v) /\ \A d \in Channels : v[d] > 0 => Same(s, free, d)
  BY Remains
<1> HIDE DEF v, free
<1>3. \A d \in Channels : v[d] \in Nat
  BY <1>2 DEF Sound, Counts
<1>4. ASSUME NEW d \in Channels, free.chan[d].fe = f PROVE v[d] > 0 /\ s.chan[d].fe = f
  <2>1. v[d] > 0
    BY <1>2, <1>4, UsedIs, KindsAssumption
  <2> QED BY <1>2, <1>4, <2>1 DEF Same
<1>5. CASE s.inuse[f] = 0 /\ \A c \in Channels : s.chan[c].fe # f
  <2>1. back = {}
    BY <1>5
  <2> HIDE DEF back
  <2>2. Cardinality(back) = 0
    BY <2>1, FS_EmptySet
  <2>3. free.inuse[f] = 0
    BY <1>2, <1>4, <1>5 DEF Sound, Owned
  <2>4. s.inuse[f] - Cardinality(back) = 0
    BY <1>5, <2>2
  <2> QED BY <2>3, <2>4 DEF back, free, v
<1>6. CASE s.inuse[f] = 1 /\ \E c \in Channels : s.chan[c].fe = f /\ \A d \in Channels \ {c} : s.chan[d].fe # f
  <2>1. PICK c \in Channels : s.chan[c].fe = f /\ \A d \in Channels \ {c} : s.chan[d].fe # f
    BY <1>6
  <2>2. CASE v[c] = 0
    <3>1. back = {c}
      BY <2>1, <2>2
    <3> HIDE DEF back
    <3>2. Cardinality(back) = 1
      BY <3>1, FS_Singleton
    <3>3. \A d \in Channels : free.chan[d].fe # f
      BY <1>3, <1>4, <2>1, <2>2
    <3>4. free.inuse[f] = 0
      BY <1>2, <3>3 DEF Sound, Owned
    <3>5. s.inuse[f] - Cardinality(back) = 0
      BY <1>6, <3>2
    <3> QED BY <3>4, <3>5 DEF back, free, v
  <2>3. CASE v[c] > 0
    <3>1. back = {}
      BY <1>3, <2>1, <2>3
    <3> HIDE DEF back
    <3>2. Cardinality(back) = 0
      BY <3>1, FS_EmptySet
    <3>3. free.chan[c].fe = f
      BY <1>2, <2>1, <2>3 DEF Same
    <3>4. free.inuse[f] = 1
      BY <1>2, <3>3 DEF Sound, Owned
    <3>5. s.inuse[f] - Cardinality(back) = 1
      BY <1>6, <3>2
    <3> QED BY <3>4, <3>5 DEF back, free, v
  <2> QED BY <1>3, <2>2, <2>3
<1> QED BY <1>1, <1>5, <1>6 DEF Sound, Owned

LEMMA AllocatableIs ==
  ASSUME NEW s, MInv(s), NEW h \in Handlers, s.holds[h] # None, NEW id \in Ids
  PROVE  CanAllocate(s, id, s.chan[s.holds[h]].id) <=> Succeeds(Left(s, h), h, id)
<1> DEFINE l == Left(s, h)
           free == DropCache(l)
           v == Remain(s, h)
           ignore == s.chan[s.holds[h]].id
           leaving == {c \in Found(s, ignore) : UsedOnce(s, c)}
           idle == IF s.cached # None /\ s.cached \notin leaving /\ s.chan[s.cached].uses = 1
                   THEN {s.cached} ELSE {}
           given == [f \in Frontends |->
                       s.inuse[f] - Cardinality({c \in leaving \cup idle : s.chan[c].fe = f})]
<1>1. /\ MInv(l) /\ l.cached = s.cached
      /\ s.cached # None => l.chan[s.cached].id = s.chan[s.cached].id
      /\ Sound(free, v) /\ \A d \in Channels : v[d] > 0 => Same(s, free, d)
  BY Remains
<1>2. Sound(s, Owed(s.holds, s.cached))
  BY Fields
<1>3. Caches(l, id) <=> Caches(s, id)
  BY <1>1 DEF Caches
<1>4. Succeeds(l, h, id) <=> \/ Caches(l, id) \/ Found(free, id) # {}
                             \/ FreeFrontends(free.inuse, id) # {}
  <2>1. CASE Caches(l, id)
    BY <2>1 DEF Succeeds, Allocations
  <2>2. CASE ~Caches(l, id) /\ Found(free, id) # {}
    <3>1. Allocations(l, h, id) = {Hold(free, h, x) : x \in Found(free, id)}
      BY <2>2 DEF Allocations
    <3> HIDE DEF free
    <3> QED BY <2>2, <3>1 DEF Succeeds
  <2>3. CASE ~Caches(l, id) /\ Found(free, id) = {}
    <3>1. Allocations(l, h, id) = {Allotted(free, h, id, f) : f \in FreeFrontends(free.inuse, id)}
      BY <2>3, AllocationsAre
    <3> HIDE DEF free
    <3> QED BY <2>3, <3>1 DEF Succeeds
  <2> QED BY <2>1, <2>2, <2>3
<1>5. CanAllocate(s, id, ignore) <=> \/ Caches(s, id) \/ Found(s, id) # {}
                                     \/ FreeFrontends(given, id) # {}
  BY DEF CanAllocate
<1>6. \A f \in Frontends : given[f] = 0 <=> free.inuse[f] = 0
  BY GivenBack, GivenIsFree
<1> HIDE DEF given, free, l, v
<1>7. FreeFrontends(given, id) = FreeFrontends(free.inuse, id)
  BY <1>6 DEF FreeFrontends
<1>8. Found(s, id) = {c \in Channels : s.chan[c].id = id} /\ Found(free, id) = {c \in Channels : free.chan[c].id = id}
  BY <1>1, <1>2, FoundIs DEF Sound
<1>9. ASSUME NEW d \in Channels, free.chan[d].id = id PROVE s.chan[d].id = id
  <2>1. v[d] > 0
    BY <1>1, <1>9, UsedIs, KindsAssumption
  <2> QED BY <1>1, <1>9, <2>1 DEF Same
<1>10. ASSUME NEW d \in Channels, s.chan[d].id = id
       PROVE  Found(free, id) # {} \/ FreeFrontends(free.inuse, id) # {}
  <2>1. CASE v[d] > 0
    BY <1>1, <1>8, <1>10, <2>1 DEF Same
  <2>2. CASE ~(v[d] > 0)
    <3> DEFINE f == s.chan[d].fe
    <3>1. <<id, f>> \in Tunable /\ f \in Frontends
      BY <1>2, <1>10, PairsAssumption DEF Sound, Named
    <3>2. ASSUME NEW e \in Channels, free.chan[e].fe = f PROVE FALSE
      <4>1. v[e] > 0
        BY <1>1, <3>1, <3>2, UsedIs, KindsAssumption
      <4>2. s.chan[e].fe = f
        BY <1>1, <3>2, <4>1 DEF Same
      <4>3. e = d
        BY <1>2, <3>1, <4>2 DEF Sound, Owned
      <4> QED BY <2>2, <4>1, <4>3
    <3>3. free.inuse[f] = 0
      BY <1>1, <3>1, <3>2 DEF Sound, Owned
    <3> QED BY <3>1, <3>3 DEF FreeFrontends
  <2> QED BY <2>1, <2>2
<1>11. CanAllocate(s, id, ignore) <=> Succeeds(l, h, id)
  BY <1>3, <1>4, <1>5, <1>7, <1>8, <1>9, <1>10
<1> QED BY <1>11 DEF l

\* CanAllocateIsExactAlways: canAllocateChannel says yes just when allocateChannel, called
\* after the handler has left, finds a tuner (dvb.cpp, both functions).
THEOREM CanAllocateIsExactAlways == Spec => []CanAllocateIsExact
<1>1. ASSUME MInv(Manager) PROVE CanAllocateIsExact
  <2>1. ASSUME NEW h \in Handlers, NEW id \in Ids, holds[h] # None
        PROVE  CanAllocate(Manager, id, chan[holds[h]].id) <=> Succeeds(Left(Manager, h), h, id)
    <3>1. Manager.holds = holds /\ Manager.chan = chan
      BY DEF Manager
    <3>2. CanAllocate(Manager, id, Manager.chan[Manager.holds[h]].id)
            <=> Succeeds(Left(Manager, h), h, id)
      BY <1>1, <2>1, <3>1, AllocatableIs
    <3> QED BY <3>1, <3>2
  <2> QED BY <2>1 DEF CanAllocateIsExact
<1> QED BY <1>1, Kernel, PTL

-----------------------------------------------------------------------------
(* The tuners' pool *)

\* Serves and wants of ImplementsTunerPool, of a record.
ServedBy(s, f) ==
  LET owners == {c \in Channels : s.chan[c].live /\ s.chan[c].fe = f}
      users == {r \in RawUsers : s.holds[r] \in owners}
  IN IF owners = {} THEN None
     ELSE IF users # {} THEN CHOOSE r \in users : TRUE
     ELSE s.chan[CHOOSE c \in owners : TRUE].id

WantedBy(s, h) == IF s.holds[h] # None /\ s.chan[s.holds[h]].id \in Ids
                  THEN s.chan[s.holds[h]].id ELSE None

LEMMA OneOwner ==
  ASSUME NEW s, MInv(s), NEW f \in Frontends, NEW c \in Channels, NEW d \in Channels,
         s.chan[c].fe = f, s.chan[d].fe = f
  PROVE  c = d
BY Fields DEF Sound, Owned

\* A tuner serves nobody, the raw user who holds its channel, or its channel's transponder.
LEMMA ServedIs ==
  ASSUME NEW s, MInv(s), NEW f \in Frontends
  PROVE  /\ (\A c \in Channels : s.chan[c].fe # f) => ServedBy(s, f) = None
         /\ \A c \in Channels : s.chan[c].fe = f =>
              \/ /\ ServedBy(s, f) \in Ids /\ ServedBy(s, f) = s.chan[c].id
                 /\ \A r \in RawUsers : s.holds[r] # c
              \/ ServedBy(s, f) \in RawUsers /\ s.holds[ServedBy(s, f)] = c
<1> DEFINE owners == {c \in Channels : s.chan[c].live /\ s.chan[c].fe = f}
           users == {r \in RawUsers : s.holds[r] \in owners}
           v == ServedBy(s, f)
           w == Owed(s.holds, s.cached)
<1>1. Sound(s, w) /\ w \in Counts
  BY Fields
<1>2. v = IF owners = {} THEN None
          ELSE IF users # {} THEN CHOOSE r \in users : TRUE
          ELSE s.chan[CHOOSE c \in owners : TRUE].id
  BY DEF ServedBy
<1> HIDE DEF v
<1>3. (\A c \in Channels : s.chan[c].fe # f) => v = None
  BY <1>2
<1>4. ASSUME NEW c \in Channels, s.chan[c].fe = f
      PROVE  \/ v \in Ids /\ v = s.chan[c].id /\ \A r \in RawUsers : s.holds[r] # c
             \/ v \in RawUsers /\ s.holds[v] = c
  <2>1. w[c] > 0
    BY <1>1, <1>4, UsedIs, KindsAssumption
  <2>2. s.chan[c].live
    BY <1>1, <2>1 DEF Sound, Counted
  <2>3. owners = {c}
    BY <1>4, <2>2, OneOwner
  <2>4. CASE users # {}
    <3>0. owners # {}
      BY <2>3
    <3> HIDE DEF owners
    <3>1. v = CHOOSE r \in users : TRUE
      BY <1>2, <2>4, <3>0
    <3>2. \A r \in users : r \in RawUsers /\ s.holds[r] = c
      BY <2>3 DEF owners
    <3> HIDE DEF users
    <3>3. v \in users
      BY <2>4, <3>1
    <3> QED BY <3>2, <3>3
  <2>5. CASE users = {}
    <3>1. \A r \in RawUsers : s.holds[r] # c
      BY <2>3, <2>5
    <3>2. v = s.chan[c].id
      BY <1>2, <2>3, <2>5
    <3>3. s.cached = c \/ \E h \in Handlers : s.holds[h] = c
      BY <2>1, <3>1, OwedSomebody DEF Users
    <3>4. s.chan[c].id \in Ids
      <4>1. CASE s.cached = c
        BY <4>1, KindsAssumption DEF MInv
      <4>2. CASE \E h \in Handlers : s.holds[h] = c
        <5>1. PICK h \in Handlers : s.holds[h] = c
          BY <4>2
        <5>2. Proper(s, h)
          BY DEF MInv, Users
        <5> QED BY <1>4, <5>1, <5>2, KindsAssumption DEF Proper
      <4> QED BY <3>3, <4>1, <4>2
    <3> QED BY <3>1, <3>2, <3>4
  <2> QED BY <2>4, <2>5
<1> HIDE DEF w
<1> QED BY <1>3, <1>4 DEF v

\* A change that makes at most the channel new, and takes none from a raw user.
Moves(s, t, new) ==
  /\ Kept(s, t, new)
  /\ \A r \in RawUsers : /\ s.holds[r] # None => t.holds[r] = s.holds[r]
                         /\ t.holds[r] # None /\ t.holds[r] # new => s.holds[r] = t.holds[r]
  /\ new \in Channels =>
       /\ \A u \in Users : s.holds[u] # new
       /\ t.chan[new].id \in Ids => \A d \in Channels : s.chan[d].id # t.chan[new].id

\* Then a tuner that does not serve the new channel goes on or, when nobody uses it, is off.
LEMMA StaysOrOff ==
  ASSUME NEW s, MInv(s), NEW t, MInv(t), NEW new, Moves(s, t, new), NEW f \in Frontends,
         new \in Channels => t.chan[new].fe # f
  PROVE  \/ ServedBy(t, f) = ServedBy(s, f)
         \/ /\ ServedBy(t, f) = None /\ ServedBy(s, f) \notin RawUsers
            /\ \A h \in Handlers : ServedBy(s, f) # None => WantedBy(t, h) # ServedBy(s, f)
<1> DEFINE w == Owed(t.holds, t.cached)
<1>1. Sound(t, w) /\ \A d \in Channels : d # new /\ w[d] > 0 => Same(s, t, d)
  BY Fields DEF Moves, Kept
<1>2. \A u \in Users : /\ t.holds[u] # None => t.holds[u] \in Channels /\ w[t.holds[u]] > 0
                       /\ s.holds[u] # None => s.holds[u] \in Channels
  <2>1. \A u \in Users : /\ t.holds[u] # None => t.holds[u] \in Channels
                         /\ s.holds[u] # None => s.holds[u] \in Channels
    BY Fields
  <2> QED BY <2>1, OwedSomebody
<1> HIDE DEF w
<1>3. ASSUME NEW d \in Channels, t.chan[d].fe = f PROVE ServedBy(t, f) = ServedBy(s, f)
  <2>1. d # new /\ w[d] > 0
    BY <1>1, <1>3, UsedIs, KindsAssumption
  <2>2. s.chan[d].fe = f /\ s.chan[d].id = t.chan[d].id
    BY <1>1, <1>3, <2>1 DEF Same
  <2>3. \A r \in RawUsers : t.holds[r] = d <=> s.holds[r] = d
    BY <2>1, KindsAssumption DEF Moves
  <2>4. \A q, r \in RawUsers : s.holds[q] = d /\ s.holds[r] = d => q = r
    BY KindsAssumption DEF MInv
  <2>5. \/ ServedBy(s, f) = s.chan[d].id /\ \A r \in RawUsers : s.holds[r] # d
        \/ ServedBy(s, f) \in RawUsers /\ s.holds[ServedBy(s, f)] = d
    BY <2>2, ServedIs
  <2>6. \/ ServedBy(t, f) = t.chan[d].id /\ \A r \in RawUsers : t.holds[r] # d
        \/ ServedBy(t, f) \in RawUsers /\ t.holds[ServedBy(t, f)] = d
    BY <1>3, ServedIs
  <2> QED BY <2>2, <2>3, <2>4, <2>5, <2>6
<1>4. ASSUME \A d \in Channels : t.chan[d].fe # f, NEW c \in Channels, s.chan[c].fe = f
      PROVE  /\ ServedBy(t, f) = None /\ ServedBy(s, f) \notin RawUsers
             /\ \A h \in Handlers : WantedBy(t, h) # ServedBy(s, f)
  <2>1. ServedBy(t, f) = None
    BY <1>4, ServedIs
  <2>2. c = new \/ ~(w[c] > 0)
    BY <1>1, <1>4 DEF Same
  <2>3. ASSUME ServedBy(s, f) \in RawUsers PROVE FALSE
    <3> DEFINE r == ServedBy(s, f)
    <3>1. r \in RawUsers /\ r \in Users /\ r \notin Ids /\ s.holds[r] = c
      BY <1>4, <2>3, ServedIs, KindsAssumption DEF Users
    <3> HIDE DEF r
    <3>2. t.holds[r] = c
      BY <3>1, KindsAssumption DEF Moves
    <3>3. c # new
      BY <1>4, <3>1 DEF Moves
    <3>4. t.holds[r] # None
      BY <3>2, KindsAssumption
    <3>5. w[c] > 0
      BY <1>2, <3>1, <3>2, <3>4
    <3> QED BY <2>2, <3>3, <3>5
  <2>4. ServedBy(s, f) \in Ids /\ ServedBy(s, f) = s.chan[c].id
    BY <1>4, <2>3, ServedIs
  <2>5. ASSUME NEW h \in Handlers, WantedBy(t, h) = ServedBy(s, f) PROVE FALSE
    <3> DEFINE d == t.holds[h]
    <3>1. d # None /\ t.chan[d].id = s.chan[c].id /\ h \in Users
      BY <2>4, <2>5, KindsAssumption DEF WantedBy, Users
    <3> HIDE DEF d
    <3>2. d \in Channels /\ w[d] > 0
      <4>1. t.holds[h] # None
        BY <3>1 DEF d
      <4>2. t.holds[h] \in Channels /\ w[t.holds[h]] > 0
        BY <1>2, <3>1, <4>1
      <4> QED BY <4>2 DEF d
    <3>3. d # new
      BY <2>4, <3>1, <3>2 DEF Moves
    <3>4. s.chan[d].id = s.chan[c].id
      BY <1>1, <3>1, <3>2, <3>3 DEF Same
    <3>5. d = c
      BY <2>4, <3>2, <3>4, Fields DEF Sound, Named
    <3> QED BY <2>2, <3>2, <3>3, <3>5
  <2> QED BY <2>1, <2>3, <2>5
<1>5. CASE \A c \in Channels : s.chan[c].fe # f /\ t.chan[c].fe # f
  BY <1>5, ServedIs
<1> QED BY <1>3, <1>4, <1>5

\* A handler wants what it wanted unless it is the one that moves.
LEMMA WantsStay ==
  ASSUME NEW s, MInv(s), NEW t, MInv(t), NEW new, Kept(s, t, new), NEW h \in Handlers,
         t.holds[h] = s.holds[h], t.holds[h] # new \/ t.holds[h] = None
  PROVE  WantedBy(t, h) = WantedBy(s, h)
<1>1. CASE t.holds[h] = None
  BY <1>1 DEF WantedBy
<1>2. CASE t.holds[h] # None
  <2>1. h \in Users
    BY DEF Users
  <2>2. t.holds[h] \in Channels /\ Owed(t.holds, t.cached)[t.holds[h]] > 0
    <3>1. t.holds[h] \in Channels
      BY <1>2, <2>1, Fields
    <3> QED BY <2>1, <3>1, OwedSomebody
  <2>3. Same(s, t, t.holds[h])
    BY <1>2, <2>2 DEF Kept
  <2> QED BY <2>3 DEF WantedBy, Same
<1> QED BY <1>1, <1>2

\* TunerPool's variables, of a record.
PoolServes(s) == [f \in Frontends |-> ServedBy(s, f)]
PoolWants(s) == [h \in Handlers |-> WantedBy(s, h)]

LEMMA PoolIs ==
  /\ Serving = PoolServes(Manager) /\ Wanting = PoolWants(Manager)
  /\ Serving' = PoolServes(Manager') /\ Wanting' = PoolWants(Manager')
BY DEF PoolServes, PoolWants, ServedBy, WantedBy, Serves, Serving, Wanting, Manager

\* SwitchOff, tuner by tuner: a tuner serves what the base says, or is unused and off.
Switched(base, t) ==
  \A f \in Frontends :
    \/ ServedBy(t, f) = base[f]
    \/ /\ ServedBy(t, f) = None /\ base[f] \notin RawUsers
       /\ \A h \in Handlers : base[f] # None => WantedBy(t, h) # base[f]

LEMMA SwitchOffIs ==
  ASSUME NEW base \in [Frontends -> Ids \cup RawUsers \cup {None}], Switched(base, Manager')
  PROVE  Pool!SwitchOff(base)
<1> DEFINE off == {f \in Frontends : /\ ServedBy(Manager', f) = None /\ base[f] \notin RawUsers
                                     /\ \A h \in Handlers : base[f] # None => Wanting'[h] # base[f]}
<1>1. \A h \in Handlers : Wanting'[h] = WantedBy(Manager', h)
  BY PoolIs DEF PoolWants
<1>2. off \in SUBSET {f \in Frontends : ~Pool!Used(Wanting', base, f)}
  BY DEF Pool!Used
<1>3. Serving' = [f \in Frontends |-> IF f \in off THEN None ELSE base[f]]
  BY <1>1, PoolIs DEF PoolServes, Switched
<1> HIDE DEF off
<1> QED BY <1>2, <1>3 DEF Pool!SwitchOff

LEMMA ServesType ==
  ASSUME NEW s, MInv(s)
  PROVE  PoolServes(s) \in [Frontends -> Ids \cup RawUsers \cup {None}]
<1>1. \A f \in Frontends : ServedBy(s, f) \in Ids \cup RawUsers \cup {None}
  BY ServedIs
<1> QED BY <1>1 DEF PoolServes

\* A step that makes no channel with a tuner is one of the pool's Share, Leave or Idle.
LEMMA PoolGoesOn ==
  ASSUME NEW s, MInv(s), NEW t, MInv(t), NEW new, Moves(s, t, new),
         new \in Channels => t.chan[new].fe = None
  PROVE  Switched(PoolServes(s), t)
BY StaysOrOff, KindsAssumption DEF Switched, PoolServes

LEMMA PoolFields ==
  /\ \A f \in Frontends : Serving[f] = ServedBy(Manager, f) /\ Serving'[f] = ServedBy(Manager', f)
  /\ \A h \in Handlers : Wanting[h] = WantedBy(Manager, h) /\ Wanting'[h] = WantedBy(Manager', h)
  /\ Wanting = [h \in Handlers |-> Wanting[h]] /\ Wanting' = [h \in Handlers |-> Wanting'[h]]
  /\ Serving = [f \in Frontends |-> Serving[f]] /\ Serving' = [f \in Frontends |-> Serving'[f]]
BY PoolIs DEF PoolServes, PoolWants

\* Only h wants something else than before.
LEMMA WantsPut ==
  ASSUME NEW s, MInv(s), NEW t, MInv(t), NEW h \in Handlers, NEW c \in Channels \cup {None},
         NEW new \in {c, None}, t.holds = Put(s.holds, h, c), Kept(s, t, new),
         new # None => \A u \in Users : s.holds[u] # new
  PROVE  \A g \in Handlers \ {h} : WantedBy(t, g) = WantedBy(s, g)
<1>1. ASSUME NEW g \in Handlers \ {h} PROVE WantedBy(t, g) = WantedBy(s, g)
  <2>1. g \in Users /\ h \in Users
    BY DEF Users
  <2>2. t.holds[g] = s.holds[g]
    BY <2>1, Fields, PutFields
  <2>3. t.holds[g] # new \/ t.holds[g] = None
    BY <2>1, <2>2
  <2> QED BY <2>2, <2>3, WantsStay
<1> QED BY <1>1

LEMMA PoolShares ==
  ASSUME MInv(Manager), MInv(Manager'), NEW h \in Handlers, NEW id \in Ids,
         Manager.holds[h] = None, Shared(Manager, Manager', h, id)
  PROVE  Pool!Share(h, id)
<1> DEFINE s == Manager
           t == Manager'
<1>0. h \in Users /\ s.holds \in HoldMap
  BY Fields DEF Users
<1>1. PICK c \in Channels : s.chan[c].id = id /\ t.holds = Put(s.holds, h, c) /\ Kept(s, t, None)
  BY DEF Shared
<1> DEFINE f == s.chan[c].fe
<1>2. f \in Frontends
  BY <1>1, Fields, PairsAssumption DEF Sound, Named
<1>3. ServedBy(s, f) = id
  <2>1. \/ ServedBy(s, f) = id
        \/ ServedBy(s, f) \in RawUsers /\ s.holds[ServedBy(s, f)] = c
    BY <1>1, <1>2, ServedIs
  <2>2. ASSUME NEW r \in RawUsers, s.holds[r] = c PROVE FALSE
    <3>1. Proper(s, r) /\ r \notin Handlers
      BY KindsAssumption DEF MInv, Users
    <3> QED BY <1>1, <2>2, <3>1, KindsAssumption DEF Proper
  <2> QED BY <2>1, <2>2
<1>4. t.holds[h] = c /\ \A u \in Users \ {h} : t.holds[u] = s.holds[u]
  BY <1>0, <1>1, PutFields
<1>5. WantedBy(t, h) = id
  <2>1. Owed(t.holds, t.cached)[c] > 0
    BY <1>0, <1>4, OwedSomebody
  <2>2. t.chan[c].id = id
    BY <1>1, <2>1, KindsAssumption DEF Kept, Same
  <2> QED BY <1>4, <2>2, KindsAssumption DEF WantedBy
<1>6. \A g \in Handlers \ {h} : WantedBy(t, g) = WantedBy(s, g)
  BY <1>1, WantsPut
<1>7. WantedBy(s, h) = None
  BY DEF WantedBy
<1>8. Moves(s, t, None)
  BY <1>1, <1>4, KindsAssumption DEF Moves, Users
<1>9. Pool!SwitchOff(Serving)
  BY <1>8, PoolGoesOn, PoolIs, ServesType, SwitchOffIs, KindsAssumption
<1> HIDE DEF s, t, f
<1>10. Wanting' = [Wanting EXCEPT ![h] = id]
  BY <1>5, <1>6, PoolFields DEF s, t
<1>11. Wanting[h] = None /\ Serving[f] = id
  BY <1>2, <1>3, <1>7, PoolFields DEF s
<1> QED BY <1>2, <1>9, <1>10, <1>11 DEF Pool!Share

LEMMA PoolIdles ==
  ASSUME MInv(Manager), MInv(Manager'), NEW new, Moves(Manager, Manager', new),
         new \in Channels => Manager'.chan[new].fe = None,
         \A h \in Handlers : WantedBy(Manager', h) = WantedBy(Manager, h)
  PROVE  Pool!Idle
<1>1. Pool!SwitchOff(Serving)
  BY PoolGoesOn, PoolIs, ServesType, SwitchOffIs
<1>2. Wanting' = Wanting
  BY PoolFields
<1> QED BY <1>1, <1>2 DEF Pool!Idle

LEMMA PoolRefuses ==
  ASSUME MInv(Manager), MInv(Manager'), Refused(Manager, Manager')
  PROVE  Pool!Idle
<1>1. Kept(Manager, Manager', None) /\ Manager'.holds = Manager.holds
  BY DEF Refused
<1>2. Moves(Manager, Manager', None)
  BY <1>1, KindsAssumption DEF Moves
<1>3. \A h \in Handlers : WantedBy(Manager', h) = WantedBy(Manager, h)
  BY <1>1, WantsStay
<1> QED BY <1>2, <1>3, PoolIdles, KindsAssumption

LEMMA PoolPlays ==
  ASSUME MInv(Manager), MInv(Manager'), NEW h \in Handlers, Manager.holds[h] = None,
         Played(Manager, Manager', h)
  PROVE  Pool!Idle
<1> DEFINE s == Manager
           t == Manager'
<1>0. h \in Users /\ s.holds \in HoldMap
  BY Fields DEF Users
<1>1. PICK c \in Channels : /\ t.holds = Put(s.holds, h, c) /\ Owed(s.holds, None)[c] = 0
                            /\ t.chan[c].id \notin Ids /\ t.chan[c].fe = None
                            /\ Kept(s, t, c)
  BY DEF Played
<1>2. t.holds[h] = c /\ \A u \in Users \ {h} : t.holds[u] = s.holds[u]
  BY <1>0, <1>1, PutFields
<1>3. \A u \in Users : s.holds[u] # c
  BY <1>1, OwedSomebody
<1>4. Moves(s, t, c)
  BY <1>1, <1>2, <1>3, KindsAssumption DEF Moves, Users
<1>5. WantedBy(t, h) = None /\ WantedBy(s, h) = None
  BY <1>1, <1>2 DEF WantedBy
<1>6. \A g \in Handlers \ {h} : WantedBy(t, g) = WantedBy(s, g)
  BY <1>1, <1>3, WantsPut
<1> QED BY <1>1, <1>4, <1>5, <1>6, PoolIdles

LEMMA PoolLeaves ==
  ASSUME MInv(Manager), MInv(Manager'), NEW h \in Handlers, Manager.holds[h] # None,
         Manager'.holds = Put(Manager.holds, h, None), Kept(Manager, Manager', None)
  PROVE  Pool!Leave(h) \/ Pool!Idle
<1> DEFINE s == Manager
           t == Manager'
<1>0. h \in Users /\ s.holds \in HoldMap
  BY Fields DEF Users
<1>1. t.holds[h] = None /\ \A u \in Users \ {h} : t.holds[u] = s.holds[u]
  BY <1>0, PutFields
<1>2. Moves(s, t, None)
  BY <1>1, KindsAssumption DEF Moves, Users
<1>3. WantedBy(t, h) = None
  BY <1>1 DEF WantedBy
<1>4. \A g \in Handlers \ {h} : WantedBy(t, g) = WantedBy(s, g)
  BY WantsPut
<1>5. CASE WantedBy(s, h) = None
  BY <1>2, <1>3, <1>4, <1>5, PoolIdles, KindsAssumption
<1>6. CASE WantedBy(s, h) # None
  <2>1. Pool!SwitchOff(Serving)
    BY <1>2, PoolGoesOn, PoolIs, ServesType, SwitchOffIs, KindsAssumption
  <2> HIDE DEF s, t
  <2>2. Wanting' = [Wanting EXCEPT ![h] = None]
    BY <1>3, <1>4, PoolFields DEF s, t
  <2>3. Wanting[h] # None
    BY <1>6, PoolFields DEF s
  <2> QED BY <2>1, <2>2, <2>3 DEF Pool!Leave
<1> QED BY <1>5, <1>6

\* A tuner that is free once the cache is dropped is used by nobody.
LEMMA FreeIsUnused ==
  ASSUME MInv(Manager), NEW f \in Frontends, DropCache(Manager).inuse[f] = 0
  PROVE  ~Pool!Used(Wanting, Serving, f)
<1> DEFINE s == Manager
           free == DropCache(s)
<1>1. /\ MInv(free) /\ free.cached = None /\ free.holds = s.holds
      /\ \A d \in Channels : Owed(s.holds, None)[d] > 0 => Same(s, free, d)
  BY Freed
<1>2. \A d \in Channels : free.chan[d].fe # f
  BY <1>1, Fields DEF Sound, Owned
<1>3. Kept(s, free, None)
  BY <1>1 DEF Kept
<1>4. Moves(s, free, None)
  BY <1>1, <1>3, KindsAssumption DEF Moves
<1>5. ServedBy(free, f) = None
  BY <1>1, <1>2, ServedIs
<1>6. \A h \in Handlers : WantedBy(free, h) = WantedBy(s, h)
  BY <1>1, <1>3, WantsStay
<1> HIDE DEF s, free
<1>7. /\ ServedBy(s, f) \notin RawUsers
      /\ \A h \in Handlers : ServedBy(s, f) # None => WantedBy(s, h) # ServedBy(s, f)
  <2>1. MInv(s)
    BY DEF s
  <2>2. CASE ServedBy(free, f) = ServedBy(s, f)
    BY <1>5, <2>2, KindsAssumption
  <2>3. CASE ServedBy(free, f) # ServedBy(s, f)
    BY <1>1, <1>4, <1>6, <2>1, <2>3, StaysOrOff, KindsAssumption
  <2> QED BY <2>2, <2>3
<1> QED BY <1>7, PoolFields DEF Pool!Used, s

\* The tuner of a new channel serves it, the others go on.
LEMMA PoolSwitches ==
  ASSUME MInv(Manager), MInv(Manager'), NEW c \in Channels, Moves(Manager, Manager', c),
         NEW f \in Frontends, Manager'.chan[c].fe = f, NEW v \in Ids \cup RawUsers,
         ServedBy(Manager', f) = v
  PROVE  Pool!SwitchOff([Serving EXCEPT ![f] = v])
<1> DEFINE base == [Serving EXCEPT ![f] = v]
<1>1. base \in [Frontends -> Ids \cup RawUsers \cup {None}]
  BY PoolIs, ServesType
<1>2. base[f] = v /\ \A g \in Frontends \ {f} : base[g] = ServedBy(Manager, g)
  BY PoolFields
<1> HIDE DEF base
<1>3. ASSUME NEW g \in Frontends \ {f}
      PROVE  \/ ServedBy(Manager', g) = base[g]
             \/ /\ ServedBy(Manager', g) = None /\ base[g] \notin RawUsers
                /\ \A h \in Handlers : base[g] # None => WantedBy(Manager', h) # base[g]
  BY <1>2, StaysOrOff
<1>4. Switched(base, Manager')
  BY <1>2, <1>3 DEF Switched
<1> QED BY <1>1, <1>4, SwitchOffIs DEF base

LEMMA PoolTakes ==
  ASSUME MInv(Manager), MInv(Manager'), NEW h \in Handlers, NEW id \in Ids,
         Manager.holds[h] = None, Taken(Manager, Manager', h, id)
  PROVE  Pool!Take(h, id)
<1> DEFINE s == Manager
           t == Manager'
<1>0. h \in Users /\ s.holds \in HoldMap
  BY Fields DEF Users
<1>1. PICK c \in Channels, f \in Frontends :
        /\ \A d \in Channels : s.chan[d].id # id
        /\ <<id, f>> \in Tunable /\ DropCache(s).inuse[f] = 0
        /\ Owed(s.holds, None)[c] = 0
        /\ t.holds = Put(s.holds, h, c) /\ t.chan[c].id = id /\ t.chan[c].fe = f
        /\ Kept(s, t, c)
  BY DEF Taken
<1>2. t.holds[h] = c /\ \A u \in Users \ {h} : t.holds[u] = s.holds[u]
  BY <1>0, <1>1, PutFields
<1>3. \A u \in Users : s.holds[u] # c
  BY <1>1, OwedSomebody
<1>4. Moves(s, t, c)
  BY <1>1, <1>2, <1>3, KindsAssumption DEF Moves, Users
<1>5. WantedBy(t, h) = id /\ WantedBy(s, h) = None
  BY <1>1, <1>2, KindsAssumption DEF WantedBy
<1>6. \A g \in Handlers \ {h} : WantedBy(t, g) = WantedBy(s, g)
  BY <1>1, <1>3, WantsPut
<1>7. ServedBy(t, f) = id
  <2>1. \A r \in RawUsers : t.holds[r] # c
    BY <1>2, <1>3, KindsAssumption DEF Users
  <2> QED BY <1>1, <2>1, ServedIs
<1>8. ASSUME NEW g \in Frontends, ServedBy(s, g) = id PROVE FALSE
  <2>1. id # None /\ id \notin RawUsers
    BY KindsAssumption
  <2>2. PICK d \in Channels : s.chan[d].fe = g
    BY <1>8, <2>1, ServedIs
  <2>3. s.chan[d].id = id
    BY <1>8, <2>1, <2>2, ServedIs
  <2> QED BY <1>1, <2>3
<1>9. Pool!SwitchOff([Serving EXCEPT ![f] = id])
  BY <1>1, <1>4, <1>7, PoolSwitches
<1>10. ~Pool!Used(Wanting, Serving, f)
  BY <1>1, FreeIsUnused
<1> HIDE DEF s, t
<1>11. Wanting' = [Wanting EXCEPT ![h] = id] /\ Wanting[h] = None
  BY <1>5, <1>6, PoolFields DEF s, t
<1>12. \A g \in Frontends : Serving[g] # id
  BY <1>8, PoolFields DEF s
<1> QED BY <1>1, <1>9, <1>10, <1>11, <1>12 DEF Pool!Take

LEMMA PoolTakesRaw ==
  ASSUME MInv(Manager), MInv(Manager'), NEW r \in RawUsers, NEW f \in Frontends,
         Manager.holds[r] = None, RawTaken(Manager, Manager', r, f)
  PROVE  Pool!TakeRaw(r)
<1> DEFINE s == Manager
           t == Manager'
<1>0. r \in Users /\ r \notin Handlers /\ s.holds \in HoldMap
  BY Fields, KindsAssumption DEF Users
<1>1. PICK c \in Channels :
        /\ DropCache(s).inuse[f] = 0 /\ Owed(s.holds, None)[c] = 0
        /\ t.holds = Put(s.holds, r, c) /\ t.chan[c].fe = f /\ Kept(s, t, c)
  BY DEF RawTaken
<1>2. t.holds[r] = c /\ \A u \in Users \ {r} : t.holds[u] = s.holds[u]
  BY <1>0, <1>1, PutFields
<1>3. \A u \in Users : s.holds[u] # c
  BY <1>1, OwedSomebody
<1>4. t.chan[c].id = None
  <2>1. Proper(t, r)
    BY <1>0 DEF MInv
  <2> QED BY <1>0, <1>2, <2>1, KindsAssumption DEF Proper
<1>5. Moves(s, t, c)
  BY <1>0, <1>1, <1>2, <1>3, <1>4, KindsAssumption DEF Moves, Users
<1>6. \A h \in Handlers : WantedBy(t, h) = WantedBy(s, h)
  <2>1. \A h \in Handlers : t.holds[h] = s.holds[h] /\ t.holds[h] # c
    BY <1>0, <1>2, <1>3 DEF Users
  <2> QED BY <1>1, <2>1, WantsStay
<1>7. ServedBy(t, f) = r
  <2>1. ServedBy(t, f) \in RawUsers /\ t.holds[ServedBy(t, f)] = c
    BY <1>1, <1>2, ServedIs
  <2> QED BY <1>2, <2>1, KindsAssumption DEF MInv
<1>8. ASSUME NEW g \in Frontends, ServedBy(s, g) = r PROVE FALSE
  <2>1. r # None /\ r \notin Ids
    BY KindsAssumption
  <2>2. PICK d \in Channels : s.chan[d].fe = g
    BY <1>8, <2>1, ServedIs
  <2>3. s.holds[r] = d
    BY <1>8, <2>1, <2>2, ServedIs
  <2> QED BY <2>3, KindsAssumption
<1>9. Pool!SwitchOff([Serving EXCEPT ![f] = r])
  BY <1>1, <1>5, <1>7, PoolSwitches
<1>10. ~Pool!Used(Wanting, Serving, f)
  BY <1>1, FreeIsUnused
<1> HIDE DEF s, t
<1>11. Wanting' = Wanting
  BY <1>6, PoolFields DEF s, t
<1>12. \A g \in Frontends : Serving[g] # r
  BY <1>8, PoolFields DEF s
<1> QED BY <1>9, <1>10, <1>11, <1>12 DEF Pool!TakeRaw

LEMMA PoolLeavesRaw ==
  ASSUME MInv(Manager), MInv(Manager'), NEW r \in RawUsers, Manager.holds[r] # None,
         Manager'.holds = Put(Manager.holds, r, None), Kept(Manager, Manager', None),
         \A d \in Channels \ {Manager.holds[r]} : Same(Manager, Manager', d)
  PROVE  Pool!LeaveRaw(r)
<1> DEFINE s == Manager
           t == Manager'
           c == s.holds[r]
           f == s.chan[c].fe
<1>0. r \in Users /\ r \notin Handlers /\ s.holds \in HoldMap /\ c \in Channels
  BY Fields, KindsAssumption DEF Users
<1>1. t.holds[r] = None /\ \A u \in Users \ {r} : t.holds[u] = s.holds[u]
  BY <1>0, PutFields
<1>2. f \in Frontends /\ s.chan[c].id = None
  BY <1>0 DEF MInv, Proper
<1>3. \A u \in Users \ {r} : s.holds[u] # c
  <2>1. ASSUME NEW h \in Handlers, s.holds[h] = c PROVE FALSE
    <3>1. Proper(s, h)
      BY DEF MInv, Users
    <3> QED BY <1>2, <2>1, <3>1, <1>0, KindsAssumption DEF Proper
  <2>2. ASSUME NEW q \in RawUsers, s.holds[q] = c PROVE q = r
    BY <2>2 DEF MInv
  <2> QED BY <2>1, <2>2 DEF Users
<1>4. ASSUME NEW d \in Channels, t.chan[d].fe \in Frontends PROVE d # c
  <2>1. SUFFICES ASSUME d = c PROVE FALSE
    OBVIOUS
  <2>2. Owed(t.holds, t.cached)[c] > 0
    BY <1>4, <2>1, Fields, UsedIs, KindsAssumption
  <2>3. \A u \in Users : t.holds[u] # c
    BY <1>0, <1>1, <1>3, KindsAssumption
  <2>4. t.cached = c
    BY <1>0, <2>2, <2>3, OwedSomebody
  <2>5. t.chan[c].id \in Ids
    BY <1>0, <2>4, KindsAssumption DEF MInv
  <2>6. t.chan[c].id = None
    BY <1>0, <1>2, <2>2, KindsAssumption DEF Kept, Same
  <2> QED BY <2>5, <2>6, KindsAssumption
<1>5. ASSUME NEW g \in Frontends
      PROVE  ServedBy(t, g) = IF ServedBy(s, g) = r THEN None ELSE ServedBy(s, g)
  <2>1. ASSUME NEW d \in Channels, t.chan[d].fe = g
        PROVE  ServedBy(t, g) = ServedBy(s, g) /\ ServedBy(s, g) # r
    <3>1. d # c
      BY <1>4, <2>1
    <3> HIDE DEF c
    <3>2. s.chan[d].fe = g /\ s.chan[d].id = t.chan[d].id
      BY <2>1, <3>1 DEF Same, c
    <3>3. \A q \in RawUsers : t.holds[q] = d <=> s.holds[q] = d
      BY <1>1, <3>1, KindsAssumption DEF Users, c
    <3>4. \A p, q \in RawUsers : s.holds[p] = d /\ s.holds[q] = d => p = q
      BY KindsAssumption DEF MInv
    <3>5. \/ /\ ServedBy(s, g) = s.chan[d].id /\ ServedBy(s, g) \in Ids
             /\ \A q \in RawUsers : s.holds[q] # d
          \/ ServedBy(s, g) \in RawUsers /\ s.holds[ServedBy(s, g)] = d
      BY <3>2, ServedIs
    <3>6. \/ ServedBy(t, g) = t.chan[d].id /\ \A q \in RawUsers : t.holds[q] # d
          \/ ServedBy(t, g) \in RawUsers /\ t.holds[ServedBy(t, g)] = d
      BY <2>1, ServedIs
    <3>7. ServedBy(t, g) = ServedBy(s, g)
      BY <3>2, <3>3, <3>4, <3>5, <3>6
    <3>8. ServedBy(s, g) # r
      BY <3>1, <3>5, KindsAssumption DEF c
    <3> QED BY <3>7, <3>8
  <2>2. CASE \A d \in Channels : t.chan[d].fe # g
    <3>1. ServedBy(t, g) = None
      BY <2>2, ServedIs
    <3>2. CASE \A d \in Channels : s.chan[d].fe # g
      BY <3>1, <3>2, ServedIs
    <3>3. ASSUME NEW d \in Channels, s.chan[d].fe = g PROVE ServedBy(s, g) = r
      <4>1. d = c
        BY <2>2, <3>3 DEF Same
      <4>2. ServedBy(s, g) \in RawUsers /\ s.holds[ServedBy(s, g)] = c
        BY <3>3, <4>1, ServedIs
      <4> QED BY <1>0, <1>3, <4>2 DEF Users
    <3> QED BY <3>1, <3>2, <3>3
  <2> QED BY <2>1, <2>2
<1>6. ServedBy(s, f) = r
  <2>1. ServedBy(s, f) \in RawUsers /\ s.holds[ServedBy(s, f)] = c
    BY <1>0, <1>2, ServedIs
  <2> QED BY <1>0, <1>3, <2>1 DEF Users
<1>7. \A h \in Handlers : WantedBy(t, h) = WantedBy(s, h)
  <2>1. ASSUME NEW h \in Handlers PROVE t.holds[h] = s.holds[h] /\ t.holds[h] \in Channels \cup {None}
    BY <1>0, <1>1, Fields DEF Users
  <2> QED BY <2>1, WantsStay, KindsAssumption
<1> HIDE DEF s, t, f
<1>8. Wanting' = Wanting
  BY <1>7, PoolFields DEF s, t
<1>9. Serving[f] = r
  BY <1>2, <1>6, PoolFields DEF s, f
<1>10. Serving' = [g \in Frontends |-> IF Serving[g] = r THEN None ELSE Serving[g]]
  BY <1>5, PoolFields DEF s, t
<1> QED BY <1>2, <1>8, <1>9, <1>10 DEF Pool!LeaveRaw

LEMMA PoolStep == MInv(Manager) /\ MInv(Manager') /\ Effect(Manager, Manager') => Pool!Next
<1> SUFFICES ASSUME MInv(Manager), MInv(Manager'), Effect(Manager, Manager') PROVE Pool!Next
  OBVIOUS
<1> DEFINE s == Manager
           t == Manager'
<1>1. ASSUME NEW h \in Handlers, NEW id \in Ids, s.holds[h] = None,
             Shared(s, t, h, id) \/ Taken(s, t, h, id)
      PROVE  Pool!Next
  BY <1>1, PoolShares, PoolTakes DEF Pool!Next
<1>2. ASSUME NEW h \in Handlers, s.holds[h] = None, Played(s, t, h) PROVE Pool!Next
  BY <1>2, PoolPlays DEF Pool!Next
<1>3. ASSUME NEW r \in RawUsers, NEW f \in Frontends, s.holds[r] = None, RawTaken(s, t, r, f)
      PROVE  Pool!Next
  BY <1>3, PoolTakesRaw DEF Pool!Next
<1>4. ASSUME NEW u \in Users, s.holds[u] # None, t.holds = Put(s.holds, u, None), Kept(s, t, None),
             u \in RawUsers => \A d \in Channels \ {s.holds[u]} : Same(s, t, d)
      PROVE  Pool!Next
  <2>1. CASE u \in Handlers
    BY <1>4, <2>1, PoolLeaves DEF Pool!Next
  <2>2. CASE u \in RawUsers
    BY <1>4, <2>2, PoolLeavesRaw DEF Pool!Next
  <2> QED BY <2>1, <2>2 DEF Users
<1>5. CASE Refused(s, t)
  BY <1>5, PoolRefuses DEF Pool!Next
<1> QED BY <1>1, <1>2, <1>3, <1>4, <1>5 DEF Effect

LEMMA PoolStart == Init => Pool!Init
<1> SUFFICES ASSUME Init PROVE Pool!Init
  OBVIOUS
<1>1. MInv(Manager)
  BY Start
<1>2. chan = [c \in Channels |-> Dead] /\ holds = [u \in Users |-> None]
  BY DEF Init, Users
<1>3. Manager.chan = chan /\ Manager.holds = holds
  BY DEF Manager
<1>4. \A c \in Channels : Manager.chan[c].fe = None
  BY <1>2, <1>3, DeadChannel
<1>5. \A f \in Frontends : ServedBy(Manager, f) = None
  BY <1>1, <1>4, ServedIs, KindsAssumption
<1>6. \A h \in Handlers : WantedBy(Manager, h) = None
  BY <1>2, <1>3 DEF WantedBy, Users
<1> QED BY <1>5, <1>6, PoolFields DEF Pool!Init

\* ManagerImplementsTunerPool: whatever its use counts, its cache and its timer do, the
\* resource manager shares tuners between those who want the same transponder and takes them
\* from nobody (dvb.h:20 and 219, allocateChannel, allocateRawChannel, eDVBChannel).
THEOREM ManagerImplementsTunerPool == Spec => ImplementsTunerPool
<1>1. MInv(Manager) /\ [Next]_vars => [Pool!Next]_Pool!pvars
  <2>1. ASSUME MInv(Manager), [Next]_vars PROVE Pool!Next
    BY <2>1, StepKeeps, PoolStep
  <2> QED BY <2>1
<1> QED BY <1>1, Kernel, PoolStart, PTL DEF Spec, ImplementsTunerPool, Pool!PoolSpec
=============================================================================
