--------------------------- MODULE ChannelManager ---------------------------
(***************************************************************************)
(* eDVBResourceManager and eDVBChannel (lib/dvb/dvb.cpp), with their users *)
(* eDVBServicePMTHandler (lib/dvb/pmt.cpp) and the owners of raw channels. *)
(*                                                                         *)
(* Everything runs in the main thread.  A handler is not atomic in the     *)
(* sense that matters here, though: every eUsePtr it assigns counts a use  *)
(* up or down, which changes the channel's state, which calls back into    *)
(* the resource manager, which starts or stops a timer.  The operators     *)
(* below therefore take the manager's state as a record, make one change   *)
(* after the other, in the code's order, and return the record.            *)
(***************************************************************************)
EXTENDS Integers, FiniteSets, Sequences, SequencesExt

CONSTANTS
  Channels,    \* identities of eDVBChannel objects
  Frontends,   \* eDVBRegisteredFrontend
  Ids,         \* eDVBChannelID of transponders
  StreamIds,   \* eDVBChannelID of streams (service type streamclient)
  Handlers,    \* eDVBServicePMTHandler objects
  RawUsers,    \* scans, Satfinder...: owners of a raw channel
  None,
  Tunable,     \* <<id, frontend>>: isCompatibleWith
  Linked       \* <<frontend, frontend>>: linked, or depending for the satellite position

ASSUME KindsAssumption == /\ None \notin Ids \cup StreamIds \cup Channels \cup Frontends
                          /\ Ids \cap StreamIds = {} /\ Handlers \cap RawUsers = {}
                          /\ RawUsers \cap (Ids \cup {None}) = {}
ASSUME PairsAssumption == /\ Tunable \subseteq Ids \X Frontends
                          /\ Linked \subseteq Frontends \X Frontends

\* Bound: enough identities for everybody's channel and the cached one.
ASSUME ChannelsAssumption ==
  /\ IsFiniteSet(Channels) /\ IsFiniteSet(Handlers) /\ IsFiniteSet(RawUsers)
  /\ Cardinality(Channels) > Cardinality(Handlers) + Cardinality(RawUsers)

VARIABLES
  chan,      \* the fields of every eDVBChannel
  active,    \* m_active_channels
  inuse,     \* eDVBRegisteredFrontend.m_inuse
  cached,    \* m_cached_channel
  conn,      \* the channel m_cached_channel_state_changed_conn listens to
  timer,     \* m_releaseCachedChannelTimer runs
  holds,     \* m_channel of every handler (with m_dvb_scan or m_pvr_channel), of raw users
  fstate     \* eDVBFrontend.m_state

vars == <<chan, active, inuse, cached, conn, timer, holds, fstate>>

States == {"idle", "tuning", "failed", "unavailable", "ok", "last_instance", "release"}
FrontendStates == {"idle", "tuning", "lock", "lost", "failed"}

Channel == [live : BOOLEAN, id : Ids \cup StreamIds \cup {None},
            fe : Frontends \cup {None}, state : States, uses : Nat]

Dead == [live |-> FALSE, id |-> None, fe |-> None, state |-> "idle", uses |-> 0]

Manager == [chan |-> chan, active |-> active, inuse |-> inuse, cached |-> cached,
            conn |-> conn, timer |-> timer, holds |-> holds, fstate |-> fstate]

Become(s) == /\ chan' = s.chan /\ active' = s.active /\ inuse' = s.inuse
             /\ cached' = s.cached /\ conn' = s.conn /\ timer' = s.timer
             /\ holds' = s.holds /\ fstate' = s.fstate

-----------------------------------------------------------------------------
(* eDVBChannel: use counts and states *)

\* m_state = state; m_stateChanged(this), with DVBChannelStateChanged.
StateChanged(s, c, state) ==
  [s EXCEPT !.chan[c].state = state,
            !.timer = IF s.conn # c THEN @
                      ELSE CASE state \in {"ok", "release"} -> FALSE
                             [] state = "last_instance" -> TRUE
                             [] OTHER -> @]

AddUse(s, c) ==
  LET added == [s EXCEPT !.chan[c].uses = @ + 1]
  IN IF s.chan[c].uses > 0 /\ s.chan[c].state = "last_instance"
     THEN StateChanged(added, c, "ok") ELSE added

\* inc_use and dec_use of a channel's tuner, if it has one.
Allocated(in, f, n) == IF f = None THEN in ELSE [in EXCEPT ![f] = @ + n]

\* removeChannel: the channel has one entry, or none when it was never registered.
Unlisted(list, c) ==
  LET at == {i \in DOMAIN list : list[i] = c}
  IN IF at = {} THEN list ELSE RemoveAt(list, CHOOSE i \in at : TRUE)

\* ~eDVBChannel: removeChannel; ~eDVBAllocatedFrontend: dec_use.
Destroy(s, c) ==
  LET f == s.chan[c].fe
  IN [s EXCEPT !.chan[c] = Dead,
               !.active = Unlisted(@, c),
               !.inuse = Allocated(@, f, -1),
               !.conn = IF @ = c THEN None ELSE @]

ReleaseUse(s, c) ==
  LET n == s.chan[c].uses - 1
      less == [s EXCEPT !.chan[c].uses = n]
  IN CASE n = 0 -> Destroy(StateChanged(less, c, "release"), c)
       [] n = 1 -> StateChanged(less, c, "last_instance")
       [] OTHER -> less

\* new eDVBChannel, registered with addChannel when it has an id.
Create(s, c, id, f, state) ==
  [s EXCEPT !.chan[c] = [live |-> TRUE, id |-> id, fe |-> f, state |-> state, uses |-> 0],
            !.active = IF id = None THEN @ ELSE Append(@, c),
            !.inuse = Allocated(@, f, 1)]

Unborn(s) == CHOOSE c \in Channels : ~s.chan[c].live

-----------------------------------------------------------------------------
(* eDVBResourceManager *)

\* Disconnect, m_cached_channel = 0, stop the timer.
DropCache(s) ==
  IF s.cached = None THEN s
  ELSE [ReleaseUse([s EXCEPT !.conn = None], s.cached) EXCEPT !.cached = None, !.timer = FALSE]

Caches(s, id) == s.cached # None /\ s.chan[s.cached].id = id

\* The entry of m_active_channels a search for id finds, as a set.
Found(s, id) ==
  LET at == {i \in DOMAIN s.active : s.chan[s.active[i]].id = id}
  IN {s.active[i] : i \in {j \in at : \A k \in at : j <= k}}

\* Mutant of FreeFrontends: m_inuse is not looked at.
AnyFrontends(in, id) == {f \in Frontends : <<id, f>> \in Tunable}

FreeFrontends(in, id) == {f \in Frontends : in[f] = 0 /\ <<id, f>> \in Tunable}

\* eUsePtr<iDVBChannel> held by h.
Hold(s, h, c) == AddUse([s EXCEPT !.holds[h] = c], c)

\* allocateChannel: the ways in which it succeeds.
Allocations(s, h, id) ==
  IF Caches(s, id) THEN {Hold(s, h, s.cached)}
  ELSE LET free == DropCache(s)
           c == Unborn(free)
       IN IF Found(free, id) # {} THEN {Hold(free, h, x) : x \in Found(free, id)}
          ELSE {LET made == Hold(Create(free, c, id, f, "tuning"), h, c)
                IN [AddUse(made, c) EXCEPT !.cached = c, !.conn = c, !.fstate[f] = "tuning"] :
                f \in FreeFrontends(free.inuse, id)}

\* Mutant of UsedOnce: users who share the channel are not seen.
UsedOften(s, c) == s.chan[c].uses >= 2

\* "channel only used once": by one handler and its scan.
UsedOnce(s, c) == s.chan[c].uses = (IF c = s.cached THEN 3 ELSE 2)

\* canAllocateChannel: could id be tuned if what uses `ignore' went away?
CanAllocate(s, id, ignore) ==
  LET leaving == {c \in Found(s, ignore) : UsedOnce(s, c)}
      idle == IF s.cached # None /\ s.cached \notin leaving /\ s.chan[s.cached].uses = 1
              THEN {s.cached} ELSE {}
      given == [f \in Frontends |->
                  s.inuse[f] - Cardinality({c \in leaving \cup idle : s.chan[c].fe = f})]
  IN \/ Caches(s, id)
     \/ Found(s, id) # {}
     \/ FreeFrontends(given, id) # {}
-----------------------------------------------------------------------------
(* The users *)

\* eDVBServicePMTHandler::tuneExt of a live service: m_channel, then m_dvb_scan.  Without
\* a frontend, with an unknown id or when setChannel fails, only the cache has been dropped.
Tune(h, id) ==
  /\ holds[h] = None
  /\ \/ \E s \in Allocations(Manager, h, id) : Become(AddUse(s, s.holds[h]))
     \/ LET free == DropCache(Manager)
        IN /\ ~Caches(Manager, id)
           /\ Found(free, id) = {}
           /\ Become(free)

\* tuneExt of a file or a stream (allocatePVRChannel): m_pvr_channel, then m_channel.
Play(h, id) ==
  /\ holds[h] = None
  /\ LET free == IF timer THEN DropCache(Manager) ELSE Manager
         c == Unborn(free)
     IN Become(AddUse(Hold(Create(free, c, id, None, "idle"), h, c), c))

Left(s, h) == [ReleaseUse(ReleaseUse(s, s.holds[h]), s.holds[h]) EXCEPT !.holds[h] = None]

\* eDVBServicePMTHandler::free
Free(h) == holds[h] # None /\ Become(Left(Manager, h))

\* allocateRawChannel, allocateFrontendByIndex.  A scan is handed a copy of the caller's
\* eUsePtr, which the caller then drops.
AllocateRaw(r, f) ==
  /\ holds[r] = None
  /\ LET free == DropCache(Manager)
         c == Unborn(free)
         busy == free.inuse[f] > 0 \/ \E g \in Frontends : <<f, g>> \in Linked /\ free.inuse[g] > 0
         raw == Hold(Create(free, c, None, f, "idle"), r, c)
     IN \E s \in IF busy THEN {free} ELSE {raw, ReleaseUse(AddUse(raw, c), c)} : Become(s)

FreeRaw(r) ==
  /\ holds[r] # None
  /\ Become([ReleaseUse(Manager, holds[r]) EXCEPT !.holds[r] = None])

\* Mutant of ReleaseCachedChannel: the use is not released.
ForgetCachedChannel ==
  timer /\ Become([Manager EXCEPT !.timer = FALSE, !.cached = None])

\* releaseCachedChannel: the timer fired.
ReleaseCachedChannel ==
  /\ timer
  /\ LET s == [Manager EXCEPT !.timer = FALSE]
     IN Become(IF cached = None THEN s ELSE [ReleaseUse(s, cached) EXCEPT !.cached = None])

\* frontendStateChanged: what the channel makes of the frontend's state.
OurState(c, new) ==
  CASE new = "lock" -> "ok"
    [] new = "tuning" -> "tuning"
    [] new = "lost" -> IF chan[c].id # None THEN "tuning" ELSE "unavailable"
    [] new = "failed" -> "failed"

\* An event of the frontend; a channel with an id is tuned again when it lost the lock or
\* failed to get one (tune's own result is not looked at).
FrontendEvent(f) ==
  \E c \in Channels, new \in FrontendStates \ {"idle", fstate[f]} :
    /\ chan[c].live /\ chan[c].fe = f
    /\ new = "failed" => fstate[f] = "tuning"
    /\ \E then \in {new} \cup (IF chan[c].id # None /\ new \in {"lost", "failed"}
                               THEN {"tuning"} ELSE {}) :
         LET s == [Manager EXCEPT !.fstate[f] = then]
         IN Become(IF OurState(c, new) = chan[c].state THEN s
                   ELSE StateChanged(s, c, OurState(c, new)))

Init ==
  /\ chan = [c \in Channels |-> Dead]
  /\ active = <<>>
  /\ inuse = [f \in Frontends |-> 0]
  /\ cached = None /\ conn = None /\ timer = FALSE
  /\ holds = [u \in Handlers \cup RawUsers |-> None]
  /\ fstate = [f \in Frontends |-> "idle"]

Next ==
  \/ \E h \in Handlers : \/ \E id \in Ids : Tune(h, id)
                         \/ \E id \in StreamIds \cup {None} : Play(h, id)
                         \/ Free(h)
  \/ \E r \in RawUsers : FreeRaw(r) \/ \E f \in Frontends : AllocateRaw(r, f)
  \/ \E f \in Frontends : FrontendEvent(f)
  \/ ReleaseCachedChannel

Spec == Init /\ [][Next]_vars

-----------------------------------------------------------------------------
(* Properties *)

\* Every variable keeps its type.
TypeOK ==
  /\ chan \in [Channels -> Channel]
  /\ active \in Seq(Channels)
  /\ inuse \in [Frontends -> Nat]
  /\ cached \in Channels \cup {None} /\ conn \in Channels \cup {None}
  /\ timer \in BOOLEAN
  /\ holds \in [Handlers \cup RawUsers -> Channels \cup {None}]
  /\ fstate \in [Frontends -> FrontendStates]

\* UsesAreCounted: m_use_count is the number of eUsePtr that hold the channel, however
\* they are dropped: two per handler, one per raw user, one of the cache.  No channel lives
\* without one, and a frontend is in use by one live channel or by none.
UsesAreCounted ==
  /\ \A c \in Channels :
       LET uses == 2 * Cardinality({h \in Handlers : holds[h] = c})
                     + Cardinality({r \in RawUsers : holds[r] = c})
                     + (IF cached = c THEN 1 ELSE 0)
       IN /\ chan[c].uses = uses
          /\ chan[c].live <=> uses > 0
  /\ \A f \in Frontends : /\ inuse[f] <= 1
                          /\ inuse[f] = Cardinality({c \in Channels : chan[c].fe = f})

Succeeds(s, h, id) == Allocations(s, h, id) # {}

\* CanAllocateIsExact: canAllocateChannel answers whether a transponder could be had if the
\* handler h left its channel; it says yes just when allocateChannel finds a frontend after
\* h has left.
CanAllocateIsExact ==
  \A h \in Handlers, id \in Ids :
    holds[h] # None =>
      (CanAllocate(Manager, id, chan[holds[h]].id) <=> Succeeds(Left(Manager, h), h, id))

\* ImplementsTunerPool: tuners are shared, and never taken from anybody (TunerPool).
Serves(f) ==
  LET owners == {c \in Channels : chan[c].live /\ chan[c].fe = f}
      users == {r \in RawUsers : holds[r] \in owners}
  IN IF owners = {} THEN None
     ELSE IF users # {} THEN CHOOSE r \in users : TRUE
     ELSE chan[CHOOSE c \in owners : TRUE].id

Serving == [f \in Frontends |-> Serves(f)]
Wanting == [h \in Handlers |-> IF holds[h] # None /\ chan[holds[h]].id \in Ids
                               THEN chan[holds[h]].id ELSE None]

Pool == INSTANCE TunerPool WITH serves <- Serving, wants <- Wanting

ImplementsTunerPool == Pool!PoolSpec
=============================================================================
