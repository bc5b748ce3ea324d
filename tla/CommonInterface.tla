--------------------------- MODULE CommonInterface ---------------------------
(* The common interface slots of a box with more than one (lib/dvb_ci/dvbci.cpp): which
   modules a service's transport stream is led through, and which services each module is
   told to descramble. eDVBCIInterfaces chains slots by linked_next; a PMT handler points to
   the head of its chain, several may share one, and use_count counts the users. All runs
   in the main loop. Left out: the byte protocols of sessions, MMI, the CI+ helper,
   subservices, providers. Services are in the database and scrambled.                  *)
EXTENDS Naturals, Sequences, FiniteSets, SequencesExt

CONSTANTS
  m_slots,      \* the slots, in order
  Tuners,       \* the frontends of the transport stream multiplexer
  TUNER_A,      \* the first of them
  Handlers,     \* eDVBServicePMTHandlers that descramble
  Transponder,  \* of each service: [Services -> ...]
  Wants,        \* the services a handler may be tuned to
  Handles,      \* of each slot: the services whose CAIDs its module announces
  Mapped,       \* of each slot: its possible_services, the user's assignment; {} is none
  Multi,        \* slots with canDescrambleMultipleServices
  MaxVersion    \* bounds the PMT versions a handler sees

Services == DOMAIN Transponder
Slots == Range(m_slots)
NumSlots == Len(m_slots)
Sources == Tuners \cup Slots                  \* enum data_source
None == "none"

ASSUME CIAssumption ==
  /\ IsInjective(m_slots) /\ Len(m_slots) > 1 /\ TUNER_A \in Tuners
  /\ None \notin Sources /\ Tuners \cap Slots = {}
  /\ Wants \in [Handlers -> SUBSET Services]
  /\ Handles \in [Slots -> SUBSET Services] /\ Mapped \in [Slots -> SUBSET Services]
  /\ Multi \subseteq Slots /\ MaxVersion \in Nat

VARIABLES
  m_pmt_handlers,  \* the registered handlers, in order
  handler,         \* of each handler: m_reference, its tuner and its PMT's version (0: none)
  cislot,          \* of each handler: the head of its chain
  slot,            \* of each slot: the fields of eDVBCISlot, and what its module descrambles
  input,           \* of each tuner: /proc/stb/tsmux/input, where its stream comes from
  m_ca             \* the services whose CAIDs the database knows

vars == <<m_pmt_handlers, handler, cislot, slot, input, m_ca>>

\* The state, as one record for the operators below.
Now == [list |-> m_pmt_handlers, handler |-> handler, cislot |-> cislot, slot |-> slot,
        input |-> input, ca |-> m_ca]
Become(b) ==
  /\ m_pmt_handlers' = b.list /\ handler' = b.handler /\ cislot' = b.cislot
  /\ slot' = b.slot /\ input' = b.input /\ m_ca' = b.ca

\* The slots from s along linked_next.
ChainFrom(sl, s) ==
  LET walk[n \in 0 .. NumSlots, x \in Slots \cup {None}] ==
        IF n = 0 \/ x = None THEN <<>> ELSE <<x>> \o walk[n - 1, sl[x].linked_next]
  IN  walk[NumSlots, s]
Chain(b, h) == ChainFrom(b.slot, b.cislot[h])
Linked(b, h) == Range(Chain(b, h))

\* setSource and setInputSource
SetSource(b, s, source) == [b EXCEPT !.slot[s].current_source = source]
SetInput(b, t, source) == [b EXCEPT !.input[t] = source]

-----------------------------------------------------------------------------
(* CAPMTs *)

Running(b, s) == {v \in Services : b.slot[s].running_services[v] > 0}

\* eDVBCISlot::sendCAPMT. "only" replaces the module's list, "add" and "update" extend it.
SendCAPMT(b, s, h) ==
  LET v == b.handler[h].ref
  IN  IF \/ b.slot[s].ca_manager = None \/ b.handler[h].pmt = 0
         \/ b.slot[s].running_services[v] = b.handler[h].pmt
      THEN b
      ELSE [b EXCEPT !.slot[s].running_services[v] = b.handler[h].pmt,
                     !.slot[s].told = IF Running(b, s) = {} THEN {v} ELSE @ \cup {v}]

\* The empty CAPMT that removes a service. It is "only", and clears the list, if one service is
\* running or none, whichever it is for.
SendEmpty(b, s, h) ==
  IF b.slot[s].ca_manager = None \/ b.handler[h].pmt = 0 THEN b
  ELSE [b EXCEPT !.slot[s].told =
          IF Cardinality(Running(b, s)) <= 1 THEN {} ELSE @ \ {b.handler[h].ref}]

GotPMT(b, h) ==
  LET Send(c, s) == IF Running(c, s) = {} \/ s \in Multi THEN SendCAPMT(c, s, h) ELSE c
  IN  FoldLeft(Send, b, Chain(b, h))

-----------------------------------------------------------------------------
(* recheckPMTHandlers *)

\* A module takes the service: by the user's assignment, or by its CAIDs.
ByUser(s, v) == v \in Mapped[s]
ByCaid(b, s, v) == Mapped[s] = {} /\ b.slot[s].ca_manager = "info" /\ v \in Handles[s]
UseThis(b, s, v) == b.slot[s].ca_manager # None /\ (ByUser(s, v) \/ ByCaid(b, s, v))

\* A slot in use may be shared by a service, or by a transponder if its module can.
MayShare(b, s, h, g) ==
  \/ b.handler[g].ref = b.handler[h].ref
  \/ Transponder[b.handler[g].ref] = Transponder[b.handler[h].ref] /\ s \in Multi
Sharers(b, s, h) ==
  SelectSeq(b.list, LAMBDA g : g # h /\ s \in Linked(b, g) /\ MayShare(b, s, h, g))

\* Mutant of Share: the user is not counted.
ShareUncounted(b, h, g) == [b EXCEPT !.cislot[h] = b.cislot[g]]

\* h takes over the whole chain of g.
Share(b, h, g) ==
  [b EXCEPT !.cislot[h] = b.cislot[g],
            !.slot = [s \in Slots |-> IF s \in Linked(b, g)
                                      THEN [@[s] EXCEPT !.use_count = @ + 1] ELSE @[s]]]

\* A free slot becomes the head of h's chain, between the tuner and the old head.
Link(b, s, h) ==
  LET head == b.cislot[h]
      t == IF head = None THEN b.handler[h].tuner ELSE b.slot[head].current_tuner
      c == [b EXCEPT !.slot[s].use_count = 1, !.slot[s].current_tuner = t,
                     !.cislot[h] = s]
  IN  IF head = None
      THEN SetSource(SetInput(c, t, s), s, t)
      ELSE SetSource(SetSource([c EXCEPT !.slot[s].linked_next = head],
                               s, b.slot[head].current_source), head, s)

Take(b, s, h) ==
  IF b.slot[s].use_count = 0 THEN GotPMT(Link(b, s, h), h)
  ELSE LET with == Sharers(b, s, h) IN IF with = <<>> THEN b ELSE Share(b, h, with[1])

\* The slots in order; a service with a slot the user assigned to it gets no others.
Assign(b, h) ==
  LET v == b.handler[h].ref
      Check(a, s) ==
        IF a.done \/ ~UseThis(a.b, s, v) \/ s \in Linked(a.b, h) THEN a
        ELSE LET c == Take(a.b, s, h)
             IN  [b |-> c, done |-> c.cislot[h] # None /\ ByUser(s, v)]
  IN  FoldLeft(Check, [b |-> b, done |-> FALSE], m_slots).b

\* One handler: the first one clears the plugged flags; one with a running module is left alone.
RecheckOne(b, h) ==
  LET plugged == {s \in Slots : b.slot[s].plugged /\ b.slot[s].ca_manager # None}
      c == [b EXCEPT !.slot = [s \in Slots |->
              IF s \in plugged THEN [@[s] EXCEPT !.plugged = FALSE] ELSE @[s]]]
      known == [c EXCEPT !.ca = IF b.handler[h].pmt > 0 THEN @ \cup {b.handler[h].ref} ELSE @]
  IN  IF plugged = {} /\ \E s \in Linked(c, h) : Running(c, s) # {} THEN c
      ELSE IF b.handler[h].ref \in known.ca THEN Assign(known, h) ELSE known

Recheck(b) == FoldLeft(RecheckOne, b, b.list)

-----------------------------------------------------------------------------
(* The calls of the PMT handlers *)

NotTuned == [ref |-> None, tuner |-> None, pmt |-> 0]

\* Handlers on one transponder share its channel, and so its tuner.
TunerFor(v) ==
  LET others == {g \in Handlers : handler[g].ref # None}
      same == {g \in others : Transponder[handler[g].ref] = Transponder[v]}
  IN  IF same # {} THEN {handler[g].tuner : g \in same}
      ELSE Tuners \ {handler[g].tuner : g \in others}

\* eDVBServicePMTHandler::tuneExt, once it has a channel.
AddPMTHandler(h) ==
  /\ handler[h] = NotTuned
  /\ \E v \in Wants[h] : \E t \in TunerFor(v) :
       Become(Recheck([Now EXCEPT !.list = Append(@, h),
                                  !.handler[h] = [ref |-> v, tuner |-> t, pmt |-> 0]]))

\* Mutant of Bypass: as for the last slot of a chain.
BypassAsLast(b, s) == SetInput(b, b.slot[s].current_tuner, b.slot[s].current_source)

\* The stream passes s by: its source goes to the next slot of the chain, or to the input.
Bypass(b, s) ==
  LET x == b.slot[s]
  IN  IF x.linked_next # None THEN SetSource(b, x.linked_next, x.current_source)
      ELSE SetInput(b, x.current_tuner, x.current_source)

\* removePMTHandler for one slot of h's chain. It is the head of what is left of it: the branch
\* for others (707-723) reads the list entry that is erased by then.
Release(a, s) ==
  LET h == a.h
      told == IF a.same THEN a.b
              ELSE [SendEmpty(a.b, s, h) EXCEPT
                      !.slot[s].running_services[a.b.handler[h].ref] = 0]
      b == [told EXCEPT !.slot[s].use_count = @ - 1]
  IN  IF b.slot[s].use_count > 0 THEN [a EXCEPT !.b = b]
      ELSE [a EXCEPT !.b = [Bypass(b, s) EXCEPT !.slot[s].linked_next = None]]

\* eDVBServicePMTHandler::free; removePMTHandler.
RemovePMTHandler(h) ==
  LET same == \E g \in Handlers \ {h} :
                 cislot[g] # None /\ handler[g].ref = handler[h].ref
      off == [Now EXCEPT !.list = SelectSeq(@, LAMBDA g : g # h)]
      a == FoldLeft(Release, [b |-> off, h |-> h, same |-> same],
                    Chain(Now, h))
  IN  /\ handler[h] # NotTuned
      /\ Become(Recheck([a.b EXCEPT !.handler[h] = NotTuned, !.cislot[h] = None]))

\* A PMT, or a new version of it: PMTready.
PMTready(h) ==
  /\ handler[h] # NotTuned /\ handler[h].pmt < MaxVersion
  /\ Become(GotPMT(Recheck([Now EXCEPT !.handler[h].pmt = @ + 1]), h))

-----------------------------------------------------------------------------
(* The modules *)

SetCAManager(s, state) == [Now EXCEPT !.slot[s].ca_manager = state]

\* The module opens its CA session, and then announces its CAIDs.
OpenSession(s) ==
  slot[s].ca_manager = None /\ Become(SetCAManager(s, "open"))
\* Mutant of CaInfo: nobody is rechecked.
CaInfoOnly(s) ==
  slot[s].ca_manager = "open" /\ Become(SetCAManager(s, "info"))

CaInfo(s) ==
  slot[s].ca_manager = "open" /\ Become(Recheck(SetCAManager(s, "info")))

\* s leaves the chains: the handlers it is the head of, and the slots before it, skip it.
Unlink(b, s) ==
  LET next == b.slot[s].linked_next
  IN  [b EXCEPT
        !.cislot = [g \in Handlers |-> IF @[g] = s THEN next ELSE @[g]],
        !.slot = [x \in Slots |->
          IF @[x].linked_next = s /\ \E g \in Handlers : x \in Linked(b, g)
          THEN [@[x] EXCEPT !.linked_next = next] ELSE @[x]]]

\* ciRemoved: it does nothing for a slot that is not in use.
CiRemoved(b, s) ==
  LET out == Bypass(Unlink(b, s), s)
  IN  Recheck([out EXCEPT !.slot[s].linked_next = None, !.slot[s].use_count = 0,
                          !.slot[s].plugged = TRUE,
                          !.slot[s].running_services = [v \in Services |-> 0]])

\* eDVBCISlot::data: the module is pulled out; its sessions go, and the chains it was in.
Pull(s) ==
  /\ slot[s].ca_manager # None
  /\ LET b == [SetCAManager(s, None) EXCEPT !.slot[s].told = {}]
     IN  Become(IF slot[s].use_count > 0 THEN CiRemoved(b, s) ELSE b)

\* The user initialises the module: the first handler that has the slot sends its CAPMT.
Initialize(s) ==
  LET users == SelectSeq(m_pmt_handlers, LAMBDA h : s \in Linked(Now, h))
      b == [Now EXCEPT !.slot[s].running_services = [v \in Services |-> 0]]
  IN  /\ Become(IF users = <<>> THEN b ELSE SendCAPMT(b, s, users[1]))

-----------------------------------------------------------------------------

Slot0 ==
  [use_count |-> 0, linked_next |-> None, plugged |-> TRUE, ca_manager |-> None,
   current_source |-> TUNER_A, current_tuner |-> TUNER_A,
   running_services |-> [v \in Services |-> 0], told |-> {}]

Init ==
  /\ m_pmt_handlers = <<>>
  /\ handler = [h \in Handlers |-> NotTuned]
  /\ cislot = [h \in Handlers |-> None]
  /\ slot = [s \in Slots |-> Slot0]
  /\ input = [t \in Tuners |-> t]
  /\ m_ca \in SUBSET Services

Next ==
  \/ \E h \in Handlers : AddPMTHandler(h) \/ RemovePMTHandler(h) \/ PMTready(h)
  \/ \E s \in Slots : OpenSession(s) \/ CaInfo(s) \/ Pull(s) \/ Initialize(s)

Spec == Init /\ [][Next]_vars

-----------------------------------------------------------------------------

\* Types of the variables.
SlotType ==
  [use_count : Nat, linked_next : Slots \cup {None}, plugged : BOOLEAN,
   ca_manager : {None, "open", "info"}, current_source : Sources, current_tuner : Tuners,
   running_services : [Services -> 0 .. MaxVersion], told : SUBSET Services]

TypeOK ==
  /\ m_pmt_handlers \in Seq(Handlers)
  /\ handler \in [Handlers -> {NotTuned} \cup [ref : Services, tuner : Tuners, pmt : 0 .. MaxVersion]]
  /\ cislot \in [Handlers -> Slots \cup {None}]
  /\ slot \in [Slots -> SlotType]
  /\ input \in [Tuners -> Sources]
  /\ m_ca \in SUBSET Services

Users(s) == {h \in Handlers : s \in Linked(Now, h)}

\* UsesAreExact: a slot counts the handlers whose chains it is in, through links, shares,
\* departures and modules pulled out.
UsesAreExact == \A s \in Slots : slot[s].use_count = Cardinality(Users(s))

\* The slots tuner t's input passes, the tuner first.
RouteOf(t) ==
  LET walk[n \in 0 .. NumSlots + 1, x \in Sources] ==
        IF n = 0 \/ x \in Tuners THEN <<x>>
        ELSE Append(walk[n - 1, slot[x].current_source], x)
  IN  walk[NumSlots + 1, input[t]]

ChainsOf(t) ==
  {Chain(Now, h) : h \in {g \in Handlers : handler[g].tuner = t /\ cislot[g] # None}}

\* RoutesFollowChains: the multiplexer leads a tuner's stream through the slots of its
\* handlers' chains, in their order, and of a tuner without any through none.
RoutesFollowChains ==
  \A t \in Tuners :
    IF ChainsOf(t) = {} THEN RouteOf(t) = <<t>>
    ELSE \E c \in ChainsOf(t) : RouteOf(t) = <<t>> \o c

\* RunningUndisturbed ("we dont like to change tsmux for running services", dvbci.cpp:401):
\* unless a module is plugged or pulled, what a running service passes stays the same. It does
\* not hold: the line looks at the chain of one handler, and another handler on the same tuner
\* that takes a free module links it to the tuner, past the running one (592-619).
RunningUndisturbed ==
  [][\A h \in Handlers :
       (/\ handler[h] # NotTuned /\ handler'[h].ref = handler[h].ref
        /\ \E s \in Linked(Now, h) : Running(Now, s) # {}
        /\ \A s \in Slots : /\ slot[s].ca_manager # None => slot'[s].ca_manager # None
                            /\ slot[s].plugged => slot'[s].ca_manager = None)
       => RouteOf(handler[h].tuner)' = RouteOf(handler[h].tuner)]_vars

\* RunningIsTold: of what the slot takes for running, and will not send again, its module has
\* been told. It does not hold (an empty CAPMT is "only" too early, dvbci.cpp:1357), and no run
\* checks it; see the README.
RunningIsTold == \A s \in Slots : Running(Now, s) \subseteq slot[s].told

\* NobodyWaits ("check if another service is waiting for the CI", dvbci.cpp:728): no service
\* is without a module while one that could take it is in nobody's chain.
NobodyWaits ==
  \A h \in Range(m_pmt_handlers), s \in Slots :
    (/\ cislot[h] = None /\ handler[h].ref \in m_ca
     /\ slot[s].ca_manager = "info" /\ UseThis(Now, s, handler[h].ref))
    => Users(s) # {}

=============================================================================
