--------------------------- MODULE SatelliteControl ---------------------------
(* Satellite equipment control: the list of commands eDVBSatelliteEquipmentControl::prepare
   (lib/dvb/sec.cpp) writes for a satellite, and eDVBFrontend::tuneLoop (lib/dvb/frontend.cpp)
   which executes it, one command for each time its timer fires, while channels come and go.
   m_data remembers how the switches and the rotor are believed to stand, so that only what
   must change is sent. Frontends may be linked in a chain: the first one's cable serves them
   all. Left out: Unicable, rotors that several cables share, the choice between LNBs by
   score, fixed and increased voltages, DiSEqC at 13 V, FBC tuners, simulation.            *)
EXTENDS Integers, Sequences, FiniteSets, SequencesExt

CONSTANTS
  Boxes,       \* what may be installed: [frontends, lnbs, sats, positioner]
  StartTime,   \* SET_TIMEOUT of the loop that waits for the rotor to start, in rounds
  RunTime,     \* and of those that wait for it to arrive
  Retries,     \* MOTOR_COMMAND_RETRIES
  OkSteps,     \* readings a loop takes for noise before it believes one
  Env          \* "crossed", "letgo", "fade", "slow": see the actions

\* A box has a chain of frontends and LNBs; a satellite is received by one of them.
Frontends == UNION {Range(b.frontends) : b \in Boxes}
Lnb == [mode : 0 .. 3, committed : 0 .. 4, uncommitted : 0 .. 255, toneburst : 0 .. 2,
        order : 0 .. 5, repeats : 0 .. 3, fast : BOOLEAN, twice : BOOLEAN,
        inputpower : BOOLEAN, turn_fast : BOOLEAN]
Satellite(b) == [lnb : DOMAIN b.lnbs, pos : Nat \ {0}, horizontal : BOOLEAN, high : BOOLEAN]

NONE == 0      \* t_diseqc_mode
V1_0 == 1
V1_2 == 3
SENDNO == 4    \* no committed command
voltageOff == 0
voltage13 == 1
voltage18 == 2
toneOff == 0
toneOn == 1

ASSUME SatelliteAssumption ==
  /\ StartTime \in Nat \ {0} /\ RunTime \in Nat \ {0} /\ Retries \in Nat /\ OkSteps \in Nat
  /\ \A b \in Boxes :
       /\ b.frontends # <<>> /\ IsInjective(b.frontends) /\ b.positioner \in BOOLEAN
       /\ \A l \in DOMAIN b.lnbs : b.lnbs[l] \in Lnb
       /\ b.sats \subseteq Satellite(b)
       /\ \A k, l \in DOMAIN b.lnbs : b.lnbs[k].order = b.lnbs[l].order

VARIABLES
  box,     \* what is installed
  fe,      \* of each frontend: its use, timers and state, and what it is tuned to
  sec,     \* of each frontend: m_sec_sequence and what its commands keep
  m_data,  \* of the first one: what is known of the cable
  hw       \* how the switches and the rotor stand

vars == <<box, fe, sec, m_data, hw>>

\* The state, as one record for the operators below.
Now == [fe |-> fe, sec |-> sec, m_data |-> m_data, hw |-> hw]
Become(b) == fe' = b.fe /\ sec' = b.sec /\ m_data' = b.m_data /\ hw' = b.hw

Tuners == Range(box.frontends)
Base == box.frontends[1]             \* the end of LINKED_PREV_PTR: sec_fe
Others(f) == Tuners \ {f}
LnbOf(t) == box.lnbs[t.lnb]

-----------------------------------------------------------------------------
(* The equipment. Switches stand in a cascade: one that is turned leads to another, of which
   nothing is known. A position is the parameter of the command; Unknown is none.          *)

Unknown == -1
Between == 0      \* the rotor is at no satellite

\* m_command_order, the switches from the receiver on: committed, uncommitted, toneburst.
Cascade(order) ==
  CASE order \in {0, 2} -> <<"c", "u", "t">>
    [] order \in {1, 3} -> <<"t", "c", "u">>
    [] order = 4 -> <<"u", "c", "t">>
    [] order = 5 -> <<"t", "u", "c">>

Order == box.lnbs[CHOOSE l \in DOMAIN box.lnbs : TRUE].order

\* Position and option of a committed switch; the band is in the lowest bits.
Port(s, v) == IF s = "c" /\ v # Unknown THEN v \div 4 ELSE v

\* A switch is told v: those behind it become another's.
Turn(h, s, v) ==
  LET c == Cascade(Order)
      behind == {c[j] : j \in {i \in 1 .. 3 : \E k \in 1 .. i - 1 : c[k] = s}}
  IN  [x \in DOMAIN h |-> IF x = s THEN v
                          ELSE IF x \in behind /\ Port(s, v) # Port(s, h[s]) THEN Unknown
                          ELSE h[x]]

Moving(h) == h.aim # h.there
Stop(h) == IF Moving(h) THEN [h EXCEPT !.aim = Between, !.there = Between] ELSE h
Aim(h, p) == IF h.aim = p THEN h ELSE [h EXCEPT !.aim = p, !.there = Between]
Forget(h) == [h EXCEPT !.c = Unknown, !.u = Unknown, !.t = Unknown]

\* readInputpower: the rotor draws more while it moves, and everything at a higher voltage.
InputPower(b) == 10 * b.m_data.voltage + IF Moving(b.hw) THEN 5 ELSE 0
Delta == 3

\* A command on a cable without voltage, or under the continuous tone, is wasted.
Heard(b) == b.m_data.voltage # voltageOff /\ b.m_data.tone = toneOff
Send(b, h) == IF Heard(b) THEN [b EXCEPT !.hw = h] ELSE b

-----------------------------------------------------------------------------
(* Frontends: open, close, voltage *)

ResetSwitches(b) == [b EXCEPT !.m_data.csw = Unknown, !.m_data.ucsw = Unknown,
                              !.m_data.burst = Unknown]

\* Mutant of SetVoltage: what was known stays.
SetVoltageOnly(b, v) ==
  [b EXCEPT !.m_data.voltage = v,
            !.hw = IF v = voltageOff THEN Forget(Stop(@)) ELSE @]

\* setVoltage: without voltage nothing is known of the switches.
SetVoltage(b, v) ==
  LET c == [b EXCEPT !.m_data.voltage = v]
  IN  IF v = voltageOff THEN [ResetSwitches(c) EXCEPT !.hw = Forget(Stop(@))] ELSE c
SetTone(b, t) == [b EXCEPT !.m_data.tone = t]
Dark(b, f) == IF f = Base THEN SetVoltage(SetTone(b, toneOff), voltageOff) ELSE b

\* openFrontend
Open(b, f) ==
  IF b.fe[f].state # "closed" THEN b
  ELSE Dark([b EXCEPT !.fe[f].state = "idle", !.fe[f].tuning = FALSE, !.fe[f].sn = FALSE], f)

\* closeFrontend, forced or not refused. What it was tuned to is of no use any more, nor is a
\* list that has no timer: the next tune begins another.
NoSat == [lnb |-> 0, pos |-> 0, horizontal |-> FALSE, high |-> FALSE]
Close(b, f) ==
  LET c == [b EXCEPT !.fe[f].state = "closed", !.fe[f].sn = FALSE, !.fe[f].to = NoSat]
  IN  Dark(IF b.fe[f].state = "closed" THEN c
           ELSE [c EXCEPT !.fe[f].moving = FALSE, !.sec[f].timer = FALSE,
                          !.sec[f].list = <<>>, !.sec[f].cur = 1], f)

\* Not while a frontend behind this one gets its voltage.
MayClose(b, f) ==
  f = Base => b.m_data.voltage = voltageOff \/ \A g \in Others(f) : ~b.fe[g].inuse

-----------------------------------------------------------------------------
(* canTune and prepare *)

Band(t) == (IF t.high THEN 1 ELSE 0) + (IF t.horizontal THEN 2 ELSE 0)
Voltage(t) == IF t.horizontal THEN voltage18 ELSE voltage13
Tone(t) == IF t.high THEN toneOn ELSE toneOff
Csw(t) ==
  LET l == LnbOf(t)
  IN  CASE l.mode = NONE -> Band(t)
        [] l.mode # NONE /\ l.committed < SENDNO -> 240 + 4 * l.committed + Band(t)
        [] l.mode # NONE /\ l.committed = SENDNO -> SENDNO + Band(t)
IsRotor(t) == LnbOf(t).mode = V1_2

\* Mutant of CanTune: the committed switch is not compared.
CanTuneUncommitted(b, f, t, positioner) ==
  LET l == LnbOf(t)
  IN  /\ positioner => IsRotor(t)
      /\ (\E g \in Others(f) : b.fe[g].inuse) =>
           /\ l.mode # NONE => b.m_data.ucsw = l.uncommitted /\ b.m_data.burst = l.toneburst
           /\ IsRotor(t) => b.m_data.pos = t.pos

\* When a linked frontend is in use, the cable must already stand as t needs it.
CanTune(b, f, t, positioner) ==
  LET l == LnbOf(t)
  IN  /\ positioner => IsRotor(t)
      /\ (\E g \in Others(f) : b.fe[g].inuse) =>
           /\ b.m_data.csw = Csw(t)
           /\ l.mode # NONE => b.m_data.ucsw = l.uncommitted /\ b.m_data.burst = l.toneburst
           /\ IsRotor(t) => b.m_data.pos = t.pos

\* What of the cascade the LNB of t needs.
Needs(t) ==
  LET l == LnbOf(t)
  IN  [c |-> l.committed # SENDNO, u |-> l.uncommitted # 0 /\ l.mode > V1_0, t |-> l.toneburst # 0]

\* What must be sent of it. With m_use_fast no other band is worth a command.
Changed(b, t, force) ==
  LET l == LnbOf(t)
      d == b.m_data
  IN  [c |-> /\ Needs(t).c /\ (force \/ Csw(t) # d.csw)
             /\ ~(l.fast /\ Csw(t) \div 4 = d.csw \div 4),
       u |-> Needs(t).u /\ (force \/ l.uncommitted # d.ucsw),
       t |-> Needs(t).t /\ (force \/ l.toneburst # d.burst)]

\* Mutant of SendMask: only what has changed.
SendMaskChanged(b, t, force) ==
  LET x == Changed(b, t, force)
      odd == LnbOf(t).order % 2 = 1
  IN  [c |-> x.c, u |-> x.u, first |-> x.t /\ odd, last |-> x.t /\ ~odd]

\* send_mask: what has changed, and what stands behind it.
SendMask(b, t, force) ==
  LET n == Needs(t)
      x == Changed(b, t, force)
      order == LnbOf(t).order
      odd == order % 2 = 1      \* the toneburst comes first
  IN  [c |-> x.c \/ (n.c /\ ((x.t /\ odd) \/ (x.u /\ order >= 4))),
       u |-> x.u \/ (n.u /\ ((x.t /\ odd) \/ (x.c /\ order < 4))),
       first |-> x.t /\ odd,
       last |-> (x.t /\ ~odd) \/ (n.t /\ ((x.u /\ order = 4) \/ (x.c /\ ~odd)))]

-----------------------------------------------------------------------------
(* The commands. SEND_DISEQC has the command byte as its argument, a jump its steps. *)

Cmd(c, v, arg) == [cmd |-> c, val |-> v, arg |-> arg]
Do(c) == Cmd(c, 0, 0)
Set(c, v) == Cmd(c, v, 0)
Goto(n) == Cmd("GOTO", 0, n)
Sleep == Do("SLEEP")
When(cond, s) == IF cond THEN s ELSE <<>>

DiseqcReset == 0      \* command bytes
PowerOn == 3
Committed == 56
Uncommitted == 57
RotorStop == 96
GotoPosition == 107
Diseqc(byte, v) == Cmd("SEND_DISEQC", v, byte)

ToneOff == <<Cmd("IF_TONE_GOTO", toneOff, 3), Set("SET_TONE", toneOff), Sleep>>

\* The switches: voltage vlt first, then reset, then what m says, in m_command_order.
SwitchCommands(t, m, vlt, reset) ==
  LET l == LnbOf(t)
      burst == <<Set("SEND_TONEBURST", l.toneburst), Sleep>>
      c == When(m.c, <<Diseqc(Committed, Csw(t)), Sleep>>)
      u == When(m.u, <<Diseqc(Uncommitted, l.uncommitted), Sleep>>)
      once == IF l.order >= 4 THEN u \o c ELSE c \o u
      repeats == IF l.mode > V1_0 THEN 2 ^ l.repeats ELSE 1
      all == When(m.first, burst) \o FlattenSeq([i \in 1 .. repeats |-> once]) \o When(m.last, burst)
  IN  ToneOff
      \o <<Cmd("IF_VOLTAGE_GOTO", vlt, 7), Cmd("IF_VOLTAGE_GOTO", voltageOff, 4),
           Set("SET_VOLTAGE", vlt), Sleep, Goto(3), Set("SET_VOLTAGE", vlt), Sleep,
           Do("INVALIDATE_CURRENT_SWITCHPARMS")>>
      \o When(reset, <<Diseqc(DiseqcReset, 0), Sleep, Diseqc(PowerOn, 0), Sleep>>)
      \o all \o When(l.twice, <<Sleep>> \o all)

\* Mutant of BeforeRotor: the tone is not switched off.
BeforeRotorKeepsTone(l, switched) ==
  <<Cmd("IF_ROTORPOS_VALID_GOTO", 0, 5), Diseqc(RotorStop, 0), Sleep, Diseqc(RotorStop, 0), Sleep>>

\* Before the rotor's command: on an idle cable the voltage, which skips the rest up to the
\* measurement or to INVALIDATE; a rotor of unknown position is stopped.
BeforeRotor(l, switched) ==
  (IF switched THEN <<Sleep>>
   ELSE ToneOff \o <<Cmd("IF_NOT_VOLTAGE_GOTO", voltageOff, 4),
                     Set("SET_VOLTAGE", IF l.inputpower THEN voltage18 ELSE voltage13), Sleep,
                     Goto(9)>>)
  \o <<Cmd("IF_ROTORPOS_VALID_GOTO", 0, 5), Diseqc(RotorStop, 0), Sleep, Diseqc(RotorStop, 0), Sleep>>

\* The rotor is watched by the power it draws.
WatchRotor(t) ==
  LET fast == LnbOf(t).turn_fast
      v == IF fast THEN voltage18 ELSE voltage13
      idle(i) == <<Sleep, Set("MEASURE_IDLE_INPUTPOWER", i),
                   Cmd("IF_MEASURE_IDLE_WAS_NOT_OK_GOTO", i, -2)>>
      watch == <<Sleep, Do("MEASURE_RUNNING_INPUTPOWER")>>
  IN  <<Cmd("IF_VOLTAGE_GOTO", v, 3), Set("SET_VOLTAGE", v)>>
      \o When(fast, idle(1) \o <<Set("SET_VOLTAGE", voltage13)>>) \o idle(0)
      \o <<Set("SET_ROTOR_DISEQC_RETRYS", Retries), Do("INVALIDATE_CURRENT_ROTORPARMS"),
           Diseqc(GotoPosition, t.pos), Set("SET_TIMEOUT", StartTime)>>
      \o watch
      \o <<Cmd("IF_INPUTPOWER_DELTA_GOTO", 1, 5), Cmd("IF_TIMEOUT_GOTO", 0, 2), Goto(-4),
           Cmd("IF_NO_MORE_ROTOR_DISEQC_RETRYS_GOTO", 0, IF fast THEN 10 ELSE 9), Goto(-8),
           Do("SET_ROTOR_MOVING")>>
      \o When(fast, <<Set("SET_VOLTAGE", voltage18)>>) \o <<Set("SET_TIMEOUT", RunTime)>>
      \o watch
      \o <<Cmd("IF_INPUTPOWER_DELTA_GOTO", 0, 3), Cmd("IF_TIMEOUT_GOTO", 0, 2), Goto(-4),
           Do("UPDATE_CURRENT_ROTORPARAMS"), Do("SET_ROTOR_STOPPED")>>

\* The rotor is known to be there when the tuner locks, or when its time is over.
AwaitRotor(t) ==
  <<Cmd("IF_VOLTAGE_GOTO", voltage13, 3), Set("SET_VOLTAGE", voltage13), Sleep,
    Do("INVALIDATE_CURRENT_ROTORPARMS"), Do("SET_ROTOR_MOVING"), Diseqc(GotoPosition, t.pos), Sleep,
    Cmd("IF_VOLTAGE_GOTO", Voltage(t), 3), Sleep, Set("SET_VOLTAGE", Voltage(t)),
    Cmd("IF_TONE_GOTO", Tone(t), 3), Set("SET_TONE", Tone(t)), Sleep, Set("SET_FRONTEND", 0),
    Set("SET_TIMEOUT", RunTime), Sleep, Cmd("IF_TUNER_LOCKED_GOTO", 1, 3),
    Cmd("IF_TIMEOUT_GOTO", 0, 5), Goto(-3),
    Do("UPDATE_CURRENT_ROTORPARAMS"), Do("SET_ROTOR_STOPPED"), Goto(4),
    Do("START_TUNE_TIMEOUT"), Set("SET_FRONTEND", 1), Goto(-5)>>

\* The first frontend is about to be closed and opened again, see ForceOpen.
Forced(b, f) == f # Base /\ ~b.fe[Base].inuse /\ b.fe[Base].state # "idle"

\* prepare, after canTune.
Prepare(b, f, t, positioner) ==
  LET l == LnbOf(t)
      d == b.m_data
      m == SendMask(b, t, Forced(b, f))
      switched == l.mode # NONE /\ (m.c \/ m.u \/ m.first \/ m.last)
      reset == d.csw = Unknown /\ d.ucsw = Unknown /\ d.burst = Unknown
      turn == IsRotor(t) /\ ~positioner /\ t.pos # d.cmd
      vlt == IF ~turn THEN Voltage(t) ELSE IF l.inputpower THEN voltage18 ELSE voltage13
      wait == turn /\ ~l.inputpower
      list ==
        <<Do("SET_POWER_LIMITING_MODE")>>
        \o When(switched, SwitchCommands(t, m, vlt, reset))
        \o When(l.mode = NONE, <<Do("INVALIDATE_CURRENT_SWITCHPARMS")>>)
        \o When(turn, BeforeRotor(l, switched) \o (IF wait THEN AwaitRotor(t) ELSE WatchRotor(t)))
        \o When(~wait, <<Cmd("IF_VOLTAGE_GOTO", Voltage(t), 3), Set("SET_VOLTAGE", Voltage(t)), Sleep,
                         Cmd("IF_TONE_GOTO", Tone(t), 3), Set("SET_TONE", Tone(t)), Sleep>>)
        \o <<Do("UPDATE_CURRENT_SWITCHPARMS")>>
        \o When(~wait, <<Do("START_TUNE_TIMEOUT"), Set("SET_FRONTEND", 1)>>)
        \o <<Sleep, Do("SET_POWER_LIMITING_MODE")>>
  IN  [b EXCEPT !.sec[f].list = list, !.sec[f].cur = 1, !.sec[f].ok = <<0, 0>>,
                !.m_data.new_csw = Csw(t), !.m_data.new_ucsw = l.uncommitted,
                !.m_data.new_burst = l.toneburst,
                !.m_data.new_pos = IF turn THEN t.pos ELSE @]

-----------------------------------------------------------------------------
(* tune *)

\* The search for the first frontend takes LINKED_NEXT_PTR in feEvent and tune: from any but
\* the first it ends at the last.
WalkedTo(f) == IF f = Base THEN Base ELSE Last(box.frontends)
ResetOf(b, f) == IF f = Base THEN ResetSwitches(b) ELSE b

\* reset diseqc after leave rotor mode
LeaveRotorMode(b, f) ==
  IF WalkedTo(f) # Base THEN b
  ELSE [ResetSwitches(b) EXCEPT !.m_data.cmd = Unknown, !.m_data.pos = Unknown]

\* eDVBFrontend::tune: when t cannot be tuned the timer is stopped, and so is m_sn.
DoTune(b, f, t, positioner) ==
  LET c == [b EXCEPT !.fe[f].timeout = FALSE, !.fe[f].sn = FALSE, !.sec[f].list = <<>>, !.sec[f].cur = 1,
                     !.fe[f].rotor_mode = positioner, !.fe[f].moving = FALSE]
      d == IF b.fe[f].rotor_mode /\ ~positioner THEN LeaveRotorMode(c, f) ELSE c
  IN  IF CanTune(d, f, t, positioner)
      THEN [Prepare(d, f, t, positioner) EXCEPT
              !.fe[f].to = t, !.fe[f].state = "tuning", !.fe[f].tuning = TRUE, !.sec[f].timer = TRUE]
      ELSE [d EXCEPT !.sec[f].timer = FALSE]

\* "crossed": a frontend is tuned while the list of another is executed.
Alone(f) == "crossed" \in Env \/ \A g \in Others(f) : ~sec[g].timer

\* A channel is allocated and tuned, or tuned anew.
Tune(f, t, positioner) ==
  /\ f \in Tuners /\ t \in box.sats /\ (positioner => box.positioner)
  /\ Alone(f)
  /\ fe[f].inuse \/ CanTune(Now, f, t, positioner)
  /\ Become(DoTune([Open(Now, f) EXCEPT !.fe[f].inuse = TRUE], f, t, positioner))
  /\ UNCHANGED box

\* dec_use. "letgo": the first one is let go, or closed, while another's list is executed.
Release(f) ==
  /\ f \in Tuners /\ fe[f].inuse
  /\ f = Base => "letgo" \in Env \/ \A g \in Others(f) : ~sec[g].timer
  /\ Become([Now EXCEPT !.fe[f].inuse = FALSE, !.fe[f].disable = TRUE])
  /\ UNCHANGED box

\* eDVBRegisteredFrontend::closeFrontend, after 3 s, and again after 60 s if it is refused.
CloseFrontend(f) ==
  /\ f \in Tuners /\ fe[f].disable
  /\ f = Base => "letgo" \in Env \/ \A g \in Others(f) : ~sec[g].timer
  /\ LET close == ~fe[f].inuse /\ MayClose(Now, f)
         b == [Now EXCEPT !.fe[f].disable = ~fe[f].inuse /\ ~close]
     IN  b # Now /\ Become(IF close THEN Close(b, f) ELSE b)
  /\ UNCHANGED box

\* The same satellite again, by a managed channel.
Retune(b, f) ==
  IF b.fe[f].inuse /\ ~b.fe[f].rotor_mode THEN DoTune(b, f, b.fe[f].to, FALSE) ELSE b

-----------------------------------------------------------------------------
(* What the cable gives *)

\* The switches, voltage and tone, and where the rotor goes, are as t needs them.
Serves(b, t, positioner) ==
  LET l == LnbOf(t)
      n == Needs(t)
  IN  /\ b.m_data.voltage = Voltage(t) /\ b.m_data.tone = Tone(t)
      /\ l.mode # NONE =>
           /\ n.c => IF l.fast THEN Port("c", b.hw.c) = Port("c", Csw(t)) ELSE b.hw.c = Csw(t)
           /\ n.u => b.hw.u = l.uncommitted
           /\ n.t => b.hw.t = l.toneburst
      /\ IsRotor(t) /\ ~positioner => b.hw.aim = t.pos
IsServed(b, f) == Serves(b, b.fe[f].to, b.fe[f].rotor_mode)
Receives(b, f) == IsServed(b, f) /\ ~Moving(b.hw)

-----------------------------------------------------------------------------
(* tuneLoop *)

\* The first frontend is open while another one's commands use it: if nobody uses it, it is
\* closed unless idle, and opened. It is closed again later.
ForceOpen(b, f) ==
  IF f = Base \/ b.fe[Base].inuse \/ b.fe[Base].state = "idle" THEN b
  ELSE [Open(Close(b, Base), Base) EXCEPT !.fe[Base].disable = TRUE]

Obeyed(h, byte, v) ==
  CASE byte = DiseqcReset -> Forget(h)
    [] byte = PowerOn -> h
    [] byte = Committed -> Turn(h, "c", v)
    [] byte = Uncommitted -> Turn(h, "u", v)
    [] byte = RotorStop -> Stop(h)
    [] byte = GotoPosition -> Aim(h, v)

\* A reading of power or lock, one of Len(ok) in a row; a round of the loop.
Believe(b, f, i, good) ==
  [b EXCEPT !.sec[f].ok[i] = IF good THEN @ + 1 ELSE 0]

\* Mutant of Round: a round does not count.
RoundUncounted(b, f) == b

Round(b, f) ==
  LET n == b.sec[f].timeouts - 1
  IN  [b EXCEPT !.sec[f].timeouts = n,
                !.sec[f].retries = IF n = 0 /\ @ > 0 THEN @ - 1 ELSE @]

Difference(b, f, reading) ==
  LET idle == b.sec[f].idle[IF b.m_data.voltage = voltage13 THEN 1 ELSE 2]
  IN  IF reading > idle THEN reading - idle ELSE idle - reading

Locked(b, f, locked) ==
  LET c == Believe(Round([b EXCEPT !.sec[f].idle = <<0, 0>>], f), f, 2, locked)
  IN  IF c.sec[f].ok[2] > OkSteps THEN [c EXCEPT !.fe[f].state = "lock", !.fe[f].sn = TRUE] ELSE c

\* What a command does but for the position in the list.
Effect(b, f, k, locked) ==
  CASE k.cmd = "SET_VOLTAGE" -> SetVoltage(b, k.val)
    [] k.cmd = "SET_TONE" -> SetTone(b, k.val)
    [] k.cmd = "SEND_DISEQC" -> Send(b, Obeyed(b.hw, k.arg, k.val))
    [] k.cmd = "SEND_TONEBURST" -> Send(b, Turn(b.hw, "t", k.val))
    [] k.cmd = "SET_FRONTEND" -> [b EXCEPT !.fe[f].sn = @ \/ k.val = 1]
    [] k.cmd = "START_TUNE_TIMEOUT" -> [b EXCEPT !.fe[f].timeout = TRUE]
    [] k.cmd = "SET_TIMEOUT" -> [b EXCEPT !.sec[f].timeouts = k.val]
    [] k.cmd = "SET_ROTOR_DISEQC_RETRYS" -> [b EXCEPT !.sec[f].retries = k.val]
    [] k.cmd = "MEASURE_IDLE_INPUTPOWER" -> [b EXCEPT !.sec[f].idle[k.val + 1] = InputPower(b)]
    [] k.cmd = "MEASURE_RUNNING_INPUTPOWER" -> [b EXCEPT !.sec[f].running = InputPower(b)]
    [] k.cmd = "IF_INPUTPOWER_DELTA_GOTO" ->
         LET d == Difference(b, f, b.sec[f].running)
         IN  Believe(Round(b, f), f, k.val + 1, IF k.val = 1 THEN d >= Delta ELSE d <= Delta)
    [] k.cmd = "IF_TUNER_LOCKED_GOTO" -> Locked(b, f, locked)
    [] k.cmd = "SET_ROTOR_MOVING" -> [b EXCEPT !.fe[f].moving = TRUE]
    [] k.cmd = "SET_ROTOR_STOPPED" -> [b EXCEPT !.fe[f].moving = FALSE]
    [] k.cmd = "INVALIDATE_CURRENT_SWITCHPARMS" -> ResetSwitches(b)
    [] k.cmd = "UPDATE_CURRENT_SWITCHPARMS" ->
         [b EXCEPT !.m_data.csw = b.m_data.new_csw, !.m_data.ucsw = b.m_data.new_ucsw,
                   !.m_data.burst = b.m_data.new_burst]
    [] k.cmd = "INVALIDATE_CURRENT_ROTORPARMS" ->
         [b EXCEPT !.m_data.cmd = Unknown, !.m_data.pos = Unknown]
    [] k.cmd = "UPDATE_CURRENT_ROTORPARAMS" ->
         [b EXCEPT !.m_data.cmd = b.m_data.new_pos, !.m_data.pos = b.m_data.new_pos]
    [] OTHER -> b

\* Whether a command jumps, after its effect.
Jumps(b, f, k) ==
  CASE k.cmd = "GOTO" -> TRUE
    [] k.cmd = "IF_VOLTAGE_GOTO" -> b.m_data.voltage = k.val
    [] k.cmd = "IF_NOT_VOLTAGE_GOTO" -> b.m_data.voltage # k.val
    [] k.cmd = "IF_TONE_GOTO" -> b.m_data.tone = k.val
    [] k.cmd = "IF_TIMEOUT_GOTO" -> b.sec[f].timeouts = 0
    [] k.cmd = "IF_MEASURE_IDLE_WAS_NOT_OK_GOTO" -> b.sec[f].idle[k.val + 1] # InputPower(b)
    [] k.cmd \in {"IF_INPUTPOWER_DELTA_GOTO", "IF_TUNER_LOCKED_GOTO"} ->
         b.sec[f].ok[k.val + 1] > OkSteps
    [] k.cmd = "IF_ROTORPOS_VALID_GOTO" -> b.m_data.cmd # Unknown /\ b.m_data.pos # Unknown
    [] k.cmd = "IF_NO_MORE_ROTOR_DISEQC_RETRYS_GOTO" -> b.sec[f].retries = 0
    [] OTHER -> FALSE

\* setSecSequencePos stops at the ends of the list.
Moved(list, i, steps) ==
  IF i + steps > Len(list) THEN Len(list) + 1 ELSE IF i + steps < 1 THEN 1 ELSE i + steps

Execute(b, f, locked) ==
  LET s == b.sec[f]
      k == s.list[s.cur]
      c == Effect(b, f, k, locked)
  IN  [c EXCEPT !.sec[f].cur = Moved(s.list, s.cur, IF Jumps(c, f, k) THEN k.arg ELSE 1)]

\* A list that is over is forgotten, with the counters it sets itself.
Finished(b, f) ==
  [b EXCEPT !.sec[f] = [@ EXCEPT !.list = <<>>, !.cur = 1, !.timer = FALSE, !.timeouts = 0,
                                 !.retries = 0, !.ok = <<0, 0>>, !.running = 0]]

\* "slow": the rotor needs longer than RunTime.
InTime(f) ==
  LET s == sec[f]
  IN  "slow" \in Env \/ ~(/\ Moving(hw) /\ s.timeouts = 1 /\ s.cur <= Len(s.list)
                          /\ s.list[s.cur].cmd \in {"IF_INPUTPOWER_DELTA_GOTO", "IF_TUNER_LOCKED_GOTO"})

TuneLoop(f) ==
  /\ f \in Tuners /\ sec[f].timer /\ InTime(f)
  /\ LET b == ForceOpen(Now, f)
     IN  IF sec[f].cur > Len(sec[f].list) THEN Become(Finished(b, f))
         ELSE \E locked \in BOOLEAN :
                /\ locked => /\ sec[f].list[sec[f].cur].cmd = "IF_TUNER_LOCKED_GOTO"
                             /\ Receives(b, f)
                /\ Become(Execute(b, f, locked))
  /\ UNCHANGED box

-----------------------------------------------------------------------------
(* Events of the tuner and of the rotor *)

Lock(f) ==
  /\ f \in Tuners /\ fe[f].sn /\ fe[f].state # "lock" /\ Receives(Now, f)
  /\ fe' = [fe EXCEPT ![f].state = "lock"]
  /\ UNCHANGED <<box, sec, m_data, hw>>

\* "fade": a signal may fail while a linked frontend is in use.
MayFade(f) == "fade" \in Env \/ \A g \in Others(f) : ~fe[g].inuse

\* feEvent: while m_timeout runs the tuner is tuning again, afterwards the lock is lost.
Loss(f) ==
  /\ f \in Tuners /\ fe[f].sn /\ fe[f].state = "lock" /\ MayFade(f) /\ ~sec[f].timer /\ Alone(f)
  /\ Become(IF fe[f].tuning THEN [Now EXCEPT !.fe[f].state = "tuning"]
            ELSE LET b == [Now EXCEPT !.fe[f].state = "lost"]
                 IN  Retune(IF fe[f].rotor_mode THEN b ELSE ResetOf(b, WalkedTo(f)), f))
  /\ UNCHANGED box

\* eDVBFrontend::timeout
Expire(b, f) ==
  LET c == [b EXCEPT !.fe[f].tuning = FALSE]
  IN  IF b.fe[f].state # "tuning" THEN c
      ELSE Retune(ResetOf([c EXCEPT !.fe[f].state = "failed"], f), f)
MayExpire(f) == f \in Tuners /\ Alone(f) /\ (fe[f].state = "tuning" => MayFade(f))

\* m_timeout: the rest of a list takes less time.
Timeout(f) ==
  /\ MayExpire(f) /\ fe[f].timeout /\ ~sec[f].timer
  /\ Become(Expire([Now EXCEPT !.fe[f].timeout = FALSE], f))
  /\ UNCHANGED box

\* feEvent: the driver gives up (FE_TIMEDOUT), which stops the list wherever it is.
TimedOut(f) ==
  /\ MayExpire(f) /\ fe[f].sn /\ fe[f].tuning
  /\ Become(Expire(Finished(Now, f), f))
  /\ UNCHANGED box

RotorArrives ==
  /\ Moving(hw) /\ m_data.voltage # voltageOff
  /\ hw' = [hw EXCEPT !.there = hw.aim]
  /\ UNCHANGED <<box, fe, sec, m_data>>

\* The user turns the rotor in the positioner's setup.
PositionerMoves ==
  /\ fe[Base].inuse /\ fe[Base].rotor_mode /\ ~sec[Base].timer
  /\ \E t \in box.sats : hw' = Aim(hw, t.pos)
  /\ UNCHANGED <<box, fe, sec, m_data>>

-----------------------------------------------------------------------------

Closed == [state |-> "closed", inuse |-> FALSE, disable |-> FALSE, sn |-> FALSE,
           tuning |-> FALSE, timeout |-> FALSE, rotor_mode |-> FALSE, moving |-> FALSE, to |-> NoSat]
NoList == [list |-> <<>>, cur |-> 1, timer |-> FALSE, timeouts |-> 0, retries |-> 0,
           ok |-> <<0, 0>>, idle |-> <<0, 0>>, running |-> 0]

Init ==
  /\ box \in Boxes
  /\ fe = [f \in Frontends |-> Closed]
  /\ sec = [f \in Frontends |-> NoList]
  /\ m_data = [csw |-> Unknown, ucsw |-> Unknown, burst |-> Unknown, cmd |-> Unknown,
               pos |-> Unknown, new_csw |-> Unknown, new_ucsw |-> Unknown,
               new_burst |-> Unknown, new_pos |-> Unknown,
               voltage |-> voltageOff, tone |-> toneOff]
  /\ hw = [c |-> Unknown, u |-> Unknown, t |-> Unknown, aim |-> Between, there |-> Between]

Tunes(f) == \E t \in box.sats, positioner \in BOOLEAN : Tune(f, t, positioner)

Next ==
  \/ \E f \in Frontends : \/ Tunes(f) \/ Release(f) \/ CloseFrontend(f) \/ TuneLoop(f)
                          \/ Lock(f) \/ Loss(f) \/ Timeout(f) \/ TimedOut(f)
  \/ RotorArrives \/ PositionerMoves

Spec == Init /\ [][Next]_vars

\* The main loop serves the timer of a list as long as it is set, and a rotor that has voltage
\* arrives. The first is WF_vars(TuneLoop(f)), said of what a step of the list changes.
IsServedByLoop(f) == []<>~(sec[f].timer /\ InTime(f)) \/ []<><<sec'[f] # sec[f]>>_sec
FairSpec == Spec /\ WF_vars(RotorArrives) /\ \A f \in Frontends : IsServedByLoop(f)

-----------------------------------------------------------------------------

\* Types of the variables.
Commands == [cmd : STRING, val : Int, arg : Int]
TypeOK ==
  /\ box \in Boxes
  /\ \A f \in Frontends :
       /\ fe[f].state \in {"closed", "idle", "tuning", "lock", "lost", "failed"}
       /\ \A x \in {"inuse", "disable", "sn", "tuning", "timeout", "rotor_mode", "moving"} :
            fe[f][x] \in BOOLEAN
       /\ fe[f].to \in box.sats \cup {NoSat}
       /\ sec[f].list \in Seq(Commands) /\ sec[f].cur \in 1 .. Len(sec[f].list) + 1
       /\ sec[f].timeouts \in Nat /\ sec[f].retries \in 0 .. Retries
  /\ m_data.voltage \in {voltageOff, voltage13, voltage18} /\ m_data.tone \in {toneOff, toneOn}

\* EquipmentIsSet: whenever a frontend in use starts to listen to its tuner, voltage, tone,
\* switches and rotor are as its satellite needs them, whatever was tuned, closed or broken
\* off before (sec.cpp:436-580, what prepare decides to send).
EquipmentIsSet ==
  [][\A f \in Frontends :
       (fe'[f].sn /\ ~fe[f].sn /\ fe'[f].inuse) => IsServed(Now, f)']_vars

\* CacheIsRight: what m_data says of the switches and of the rotor is so.
CacheIsRight ==
  /\ m_data.csw >= 240 => Port("c", hw.c) = Port("c", m_data.csw)
  /\ m_data.ucsw > 0 => hw.u = m_data.ucsw
  /\ m_data.burst > 0 => hw.t = m_data.burst
  /\ m_data.pos # Unknown /\ ~fe[Base].rotor_mode => hw.aim = m_data.pos

\* BusIsReady: no command is sent for a frontend in use without voltage or under the
\* continuous tone, whichever of the jumps over SET_VOLTAGE and SET_TONE are taken, and
\* whatever the others do meanwhile (sec.cpp:556-586 and 746-765).
BusIsReady ==
  \A f \in Frontends :
    LET s == sec[f]
    IN  (/\ fe[f].inuse /\ s.timer /\ s.cur <= Len(s.list)
         /\ s.list[s.cur].cmd \in {"SEND_DISEQC", "SEND_TONEBURST"}) => Heard(ForceOpen(Now, f))

\* tuneLoop of another one closes the first frontend by force and opens it again (ForceOpen).
Reopened == fe[Base].state \notin {"idle", "closed"} /\ fe'[Base].state = "idle"

\* NoDisturb: a frontend that is locked and left alone keeps its signal, whatever is done with
\* those it is linked to (canTune, sec.cpp:70-96 and 172-184; closeFrontend, frontend.cpp:641),
\* but for one thing: a third one's list closes the first frontend, which nobody uses, by force
\* (frontend.cpp:1370-1377), past the guard of closeFrontend, and the voltage is off until that
\* list has set it again.
NoDisturb ==
  [][\A f \in Frontends :
       (/\ f \in Tuners /\ fe[f].inuse /\ fe[f].state = "lock" /\ ~fe[f].rotor_mode
        /\ IsServed(Now, f) /\ fe'[f] = fe[f] /\ sec'[f] = sec[f] /\ ~Reopened)
       => IsServed(Now, f)']_vars

\* SequenceEnds: a list comes to its end or is begun anew, whatever the rotor does: its loops
\* are left in the end, and nobody waits for a tuner for ever (frontend.cpp:1359).
SequenceEnds == \A f \in Frontends : []<>(~sec[f].timer \/ sec[f].cur = 1)

\* LossIsRetried ("on managed channels, we try to retune in order to re-acquire lock", "on
\* managed channels, we do a retry", dvb.cpp:1539 and 1553): a loss leads to a retune. It fails
\* with "fade" in Env, and no run checks it; see the README.
LossIsRetried ==
  \A f \in Frontends : fe[f].inuse /\ ~fe[f].rotor_mode => fe[f].state \notin {"lost", "failed"}

=============================================================================
