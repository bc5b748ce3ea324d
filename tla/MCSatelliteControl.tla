------------------------- MODULE MCSatelliteControl -------------------------
(* Boxes for TLC. *)
EXTENDS SatelliteControl

Plain == [mode |-> V1_0, committed |-> 0, uncommitted |-> 0, toneburst |-> 0, order |-> 0,
          repeats |-> 0, fast |-> FALSE, twice |-> FALSE, inputpower |-> FALSE, turn_fast |-> FALSE]
Box(frontends, lnbs, sats) ==
  [frontends |-> frontends, lnbs |-> lnbs, sats |-> sats, positioner |-> FALSE]
Sat(lnb, pos, horizontal, high) ==
  [lnb |-> lnb, pos |-> pos, horizontal |-> horizontal, high |-> high]

\* Two uncommitted inputs, two committed ones behind or before them, and the tone burst.
Cascaded(order) ==
  LET l(c, u, t) == [Plain EXCEPT !.mode = 2, !.committed = c, !.uncommitted = u,
                                  !.toneburst = t, !.order = order]
  IN  Box(<<"A">>, <<l(0, 241, 1), l(1, 241, 1), l(0, 242, 1), l(0, 241, 2)>>,
          {Sat(1, 1, FALSE, FALSE), Sat(1, 1, TRUE, TRUE), Sat(2, 2, FALSE, TRUE),
           Sat(3, 3, FALSE, FALSE), Sat(4, 4, TRUE, FALSE)})
\* One switch, told twice, and a burst; an input without any; bands are not told.
Simple(order, quick) ==
  LET l(c, t) == [Plain EXCEPT !.committed = c, !.toneburst = t, !.order = order,
                               !.fast = quick, !.twice = quick]
  IN  Box(<<"A">>, <<l(0, 1), l(1, 2), l(1, 1)>>,
          {Sat(1, 1, FALSE, FALSE), Sat(1, 1, TRUE, TRUE), Sat(2, 2, FALSE, FALSE),
           Sat(3, 3, TRUE, FALSE)})

\* Rotors: alone, watched by its power or by the tuner's lock, and behind a switch.
RotorLnb(power) ==
  [Plain EXCEPT !.mode = V1_2, !.committed = SENDNO, !.inputpower = power, !.turn_fast = power]
Positions == {Sat(1, 1, FALSE, FALSE), Sat(1, 2, TRUE, TRUE)}
Rotor(power) == [Box(<<"A">>, <<RotorLnb(power)>>, Positions) EXCEPT !.positioner = ~power]
RotorSwitched(power) ==
  Box(<<"A">>, <<[RotorLnb(power) EXCEPT !.committed = 0, !.repeats = 1, !.turn_fast = FALSE],
                 [Plain EXCEPT !.committed = 1]>>,
      {Sat(1, 1, FALSE, FALSE), Sat(1, 2, FALSE, FALSE), Sat(2, 3, TRUE, FALSE)})

\* Two tuners on one cable, and a switch.
Linked(quick) ==
  Box(<<"A", "B">>,
      <<[Plain EXCEPT !.fast = quick], [Plain EXCEPT !.committed = 1, !.fast = quick]>>,
      {Sat(1, 1, FALSE, FALSE), Sat(1, 1, TRUE, FALSE), Sat(2, 2, TRUE, TRUE)})

\* Three on one cable, of which the first may be out of use while the others are served.
Chained == Box(<<"A", "B", "C">>, <<Plain>>, {Sat(1, 1, TRUE, TRUE)})

AllBoxes ==
  {Cascaded(3), Cascaded(4), Cascaded(5), Simple(0, TRUE), Simple(1, FALSE),
   Rotor(TRUE), Rotor(FALSE), RotorSwitched(TRUE), Linked(FALSE), Chained}
=============================================================================
