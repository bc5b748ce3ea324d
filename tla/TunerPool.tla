------------------------------ MODULE TunerPool ------------------------------
(***************************************************************************)
(* What eDVBResourceManager promises (lib/dvb/dvb.h, the comments at 20    *)
(* and 219): tuners are shared by those who want the same transponder and  *)
(* are taken from nobody.  A tuner nobody uses may go on serving what it   *)
(* served, until somebody else needs it or it is switched off.             *)
(***************************************************************************)
CONSTANTS Frontends, Ids, Handlers, RawUsers, None, Tunable

VARIABLES
  wants,    \* the transponder each handler watches or records
  serves    \* what each tuner is used for: a transponder, or a raw user

pvars == <<wants, serves>>

Used(w, s, f) == s[f] \in RawUsers \/ \E h \in Handlers : s[f] # None /\ w[h] = s[f]

Init == /\ wants = [h \in Handlers |-> None]
        /\ serves = [f \in Frontends |-> None]

\* Unused tuners may be switched off along with any step; no other tuner changes.
SwitchOff(s) ==
  \E off \in SUBSET {f \in Frontends : ~Used(wants', s, f)} :
    serves' = [f \in Frontends |-> IF f \in off THEN None ELSE s[f]]

Share(h, id) ==
  /\ wants[h] = None
  /\ \E f \in Frontends : serves[f] = id
  /\ wants' = [wants EXCEPT ![h] = id]
  /\ SwitchOff(serves)

Take(h, id) ==
  /\ wants[h] = None
  /\ \A f \in Frontends : serves[f] # id
  /\ wants' = [wants EXCEPT ![h] = id]
  /\ \E f \in Frontends : /\ <<id, f>> \in Tunable /\ ~Used(wants, serves, f)
                          /\ SwitchOff([serves EXCEPT ![f] = id])

Leave(h) == /\ wants[h] # None
            /\ wants' = [wants EXCEPT ![h] = None]
            /\ SwitchOff(serves)

TakeRaw(r) == /\ \A f \in Frontends : serves[f] # r
              /\ UNCHANGED wants
              /\ \E f \in Frontends : /\ ~Used(wants, serves, f)
                                      /\ SwitchOff([serves EXCEPT ![f] = r])

LeaveRaw(r) == /\ \E f \in Frontends : serves[f] = r
               /\ UNCHANGED wants
               /\ serves' = [f \in Frontends |-> IF serves[f] = r THEN None ELSE serves[f]]

Idle == UNCHANGED wants /\ SwitchOff(serves)

Next == \/ Idle
        \/ \E h \in Handlers : Leave(h) \/ \E id \in Ids : Share(h, id) \/ Take(h, id)
        \/ \E r \in RawUsers : TakeRaw(r) \/ LeaveRaw(r)

PoolSpec == Init /\ [][Next]_pvars
=============================================================================
