--------------------------------- MODULE Gate ---------------------------------
(***************************************************************************)
(* What mrv::barrier promises its callers, with neither counter nor        *)
(* generation: threads gather; the arrival that makes them as many as the  *)
(* parties lets all of them go, and so does anyone who breaks the gate     *)
(* open; a thread that was let go returns, whatever gathers after it.      *)
(***************************************************************************)
EXTENDS Naturals, FiniteSets

CONSTANTS Threads, Parties

VARIABLES
  gathering,   \* threads held until the others arrive
  leaving      \* threads let go that have yet to return from wait()

gateVars == <<gathering, leaving>>

GateInit ==
  /\ gathering = {}
  /\ leaving = {}

Outside == Threads \ (gathering \cup leaving)

\* An arrival that does not complete the group is held.
Hold(t) ==
  /\ t \in Outside
  /\ Cardinality(gathering) + 1 < Parties
  /\ gathering' = gathering \cup {t}
  /\ UNCHANGED leaving

\* The last of the group passes and lets the others go.
Complete(t) ==
  /\ t \in Outside
  /\ Cardinality(gathering) + 1 = Parties
  /\ gathering' = {}
  /\ leaving' = leaving \cup gathering

Break ==
  /\ gathering' = {}
  /\ leaving' = leaving \cup gathering

Leave(t) ==
  /\ t \in leaving
  /\ leaving' = leaving \ {t}
  /\ UNCHANGED gathering

GateNext ==
  \/ Break
  \/ \E t \in Threads : Hold(t) \/ Complete(t) \/ Leave(t)

GateSpec ==
  /\ GateInit
  /\ [][GateNext]_gateVars
  /\ \A t \in Threads : WF_gateVars(Leave(t))
===============================================================================
