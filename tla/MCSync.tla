------------------------------- MODULE MCSync -------------------------------
\* A server and two clients: two seeks by anybody; one seek while a client
\* connects, alone or as the second, and a play while it does alone; a play and a
\* stop; a play and a seek with one client; and a seek and a fit.
EXTENDS Sync

CONSTANTS c1, c2

Session(seeks, plays, stops, fits, first, later) ==
  [seek |-> seeks, play |-> plays, stop |-> stops, fit |-> fits, first |-> first, later |-> later]

ShortSessions ==
  {Session(2, 0, 0, 0, Clients, {}),
   Session(1, 0, 0, 0, {}, {c2}), Session(1, 0, 0, 0, {c1}, {c2}),
   Session(0, 1, 1, 0, Clients, {}), Session(1, 1, 0, 0, {c1}, {}),
   Session(0, 1, 0, 0, {}, {c2}),
   Session(1, 0, 0, 1, Clients, {})}
=============================================================================
