----------------------------- MODULE MCService -----------------------------
(***************************************************************************)
(* Instances of Service for TLC.                                           *)
(***************************************************************************)
EXTENDS Service

CONSTANTS a1, k1, c1, b1

Untouched == /\ \A a \in Attempts : req[a] = NoReq
             /\ \A s \in Scans : scan[s] = NoScan

\* Attempts, keys, chips and boards are interchangeable and the first payload
\* names are free: the first create to arrive is a1 with k1, c1 and b1, and a
\* scan that begins before any create is of c1 and b1.  Arrivals carry no
\* fairness, so what is left out is only the same behaviours renamed.
FirstNames ==
  Untouched =>
    /\ \A a \in Attempts : req'[a] # NoReq =>
         a = a1 /\ req'[a] = [request_key |-> k1, chip_uid |-> c1, board_serial |-> b1]
    /\ \A s \in Scans : scan'[s] # NoScan => scan'[s] = [chip_uid |-> c1, board_serial |-> b1]
=============================================================================
