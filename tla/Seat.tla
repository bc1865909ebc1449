-------------------------------- MODULE Seat --------------------------------
(***************************************************************************)
(* What the hub seat promises (elect.go:1-10, main.go:366-371), and all a  *)
(* user of the fleet has to know of it: a seat that one instance at a time *)
(* holds, and a hub that only the holder opens.  The holder may leave at   *)
(* any moment, its hub with it: it shut down, joined somebody else's hub   *)
(* or died.  How an instance comes by the seat, and what it does with the  *)
(* socket file before the hub is open, is Fleet's business.                *)
(***************************************************************************)
CONSTANTS Candidate, Nobody

VARIABLES
    holder,     \* who has the seat
    serving     \* whose hub is open

SeatInit == holder = Nobody /\ serving = {}

Take(i)  == holder = Nobody /\ holder' = i /\ UNCHANGED serving
Open(i)  == holder = i /\ serving = {} /\ serving' = {i} /\ UNCHANGED holder
Close(i) == holder = i /\ serving = {i} /\ serving' = {} /\ UNCHANGED holder
Leave(i) == holder = i /\ holder' = Nobody /\ serving' = {}

SeatNext == \E i \in Candidate : Take(i) \/ Open(i) \/ Close(i) \/ Leave(i)

SeatSpec == SeatInit /\ [][SeatNext]_<<holder, serving>>
=============================================================================
