------------------------------ MODULE BedService ------------------------------
(***************************************************************************)
(* What the device beds promise their callers, whatever processes, scripts *)
(* and runners do: a bed tests one volume at a time, a volume is tested at *)
(* most once, and the verdicts a caller hears are of its own volume, after *)
(* that has been on a bed. DeviceBed is shown to implement this.           *)
(***************************************************************************)
CONSTANTS Volumes, Beds, None

VARIABLES
  testing,   \* the volumes each bed is testing
  tested,    \* the volumes whose test has begun
  heard      \* the volume whose verdicts each volume's caller has heard

vars == <<testing, tested, heard>>

Init ==
  /\ testing = [b \in Beds |-> {}]
  /\ tested = {}
  /\ heard = [v \in Volumes |-> None]

Begin(v, b) ==
  /\ testing[b] = {}
  /\ v \notin tested
  /\ testing' = [testing EXCEPT ![b] = {v}]
  /\ tested' = tested \cup {v}
  /\ UNCHANGED heard

End(b) ==
  /\ testing' = [testing EXCEPT ![b] = {}]
  /\ UNCHANGED <<tested, heard>>

Hear(v) ==
  /\ v \in tested
  /\ heard[v] = None
  /\ heard' = [heard EXCEPT ![v] = v]
  /\ UNCHANGED <<testing, tested>>

Next ==
  \/ \E v \in Volumes, b \in Beds : Begin(v, b)
  \/ \E b \in Beds : End(b)
  \/ \E v \in Volumes : Hear(v)

Spec == Init /\ [][Next]_vars
=============================================================================
