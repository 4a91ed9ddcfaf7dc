---------------------------- MODULE PttFollower ----------------------------
(***************************************************************************)
(* What a started righack module promises the operator (README.txt,        *)
(* "FEATURES"): the PTT state of the radio follows the RTS line of the     *)
(* virtual serial port.                                                    *)
(*                                                                         *)
(* The line is sampled; the radio is told what was sampled before the line *)
(* is sampled again; and as long as the program is up, a line that differs *)
(* from the last sample is sampled.  A change that is undone before it is  *)
(* sampled may be missed.  What the radio does before the first sample was *)
(* applied is its own affair.                                              *)
(*                                                                         *)
(* Vserial implements this specification, and so does every section of     *)
(* Righack, whatever the others do.                                        *)
(***************************************************************************)

VARIABLES rts,     \* the line, as the client last set it
          seen,    \* the last sample
          ptt,     \* whether the radio transmits
          phase    \* "starting", "applying", "following" or "stopped"

vars == <<rts, seen, ptt, phase>>

TypeOK ==
  /\ rts \in BOOLEAN
  /\ seen \in BOOLEAN
  /\ ptt \in BOOLEAN
  /\ phase \in {"starting", "applying", "following", "stopped"}

Init ==
  /\ rts = FALSE
  /\ seen = FALSE
  /\ ptt \in BOOLEAN
  /\ phase = "starting"

Client ==
  /\ rts' \in BOOLEAN
  /\ UNCHANGED <<seen, ptt, phase>>

Sample ==
  /\ phase \in {"starting", "following"}
  /\ seen' = rts
  /\ phase' = "applying"
  /\ UNCHANGED <<rts, ptt>>

Apply ==
  /\ phase = "applying"
  /\ ptt' = seen
  /\ phase' = "following"
  /\ UNCHANGED <<rts, seen>>

(* The same in one step.                                                   *)
SampleAndApply ==
  /\ phase = "following"
  /\ seen' = rts
  /\ ptt' = rts
  /\ UNCHANGED <<rts, phase>>

Stop ==
  /\ phase' = "stopped"
  /\ UNCHANGED <<rts, seen, ptt>>

Next == Client \/ Sample \/ Apply \/ SampleAndApply \/ Stop

Spec == Init /\ [][Next]_vars

(* A line that differs from the last sample is sampled, and a sample is    *)
(* applied.                                                                *)
FairSpec == Spec /\ WF_vars(seen # rts /\ Sample) /\ WF_vars(Apply)
=============================================================================
