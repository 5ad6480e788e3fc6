------------------------------ MODULE Malloclab -----------------------------
(***************************************************************************)
(* mdriver as it works with any package: the evaluation of correctness,    *)
(* and the measurement of what it has accepted.  The two share no state,   *)
(* so a behaviour is in one of them and the other stays as it starts.      *)
(***************************************************************************)
EXTENDS AnyAllocator, Timing

VARIABLE part

labVars == <<part, vars, timingVars>>

LabInit ==
  /\ part \in {"valid", "speed"}
  /\ Init
  /\ TimingInit /\ (part = "valid" => method = "gettod")

ValidStep == part = "valid" /\ Next /\ UNCHANGED <<part, timingVars>>
SpeedStep == part = "speed" /\ TimingStep /\ UNCHANGED <<part, vars>>
Interrupt == part = "speed" /\ Tick /\ UNCHANGED <<part, vars>>

LabNext == ValidStep \/ SpeedStep \/ Interrupt

(* That of TimingSpec: f returns and interrupts keep coming.  Nothing is   *)
(* assumed of a package.                                                   *)
LabSpec == LabInit /\ [][LabNext]_labVars /\ WF_labVars(SpeedStep) /\ WF_labVars(Interrupt)

(* A measurement that has been started ends (fsecs).                       *)
MeasurementEnds == part = "speed" => TimingEnds
=============================================================================
