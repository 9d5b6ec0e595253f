---------------------------- MODULE PowerPromise ----------------------------
(***************************************************************************)
(* What one power subsystem (MOTOR or COMM) promises its callers, without  *)
(* the telemetry, the timers and the breakers that PowerSubsystem keeps:   *)
(* the target is only ever ON or OFF, a caller may move it at any time,    *)
(* and the actual state follows it along a fixed graph.  Of the two        *)
(* states, `actual` belongs to the thread that processes the DAQ readings. *)
(***************************************************************************)

VARIABLES targ,    \* PowerSubsystem::_targPowerState
          actual   \* PowerSubsystem::_actualPowerState

vars == <<targ, actual>>

Target == {"ON", "OFF"}
Actual == {"UNKNOWN", "OFF", "TURNING_ON", "RESET", "ON"}

TypeOK == targ \in Target /\ actual \in Actual

Init == targ = "OFF" /\ actual = "UNKNOWN"

(* Where one reading may take the actual state while power is wanted: a    *)
(* turn-on passes through TURNING_ON, and RESET is only entered from there. *)
Climb == {<<"OFF", "TURNING_ON">>, <<"TURNING_ON", "TURNING_ON">>, <<"TURNING_ON", "RESET">>,
          <<"TURNING_ON", "ON">>, <<"RESET", "RESET">>, <<"RESET", "ON">>, <<"ON", "ON">>}

(* setPowerOn: may be refused, in which case power is turned off. *)
SetOn  == targ' \in Target /\ UNCHANGED actual
SetOff == targ' = "OFF" /\ UNCHANGED actual

(* One reading processed with power wanted: progress, or give up. *)
FollowOn ==
    /\ targ = "ON"
    /\ \/ targ' = "ON"  /\ <<actual, actual'>> \in Climb
       \/ targ' = "OFF" /\ UNCHANGED actual

(* One reading processed with power unwanted: the voltage is gone, or not. *)
FollowOff ==
    /\ targ = "OFF" /\ targ' = "OFF"
    /\ actual' \in {actual, "OFF"}

Next == SetOn \/ SetOff \/ FollowOn \/ FollowOff

Spec == Init /\ [][Next]_vars
=============================================================================
