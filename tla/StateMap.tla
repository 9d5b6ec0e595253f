------------------------------ MODULE StateMap ------------------------------
(***************************************************************************)
(* The states of the Model and the changes between them that StateMap      *)
(* accepts (state/StateMap.cpp), as operators of the current state.        *)
(* INMOTION and PAUSE are in the map, but nothing in the program asks for  *)
(* them yet.                                                               *)
(***************************************************************************)

States      == {"STARTUP", "STANDBY", "IDLE", "INMOTION", "PAUSE", "OFFLINE"}
SafeStates  == {"STANDBY", "OFFLINE"}
PowerStates == {"IDLE", "INMOTION", "PAUSE"}

(* _changeState's table: safe states from anywhere, the others by pair. *)
Acceptable(from, to) ==
    \/ to \in SafeStates
    \/ from \in PowerStates /\ to \in PowerStates /\ from # to
    \/ from \in SafeStates \cup {"STARTUP"} /\ to = "IDLE"

(* changeState: what the state becomes.  STARTUP is not left before the    *)
(* Model is set up.                                                        *)
NextState(current, new, setupFinished) ==
    IF Acceptable(current, new) /\ (current = "STARTUP" => setupFinished) THEN new ELSE current

(* Whether changeState enters `new`; the current state is entered again. *)
Enters(current, new, setupFinished) == new = NextState(current, new, setupFinished)

(* State::enterState turns everything off; STANDBY and the power states    *)
(* override it with a function that does not.                              *)
EntryTurnsOff(state) == state \in {"STARTUP", "OFFLINE"}

(* Mutant: OFFLINE is not kept. *)
SafeTarget_ForgetsOffline(current, desired) ==
    IF desired \in SafeStates THEN desired ELSE "STANDBY"

(* goToASafeState: the safe state that is asked of changeState. *)
SafeTarget(current, desired) ==
    IF "OFFLINE" \in {current, desired} THEN "OFFLINE"
    ELSE IF desired \in SafeStates THEN desired ELSE "STANDBY"
=============================================================================
