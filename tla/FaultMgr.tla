------------------------------- MODULE FaultMgr -------------------------------
(***************************************************************************)
(* FaultMgr and its three BasicFaultMgr: the faults of the power system,   *)
(* of the telemetry and the summary of the whole system.  Each is changed  *)
(* under a lock of its own, so that a call that concerns several of them   *)
(* takes several steps, with those of other callers between them.          *)
(*                                                                         *)
(* The power system's event thread reports the faults of its readings;     *)
(* connections, the motion engine and other callers are Threads.  Of power *)
(* there is what the manager decides about: whether a subsystem may be     *)
(* turned on, and the safe mode that turns it off.                         *)
(***************************************************************************)
EXTENDS Sequences, FaultStatusBits

CONSTANTS
    Threads,  \* callers, other than the power system's event thread
    Reported, \* the faults that readings may find
    Resets,   \* the masks that are reset
    Enables,  \* the masks that are enabled
    Timeouts  \* what the motion engine may report

ASSUME MasksAssumption ==
    /\ Reported \subseteq PowerAffectedFaultMask \cup PowerAffectedWarningMask
    /\ Resets \subseteq SUBSET Bits /\ Enables \subseteq SUBSET Bits
    /\ Timeouts \subseteq {"STALE_DATA_FAULT", "STALE_DATA_WARN"}
ASSUME ThreadsAssumption == "none" \notin Threads

VARIABLES
    mgr,       \* _powerFaultMgr, _telemetryFaultMgr, _summarySystemFaultsStatus
    commFault, \* _commConnectionFault
    update,    \* updatePowerFaults, with the current faults of its copy of _powerFaultMgr
    call,      \* what each thread is calling
    powerMtx,  \* the subsystem's lock, which setPowerOn holds over its check
    powered    \* whether the subsystem's power is wanted

faultMgrVars == <<mgr, commFault, update, call, powerMtx, powered>>

Mgrs == {"power", "telemetry", "system"}

-----------------------------------------------------------------------------
(* BasicFaultMgr.  The default mask and the affected masks stay what the   *)
(* constructors make them; the system's affected mask is never read.       *)
NewMgr  == [summary |-> {}, prev |-> {}, current |-> {}, enable |-> MaskFaults]
Default == MaskFaults

(* PowerFaultMgr sets its affected faults twice, the warnings last, and    *)
(* never its affected warnings.                                            *)
AffectedFaults   == PowerAffectedWarningMask
AffectedWarnInfo == {}

SymDiff(a, b) == (a \ b) \cup (b \ a)

(* updateFaults: nothing is done unless an enabled fault changed. *)
Changed(m) == SymDiff(m.prev, m.current) \cap m.enable # {}

(* Mutant: the summary is the last reading. *)
UpdateFaults_NotLatched(m) == [m EXCEPT !.prev = m.current, !.summary = m.current]

(* Mutant: what is current is masked as well. *)
UpdateFaults_MasksAll(m) ==
    [m EXCEPT !.prev = m.current, !.summary = (@ \cup m.current) \cap Default]

UpdateFaults(m) ==
    [m EXCEPT !.prev = m.current, !.summary = (@ \cap Default) \cup m.current]

(* Mutant: what was seen last is not forgotten. *)
ResetMgr_KeepsPrev(m, mask) == [m EXCEPT !.summary = @ \ mask, !.current = @ \ mask]

ResetMgr(m, mask) == [m EXCEPT !.summary = @ \ mask, !.current = @ \ mask, !.prev = @ \ mask]

(* Mutant: the mask is set, not added. *)
EnableInMask_Only(m, mask) == [m EXCEPT !.enable = mask]

EnableInMask(m, mask) == [m EXCEPT !.enable = @ \cup mask]

(* mergeFaults: bits that are not enabled are ignored. *)
MergeFaults(m, bits) ==
    LET enabled == bits \cap m.enable
    IN  IF enabled = {} THEN m
        ELSE [m EXCEPT !.summary = @ \cup enabled, !.current = @ \cup enabled, !.prev = m.summary]

SetMaskComm(m, mask) ==
    LET summary == (m.summary \cap Default) \cup mask
    IN  [m EXCEPT !.enable = @ \cup mask, !.prev = m.current, !.summary = summary, !.current = summary]

(* updateFaultStatus gives what differs from the old summary, in 16 bits; *)
(* it takes it for the new summary.                                       *)
UpdatedSummary(summary, new) ==
    LET affected == AffectedFaults \cup AffectedWarnInfo
    IN  Low16(SymDiff(summary, (new \cap affected) \cup (summary \ AffectedWarnInfo)))

(* Mutant: the current faults are left as they were. *)
UpdateSummary_KeepsCurrent(m, summary) == [m EXCEPT !.prev = m.current, !.summary = summary]

UpdateSummary(m, summary) == [m EXCEPT !.prev = m.current, !.summary = summary, !.current = summary]

-----------------------------------------------------------------------------
Ready       == [op |-> "none", mask |-> {}, left |-> <<>>]
NoUpdate    == [at |-> "idle", current |-> {}]
CrioComm    == {"CRIO_COMM_FAULT"}
ResetOrder  == <<"power", "telemetry", "system">>
EnableOrder == <<"system", "power", "telemetry">>

(* Mutant: whoever turns power off does not wait for who turns it on. *)
GoToSafeMode_NotWaiting == powered' = FALSE

(* Model::goToSafeMode, as far as the subsystem goes. *)
GoToSafeMode == powerMtx = "none" /\ powered' = FALSE

(* updatePowerFaults: the power system's faults, *)
UpdatePowerFaults(faults) ==
    /\ update.at = "idle"
    /\ LET reported == [mgr["power"] EXCEPT !.current = faults]
           new      == IF Changed(reported) THEN UpdateFaults(reported) ELSE reported
       IN  /\ mgr' = [mgr EXCEPT !["power"] = new]
           /\ update' = IF Changed(reported) THEN [at |-> "health", current |-> faults] ELSE NoUpdate
    /\ UNCHANGED <<commFault, call, powerMtx, powered>>

(* safe mode, *)
UpdateHealth ==
    /\ update.at = "health"
    /\ IF update.current \cap MaskHealthFaults # {} THEN GoToSafeMode ELSE UNCHANGED powered
    /\ update' = [update EXCEPT !.at = "summary"]
    /\ UNCHANGED <<mgr, commFault, call, powerMtx>>

(* and the system's summary. *)
UpdateSystem ==
    /\ update.at = "summary"
    /\ LET system == mgr["system"]
           new    == UpdatedSummary(system.summary, update.current)
       IN  mgr' = IF new = system.summary THEN mgr
                  ELSE [mgr EXCEPT !["system"] = UpdateSummary(system, new)]
    /\ update' = NoUpdate
    /\ UNCHANGED <<commFault, call, powerMtx, powered>>

-----------------------------------------------------------------------------
Calls(t, op, mask, left) == call' = [call EXCEPT ![t] = [op |-> op, mask |-> mask, left |-> left]]

(* resetFaults and enableFaultsInMask begin. *)
CallMgrs(t) ==
    /\ call[t] = Ready
    /\ \/ \E mask \in Resets : Calls(t, "reset", mask, ResetOrder)
       \/ \E mask \in Enables : Calls(t, "enable", mask, EnableOrder)
    /\ UNCHANGED <<mgr, commFault, update, powerMtx, powered>>

ReportMotionEngineTimeout(t) ==
    /\ call[t] = Ready
    /\ \E bit \in Timeouts : mgr' = [mgr EXCEPT !["system"] = MergeFaults(@, {bit})]
    /\ UNCHANGED <<commFault, update, call, powerMtx, powered>>

(* reportComConnectionCount keeps whether there is no connection, *)
ReportComConnectionCount(t) ==
    /\ call[t] = Ready
    /\ \E lost \in BOOLEAN : commFault' = lost
    /\ Calls(t, "count", {}, <<>>)
    /\ UNCHANGED <<mgr, update, powerMtx, powered>>

(* and acts on what others may have made of it. *)
ActOnCount(t) ==
    /\ call[t].op = "count"
    /\ IF commFault THEN Calls(t, "comm", CrioComm, <<"system">>)
                    ELSE Calls(t, "reset", CrioComm, ResetOrder)
    /\ UNCHANGED <<mgr, commFault, update, powerMtx, powered>>

WithMask(op, m, mask) ==
    CASE op = "reset"  -> ResetMgr(m, mask)
      [] op = "enable" -> EnableInMask(m, mask)
      [] op = "comm"   -> SetMaskComm(m, mask)

(* The next manager that the call concerns, under that manager's lock. *)
ChangeMgr(t) ==
    LET this == call[t] IN
    /\ this.left # <<>>
    /\ mgr' = [mgr EXCEPT ![Head(this.left)] = WithMask(this.op, @, this.mask)]
    /\ call' = [call EXCEPT ![t] =
           IF Tail(this.left) # <<>> THEN [this EXCEPT !.left = Tail(@)]
           ELSE IF this.op = "comm" THEN [Ready EXCEPT !.op = "safe"] ELSE Ready]
    /\ UNCHANGED <<commFault, update, powerMtx, powered>>

(* No connection: safe mode comes last. *)
ConnectionsLost(t) ==
    /\ call[t].op = "safe"
    /\ GoToSafeMode
    /\ call' = [call EXCEPT ![t] = Ready]
    /\ UNCHANGED <<mgr, commFault, update, powerMtx>>

-----------------------------------------------------------------------------
(* setPowerOn asks checkForPowerSubsystemFaults: for the connection, *)
CheckConnection(t) ==
    /\ call[t] = Ready /\ powerMtx = "none"
    /\ powerMtx' = t
    /\ Calls(t, "check", IF commFault THEN CrioComm ELSE {}, <<>>)
    /\ UNCHANGED <<mgr, commFault, update, powered>>

PowerFaults(m) == MaskPowerSubsystemFaults["MOTOR"] \cap m.enable \cap (m.current \cup m.summary)

(* and for the subsystem's faults. *)
CheckFaults(t) ==
    /\ call[t].op = "check"
    /\ powered' = (call[t].mask = {} /\ PowerFaults(mgr["power"]) = {})
    /\ powerMtx' = "none"
    /\ call' = [call EXCEPT ![t] = Ready]
    /\ UNCHANGED <<mgr, commFault, update>>

-----------------------------------------------------------------------------
Init ==
    /\ mgr = [m \in Mgrs |-> NewMgr]
    /\ commFault = TRUE
    /\ update = NoUpdate /\ call = [t \in Threads |-> Ready]
    /\ powerMtx = "none" /\ powered = FALSE

Next ==
    \/ \E faults \in SUBSET Reported : UpdatePowerFaults(faults)
    \/ UpdateHealth \/ UpdateSystem
    \/ \E t \in Threads : \/ CallMgrs(t) \/ ReportMotionEngineTimeout(t)
                           \/ ReportComConnectionCount(t) \/ ActOnCount(t) \/ ChangeMgr(t) \/ ConnectionsLost(t)
                           \/ CheckConnection(t) \/ CheckFaults(t)

Spec == Init /\ [][Next]_faultMgrVars

-----------------------------------------------------------------------------
Mgr == [summary : SUBSET Bits, prev : SUBSET Bits, current : SUBSET Bits, enable : SUBSET Bits]

TypeOK ==
    /\ mgr \in [Mgrs -> Mgr] /\ \A m \in Mgrs : MaskFaults \subseteq mgr[m].enable
    /\ commFault \in BOOLEAN /\ powered \in BOOLEAN /\ powerMtx \in Threads \cup {"none"}
    /\ update \in [at : {"idle", "health", "summary"}, current : SUBSET Reported]
    /\ call \in [Threads -> [op : {"none", "reset", "enable", "count", "comm", "safe", "check"},
                             mask : SUBSET Bits, left : Seq(Mgrs)]]

(* BasicFaultMgr's _currentFaults, of which the code hopes to get rid: in  *)
(* the system's manager they are the summary, after any mixture of merged, *)
(* reset, connection and power faults.                                     *)
SystemCurrentIsSummary == mgr["system"].current = mgr["system"].summary

(* updateFaults: what the power system reported last and was then found    *)
(* changed is in its summary until it is reset, whatever was reset or      *)
(* enabled between the readings.                                           *)
SeenIsLatched == mgr["power"].prev \subseteq mgr["power"].summary

(* reportComConnectionCount and checkForPowerSubsystemFaults: once every   *)
(* report is acted on, nothing is powered without a connection, although   *)
(* a check may have seen the connection that was lost during it.           *)
NoPowerWithoutConnection ==
    commFault /\ (\A t \in Threads : call[t] = Ready) => ~powered

(* updateFaults: an enabled fault that a reading finds is latched by that  *)
(* report, also if it was there before and has been reset since.           *)
PersistentFaultLatches ==
    [][\A faults \in SUBSET Reported :
          UpdatePowerFaults(faults) =>
              faults \cap mgr["power"].enable \subseteq mgr'["power"].summary]_faultMgrVars

(* resetFaults: a latched power fault goes only when it is reset. *)
PowerFaultsStay ==
    [][\A b \in mgr["power"].summary \cap MaskFaults :
          b \in mgr'["power"].summary \/ \E t \in Threads : call[t].op = "reset" /\ b \in call[t].mask]_faultMgrVars

(* The summary that clients are given is latched: a fault in it goes only  *)
(* when it is reset.                                                       *)
SummaryStays ==
    [][\A b \in mgr["system"].summary \cap MaskFaults :
          b \in mgr'["system"].summary \/ \E t \in Threads : call[t].op = "reset" /\ b \in call[t].mask]_faultMgrVars
=============================================================================
