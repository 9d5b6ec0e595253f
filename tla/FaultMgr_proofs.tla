---------------------------- MODULE FaultMgr_proofs ----------------------------
(***************************************************************************)
(* What holds of FaultMgr for any number of callers and any masks that are *)
(* reset and enabled.                                                      *)
(***************************************************************************)
EXTENDS FaultMgr, TLAPS

Orders == {<<>>, <<"system">>, <<"telemetry">>, <<"telemetry", "system">>,
           <<"power", "telemetry">>, ResetOrder, EnableOrder}

(* Which managers a call has left, and what it does to them: only the      *)
(* system's manager is given the connection fault.                         *)
CallsFit ==
    \A t \in Threads :
        /\ call[t].left \in Orders
        /\ call[t].left # <<>> => call[t].op \in {"reset", "enable", "comm"}
        /\ call[t].op = "comm" => call[t].left = <<"system">>

(* The subsystem's lock is held by the one call that checks. *)
CheckHoldsLock == \A t \in Threads : call[t].op = "check" <=> powerMtx = t

(* While there is power without a connection, or a check that has not seen *)
(* the loss, some thread is on its way to safe mode.                       *)
LossIsAnswered ==
    commFault /\ (powered \/ \E t \in Threads : call[t].op = "check" /\ call[t].mask = {})
        => \E t \in Threads : call[t].op \in {"count", "comm", "safe"}

IInv ==
    /\ TypeOK /\ CallsFit
    /\ SystemCurrentIsSummary /\ SeenIsLatched
    /\ CheckHoldsLock /\ LossIsAnswered

-----------------------------------------------------------------------------
(* The masks are bitmaps. *)
LEMMA MasksAreBits ==
    /\ MaskFaults \subseteq Bits
    /\ PowerAffectedFaultMask \subseteq Bits /\ PowerAffectedWarningMask \subseteq Bits
    /\ Reported \subseteq Bits /\ Timeouts \subseteq Bits /\ CrioComm \subseteq Bits
  <1>1. MaskFaults \subseteq Bits
    BY DEF MaskFaults, MaskTelemetryOnlyControl, MaskOpenLoopControl, Bits, Position
  <1>2. PowerAffectedFaultMask \subseteq Bits
    BY DEF PowerAffectedFaultMask, MaskPowerSubsystemFaults, Bits, Position
  <1>3. PowerAffectedWarningMask \subseteq Bits
    BY DEF PowerAffectedWarningMask, Bits, Position
  <1>4. CrioComm \subseteq Bits /\ {"STALE_DATA_FAULT", "STALE_DATA_WARN"} \subseteq Bits
    BY DEF CrioComm, Bits, Position
  <1>5. QED
    BY <1>1, <1>2, <1>3, <1>4, MasksAssumption

(* The first and the others of a tuple. *)
LEMMA HeadTailOfTuple ==
    ASSUME NEW S, NEW a \in S, NEW b \in S, NEW c \in S
    PROVE  /\ Head(<<a>>) = a /\ Tail(<<a>>) = <<>>
           /\ Head(<<a, b>>) = a /\ Tail(<<a, b>>) = <<b>>
           /\ Head(<<a, b, c>>) = a /\ Tail(<<a, b, c>>) = <<b, c>>
  OBVIOUS

(* One manager is taken from a call, the others are left. *)
LEMMA OrderSteps ==
    ASSUME NEW left \in Orders, left # <<>>
    PROVE  /\ Head(left) \in Mgrs /\ Tail(left) \in Orders
           /\ left = <<"system">> => Head(left) = "system" /\ Tail(left) = <<>>
  <1>1. /\ "power" \in Mgrs /\ "telemetry" \in Mgrs /\ "system" \in Mgrs
    BY DEF Mgrs
  <1>2. CASE left = <<"system">>
    BY <1>1, <1>2, HeadTailOfTuple DEF Orders
  <1>3. CASE left = <<"telemetry">>
    BY <1>1, <1>3, HeadTailOfTuple DEF Orders
  <1>4. CASE left = <<"telemetry", "system">>
    BY <1>1, <1>4, HeadTailOfTuple DEF Orders
  <1>5. CASE left = <<"power", "telemetry">>
    BY <1>1, <1>5, HeadTailOfTuple DEF Orders
  <1>6. CASE left = ResetOrder
    BY <1>1, <1>6, HeadTailOfTuple DEF Orders, ResetOrder
  <1>7. CASE left = EnableOrder
    BY <1>1, <1>7, HeadTailOfTuple DEF Orders, EnableOrder
  <1>8. QED
    BY <1>2, <1>3, <1>4, <1>5, <1>6, <1>7 DEF Orders

(* Every change that a call makes to a manager keeps what is enabled by    *)
(* default, and, unless it is the connection fault, what was seen latched.  *)
LEMMA WithMaskKeeps ==
    ASSUME NEW m \in Mgr, NEW mask \in SUBSET Bits, NEW op \in {"reset", "enable", "comm"},
           MaskFaults \subseteq m.enable
    PROVE  LET new == WithMask(op, m, mask) IN
           /\ new \in Mgr /\ MaskFaults \subseteq new.enable
           /\ m.current = m.summary => new.current = new.summary
           /\ op # "comm" /\ m.prev \subseteq m.summary => new.prev \subseteq new.summary
  <1>1. CASE op = "reset"
    BY <1>1 DEF WithMask, ResetMgr, Mgr
  <1>2. CASE op = "enable"
    BY <1>2 DEF WithMask, EnableInMask, Mgr
  <1>3. CASE op = "comm"
    BY <1>3, MasksAreBits DEF WithMask, SetMaskComm, Mgr, Default
  <1>4. QED
    BY <1>1, <1>2, <1>3

(* A reading's faults. *)
LEMMA UpdateKeeps ==
    ASSUME NEW m \in Mgr, NEW faults \in SUBSET Bits, MaskFaults \subseteq m.enable,
           m.prev \subseteq m.summary
    PROVE  LET reported == [m EXCEPT !.current = faults]
               new      == IF Changed(reported) THEN UpdateFaults(reported) ELSE reported
           IN  /\ new \in Mgr /\ MaskFaults \subseteq new.enable
               /\ new.prev \subseteq new.summary
               /\ faults \cap m.enable \subseteq new.summary
               /\ m.summary \cap MaskFaults \subseteq new.summary
  <1> DEFINE reported == [m EXCEPT !.current = faults]
  <1>1. /\ reported \in Mgr /\ reported.current = faults
        /\ reported.prev = m.prev /\ reported.summary = m.summary /\ reported.enable = m.enable
    BY DEF Mgr
  <1> HIDE DEF reported
  <1>2. CASE Changed(reported)
    <2>1. /\ UpdateFaults(reported) \in Mgr
          /\ UpdateFaults(reported).enable = m.enable
          /\ UpdateFaults(reported).prev = faults
          /\ UpdateFaults(reported).summary = (m.summary \cap MaskFaults) \cup faults
      BY <1>1, MasksAreBits DEF UpdateFaults, Mgr, Default
    <2>2. QED
      BY <1>2, <2>1 DEF reported
  <1>3. CASE ~Changed(reported)
    <2>1. faults \cap m.enable \subseteq m.prev
      BY <1>1, <1>3 DEF Changed, SymDiff
    <2>2. QED
      BY <1>1, <1>3, <2>1 DEF reported
  <1>4. QED
    BY <1>2, <1>3

LEMMA MergeKeeps ==
    ASSUME NEW m \in Mgr, NEW bits \in SUBSET Bits, MaskFaults \subseteq m.enable,
           m.current = m.summary
    PROVE  LET new == MergeFaults(m, bits) IN
           /\ new \in Mgr /\ MaskFaults \subseteq new.enable
           /\ new.current = new.summary
  BY DEF MergeFaults, Mgr

LEMMA UpdatedSummaryIsBits ==
    ASSUME NEW s \in SUBSET Bits, NEW new \in SUBSET Bits
    PROVE  UpdatedSummary(s, new) \in SUBSET Bits
  BY DEF UpdatedSummary, Low16, SymDiff

-----------------------------------------------------------------------------
(* What the constructors leave. *)
LEMMA InitIInv == Init => IInv
  <1> SUFFICES ASSUME Init PROVE IInv
    OBVIOUS
  <1>1. NewMgr \in Mgr /\ MaskFaults \subseteq NewMgr.enable
        /\ NewMgr.current = NewMgr.summary /\ NewMgr.prev \subseteq NewMgr.summary
    BY MasksAreBits DEF NewMgr, Mgr
  <1>2. Ready \in [op : {"none", "reset", "enable", "count", "comm", "safe", "check"},
                   mask : SUBSET Bits, left : Seq(Mgrs)]
        /\ Ready.op = "none" /\ Ready.left = <<>>
    BY DEF Ready
  <1>3. NoUpdate \in [at : {"idle", "health", "summary"}, current : SUBSET Reported]
    BY DEF NoUpdate
  <1>4. TypeOK
    BY <1>1, <1>2, <1>3 DEF Init, TypeOK
  <1>5. SystemCurrentIsSummary /\ SeenIsLatched
    BY <1>1 DEF Init, SystemCurrentIsSummary, SeenIsLatched, Mgrs
  <1>6. CallsFit /\ CheckHoldsLock /\ LossIsAnswered
    BY <1>2, ThreadsAssumption DEF Init, CallsFit, CheckHoldsLock, LossIsAnswered, Orders
  <1>7. QED
    BY <1>4, <1>5, <1>6 DEF IInv

(* What IInv says of the managers, and of everything else. *)
MgrInv ==
    /\ mgr \in [Mgrs -> Mgr] /\ \A m \in Mgrs : MaskFaults \subseteq mgr[m].enable
    /\ SystemCurrentIsSummary /\ SeenIsLatched

(* One manager changes, and keeps what is asked of it. *)
LEMMA OneMgrChanges ==
    ASSUME MgrInv, NEW n \in Mgrs, NEW new \in Mgr, mgr' = [mgr EXCEPT ![n] = new],
           MaskFaults \subseteq new.enable,
           n = "system" => new.current = new.summary,
           n = "power" => new.prev \subseteq new.summary
    PROVE  MgrInv'
  BY DEF MgrInv, SystemCurrentIsSummary, SeenIsLatched, Mgrs

(* A reading's report to the power system's manager. *)
LEMMA UpdatePowerMgr ==
    ASSUME IInv, NEW faults \in SUBSET Reported, UpdatePowerFaults(faults)
    PROVE  /\ MgrInv'
           /\ faults \cap mgr["power"].enable \subseteq mgr'["power"].summary
           /\ mgr["power"].summary \cap MaskFaults \subseteq mgr'["power"].summary
  <1> DEFINE reported == [mgr["power"] EXCEPT !.current = faults]
             new      == IF Changed(reported) THEN UpdateFaults(reported) ELSE reported
  <1>1. /\ mgr["power"] \in Mgr /\ MaskFaults \subseteq mgr["power"].enable
        /\ mgr["power"].prev \subseteq mgr["power"].summary /\ faults \in SUBSET Bits
        /\ "power" \in Mgrs /\ MgrInv /\ mgr \in [Mgrs -> Mgr]
    BY MasksAreBits DEF IInv, TypeOK, SeenIsLatched, Mgrs, MgrInv
  <1>2. /\ new \in Mgr /\ MaskFaults \subseteq new.enable
        /\ new.prev \subseteq new.summary
        /\ faults \cap mgr["power"].enable \subseteq new.summary
        /\ mgr["power"].summary \cap MaskFaults \subseteq new.summary
    BY <1>1, UpdateKeeps
  <1>3. mgr' = [mgr EXCEPT !["power"] = new]
    BY DEF UpdatePowerFaults
  <1> HIDE DEF new
  <1>4. MgrInv'
    BY <1>1, <1>2, <1>3, OneMgrChanges
  <1>5. mgr'["power"] = new
    BY <1>1, <1>3
  <1>6. QED
    BY <1>2, <1>4, <1>5

(* The summary of the system. *)
LEMMA UpdateSystemMgr ==
    ASSUME IInv, UpdateSystem
    PROVE  MgrInv' /\ mgr'["power"] = mgr["power"]
  <1> DEFINE system == mgr["system"]
             s      == UpdatedSummary(system.summary, update.current)
             new    == UpdateSummary(system, s)
  <1>1. /\ system \in Mgr /\ system.summary \in SUBSET Bits /\ update.current \in SUBSET Bits
        /\ MaskFaults \subseteq system.enable
        /\ "system" \in Mgrs /\ MgrInv
    BY MasksAreBits DEF IInv, TypeOK, MgrInv, Mgrs, Mgr
  <1>2. s \in SUBSET Bits
    BY <1>1, UpdatedSummaryIsBits
  <1>3. mgr' = mgr \/ mgr' = [mgr EXCEPT !["system"] = new]
    BY DEF UpdateSystem
  <1> HIDE DEF s
  <1>4. new \in Mgr /\ MaskFaults \subseteq new.enable /\ new.current = new.summary
    BY <1>1, <1>2 DEF UpdateSummary, Mgr
  <1> HIDE DEF new
  <1>5. CASE mgr' = mgr
    BY <1>1, <1>5 DEF MgrInv, SystemCurrentIsSummary, SeenIsLatched
  <1>6. CASE mgr' = [mgr EXCEPT !["system"] = new]
    <2>1. mgr'["power"] = mgr["power"]
      BY <1>1, <1>6 DEF MgrInv, Mgrs
    <2>2. MgrInv'
      BY <1>1, <1>4, <1>6, OneMgrChanges
    <2>3. QED
      BY <2>1, <2>2
  <1>7. QED
    BY <1>3, <1>5, <1>6

(* A call changes a manager. *)
LEMMA ChangeOneMgr ==
    ASSUME IInv, NEW t \in Threads, ChangeMgr(t)
    PROVE  /\ MgrInv'
           /\ \A b \in mgr["power"].summary \cap MaskFaults :
                 b \in mgr'["power"].summary \/ (call[t].op = "reset" /\ b \in call[t].mask)
  <1> DEFINE op   == call[t].op
             mask == call[t].mask
             n    == Head(call[t].left)
             new  == WithMask(op, mgr[n], mask)
  <1>1. call[t].left \in Orders /\ call[t].left # <<>> /\ op \in {"reset", "enable", "comm"}
        /\ (op = "comm" => call[t].left = <<"system">>)
    BY DEF ChangeMgr, IInv, CallsFit
  <1>2. n \in Mgrs /\ (op = "comm" => n = "system")
    BY <1>1, OrderSteps
  <1>3. /\ mask \in SUBSET Bits /\ mgr[n] \in Mgr /\ MaskFaults \subseteq mgr[n].enable
        /\ mgr \in [Mgrs -> Mgr] /\ MgrInv
    BY <1>2 DEF IInv, TypeOK, MgrInv
  <1>4. /\ new \in Mgr /\ MaskFaults \subseteq new.enable
        /\ mgr[n].current = mgr[n].summary => new.current = new.summary
        /\ op # "comm" /\ mgr[n].prev \subseteq mgr[n].summary => new.prev \subseteq new.summary
    BY <1>1, <1>3, WithMaskKeeps
  <1>5. mgr' = [mgr EXCEPT ![n] = new]
    BY DEF ChangeMgr
  <1>6. /\ n = "system" => new.current = new.summary
        /\ n = "power" => new.prev \subseteq new.summary
    BY <1>2, <1>3, <1>4 DEF MgrInv, SystemCurrentIsSummary, SeenIsLatched
  <1>7. \A b \in mgr["power"].summary \cap MaskFaults :
           b \in mgr'["power"].summary \/ (op = "reset" /\ b \in mask)
    <2>1. CASE n # "power"
      BY <1>2, <1>3, <1>5, <2>1 DEF Mgrs
    <2>2. CASE n = "power" /\ op = "reset"
      BY <1>2, <1>3, <1>5, <2>2 DEF WithMask, ResetMgr, Mgr
    <2>3. CASE n = "power" /\ op = "enable"
      BY <1>2, <1>3, <1>5, <2>3 DEF WithMask, EnableInMask, Mgr
    <2>4. QED
      BY <1>1, <1>2, <2>1, <2>2, <2>3
  <1> HIDE DEF new
  <1>8. MgrInv'
    BY <1>2, <1>3, <1>4, <1>5, <1>6, OneMgrChanges
  <1>9. QED
    BY <1>7, <1>8

(* The motion engine's timeout. *)
LEMMA TimeoutMgr ==
    ASSUME IInv, NEW t \in Threads, ReportMotionEngineTimeout(t)
    PROVE  MgrInv' /\ mgr'["power"] = mgr["power"]
  <1>1. PICK bit \in Timeouts : mgr' = [mgr EXCEPT !["system"] = MergeFaults(mgr["system"], {bit})]
    BY DEF ReportMotionEngineTimeout, IInv, TypeOK, Mgrs
  <1> DEFINE new == MergeFaults(mgr["system"], {bit})
  <1>2. /\ mgr["system"] \in Mgr /\ MaskFaults \subseteq mgr["system"].enable
        /\ mgr["system"].current = mgr["system"].summary
        /\ {bit} \in SUBSET Bits /\ "system" \in Mgrs /\ "power" \in Mgrs
        /\ MgrInv /\ mgr \in [Mgrs -> Mgr]
    BY MasksAreBits DEF IInv, TypeOK, SystemCurrentIsSummary, Mgrs, MgrInv
  <1>3. new \in Mgr /\ MaskFaults \subseteq new.enable /\ new.current = new.summary
    BY <1>2, MergeKeeps
  <1> HIDE DEF new
  <1>4. mgr' = [mgr EXCEPT !["system"] = new]
    BY <1>1 DEF new
  <1>5. MgrInv'
    BY <1>2, <1>3, <1>4, OneMgrChanges
  <1>6. QED
    BY <1>2, <1>4, <1>5

-----------------------------------------------------------------------------
(* The calls, the connection and the subsystem's lock: what IInv says of    *)
(* them, and each action in turn.                                           *)
CallInv ==
    /\ commFault \in BOOLEAN /\ powered \in BOOLEAN /\ powerMtx \in Threads \cup {"none"}
    /\ update \in [at : {"idle", "health", "summary"}, current : SUBSET Reported]
    /\ call \in [Threads -> [op : {"none", "reset", "enable", "count", "comm", "safe", "check"},
                             mask : SUBSET Bits, left : Seq(Mgrs)]]
    /\ CallsFit /\ CheckHoldsLock /\ LossIsAnswered

LEMMA IInvParts == IInv <=> MgrInv /\ CallInv
  BY DEF IInv, TypeOK, MgrInv, CallInv

LEMMA IInvPartsNext == IInv' <=> MgrInv' /\ CallInv'
  BY DEF IInv, TypeOK, MgrInv, CallInv

Call == [op : {"none", "reset", "enable", "count", "comm", "safe", "check"},
         mask : SUBSET Bits, left : Seq(Mgrs)]

(* A call that neither begins nor ends a check, and does not give up on a   *)
(* loss, leaves everything else as it is.                                   *)
LEMMA CallGoesOn ==
    ASSUME CallInv, NEW t \in Threads, NEW new \in Call,
           call' = [call EXCEPT ![t] = new], UNCHANGED <<commFault, update, powerMtx, powered>>,
           new.left \in Orders, new.left # <<>> => new.op \in {"reset", "enable", "comm"},
           new.op = "comm" => new.left = <<"system">>,
           call[t].op # "check", new.op # "check",
           commFault /\ call[t].op \in {"count", "comm", "safe"} => new.op \in {"count", "comm", "safe"}
    PROVE  CallInv'
  <1>1. call'[t] = new /\ \A u \in Threads \ {t} : call'[u] = call[u]
    BY DEF CallInv
  <1>2. CallsFit' /\ CheckHoldsLock'
    BY <1>1 DEF CallInv, CallsFit, CheckHoldsLock
  <1>3. LossIsAnswered'
    BY <1>1 DEF CallInv, LossIsAnswered
  <1>4. QED
    BY <1>2, <1>3 DEF CallInv, Call

LEMMA CallIsCall ==
    ASSUME CallInv, NEW t \in Threads
    PROVE  call[t] \in Call /\ Ready \in Call /\ Ready.op = "none" /\ Ready.left = <<>>
  BY DEF CallInv, Call, Ready

LEMMA OrdersAreSeqs == Orders \subseteq Seq(Mgrs)
  BY DEF Orders, ResetOrder, EnableOrder, Mgrs

(* The steps that take a call from one point to the next. *)
LEMMA CallMgrsCalls == ASSUME IInv, NEW t \in Threads, CallMgrs(t) PROVE CallInv'
  <1>1. CallInv /\ call[t].op = "none"
    BY IInvParts, CallIsCall DEF CallMgrs
  <1>2. PICK new \in Call :
           /\ call' = [call EXCEPT ![t] = new]
           /\ new.op \in {"reset", "enable"} /\ new.left \in Orders
    <2>1. CASE \E mask \in Resets : Calls(t, "reset", mask, ResetOrder)
      <3>1. PICK mask \in Resets : Calls(t, "reset", mask, ResetOrder)
        BY <2>1
      <3>2. ResetOrder \in Orders /\ [op |-> "reset", mask |-> mask, left |-> ResetOrder] \in Call
        BY MasksAssumption, OrdersAreSeqs DEF Call, Orders
      <3>3. QED
        BY <3>1, <3>2 DEF Calls
    <2>2. CASE \E mask \in Enables : Calls(t, "enable", mask, EnableOrder)
      <3>1. PICK mask \in Enables : Calls(t, "enable", mask, EnableOrder)
        BY <2>2
      <3>2. EnableOrder \in Orders /\ [op |-> "enable", mask |-> mask, left |-> EnableOrder] \in Call
        BY MasksAssumption, OrdersAreSeqs DEF Call, Orders
      <3>3. QED
        BY <3>1, <3>2 DEF Calls
    <2>3. QED
      BY <2>1, <2>2 DEF CallMgrs
  <1>3. QED
    BY <1>1, <1>2, CallGoesOn DEF CallMgrs

LEMMA ReportCalls == ASSUME IInv, NEW t \in Threads, ReportComConnectionCount(t) PROVE CallInv'
  <1> DEFINE new == [op |-> "count", mask |-> {}, left |-> <<>>]
  <1>1. CallInv /\ call[t].op = "none"
    BY IInvParts, CallIsCall DEF ReportComConnectionCount
  <1>2. /\ call' = [call EXCEPT ![t] = new] /\ commFault' \in BOOLEAN
        /\ UNCHANGED <<update, powerMtx, powered>>
    BY DEF ReportComConnectionCount, Calls
  <1>3. new \in Call /\ new.op = "count" /\ new.left = <<>> /\ new.left \in Orders
    BY DEF Call, Orders
  <1> HIDE DEF new
  <1>4. call'[t] = new /\ \A u \in Threads \ {t} : call'[u] = call[u]
    BY <1>1, <1>2 DEF CallInv
  <1>5. CallsFit' /\ CheckHoldsLock' /\ LossIsAnswered'
    BY <1>1, <1>2, <1>3, <1>4 DEF CallInv, CallsFit, CheckHoldsLock, LossIsAnswered
  <1>6. QED
    BY <1>1, <1>2, <1>3, <1>5 DEF CallInv, Call

LEMMA ActOnCountCalls == ASSUME IInv, NEW t \in Threads, ActOnCount(t) PROVE CallInv'
  <1>1. CallInv /\ call[t].op = "count"
    BY IInvParts DEF ActOnCount
  <1>2. PICK new \in Call :
           /\ call' = [call EXCEPT ![t] = new] /\ new.left \in Orders
           /\ new.op \in {"comm", "reset"} /\ (new.op = "comm" => new.left = <<"system">>)
           /\ (commFault => new.op = "comm")
    <2>1. CASE commFault
      <3>1. <<"system">> \in Orders /\ [op |-> "comm", mask |-> CrioComm, left |-> <<"system">>] \in Call
        BY MasksAreBits, OrdersAreSeqs DEF Call, Orders
      <3>2. QED
        BY <2>1, <3>1 DEF ActOnCount, Calls
    <2>2. CASE ~commFault
      <3>1. ResetOrder \in Orders /\ [op |-> "reset", mask |-> CrioComm, left |-> ResetOrder] \in Call
        BY MasksAreBits, OrdersAreSeqs DEF Call, Orders
      <3>2. QED
        BY <2>2, <3>1 DEF ActOnCount, Calls
    <2>3. QED
      BY <2>1, <2>2
  <1>3. QED
    BY <1>1, <1>2, CallGoesOn DEF ActOnCount

LEMMA ChangeMgrCalls == ASSUME IInv, NEW t \in Threads, ChangeMgr(t) PROVE CallInv'
  <1> DEFINE this == call[t]
  <1>1. /\ CallInv /\ this \in Call /\ this.left \in Orders /\ this.left # <<>>
        /\ this.op \in {"reset", "enable", "comm"} /\ (this.op = "comm" => this.left = <<"system">>)
    BY IInvParts, CallIsCall DEF ChangeMgr, CallInv, CallsFit
  <1>2. Tail(this.left) \in Orders /\ (this.op = "comm" => Tail(this.left) = <<>>)
    BY <1>1, OrderSteps
  <1>3. PICK new \in Call :
           /\ call' = [call EXCEPT ![t] = new] /\ new.left \in Orders
           /\ new.left # <<>> => new.op \in {"reset", "enable"}
           /\ new.op \in {"reset", "enable", "none", "safe"}
           /\ this.op = "comm" => new.op = "safe"
    <2>1. CASE Tail(this.left) # <<>>
      <3>1. [this EXCEPT !.left = Tail(@)] \in Call
        BY <1>1, <1>2, OrdersAreSeqs DEF Call
      <3>2. QED
        BY <1>1, <1>2, <2>1, <3>1 DEF ChangeMgr, Call
    <2>2. CASE Tail(this.left) = <<>> /\ this.op = "comm"
      <3>1. [Ready EXCEPT !.op = "safe"] \in Call /\ <<>> \in Orders
        BY <1>1, CallIsCall DEF Call, Orders
      <3>2. [Ready EXCEPT !.op = "safe"].left = <<>> /\ [Ready EXCEPT !.op = "safe"].op = "safe"
        BY DEF Ready
      <3>3. QED
        BY <2>2, <3>1, <3>2 DEF ChangeMgr
    <2>3. CASE Tail(this.left) = <<>> /\ this.op # "comm"
      <3>1. Ready \in Call /\ Ready.left = <<>> /\ Ready.op = "none" /\ <<>> \in Orders
        BY <1>1, CallIsCall DEF Orders
      <3>2. QED
        BY <2>3, <3>1 DEF ChangeMgr
    <2>4. QED
      BY <2>1, <2>2, <2>3
  <1>4. QED
    BY <1>1, <1>3, CallGoesOn DEF ChangeMgr

(* Safe mode waits for whoever checks: no check that has not seen the loss  *)
(* is left when the power is turned off.                                   *)
LEMMA ConnectionsLostCalls == ASSUME IInv, NEW t \in Threads, ConnectionsLost(t) PROVE CallInv'
  <1>1. /\ CallInv /\ powerMtx = "none" /\ powered' = FALSE
        /\ call' = [call EXCEPT ![t] = Ready] /\ Ready \in Call
        /\ UNCHANGED <<commFault, update, powerMtx>>
    BY IInvParts, CallIsCall DEF ConnectionsLost, GoToSafeMode
  <1>2. \A u \in Threads : call[u].op # "check"
    BY <1>1, ThreadsAssumption DEF CallInv, CheckHoldsLock
  <1>3. call'[t] = Ready /\ \A u \in Threads \ {t} : call'[u] = call[u]
    BY <1>1 DEF CallInv
  <1>4. Ready.op = "none" /\ Ready.left = <<>> /\ Ready.left \in Orders
    BY DEF Ready, Orders
  <1>5. CallsFit' /\ CheckHoldsLock' /\ LossIsAnswered'
    BY <1>1, <1>2, <1>3, <1>4, ThreadsAssumption DEF CallInv, CallsFit, CheckHoldsLock, LossIsAnswered
  <1>6. QED
    BY <1>1, <1>5 DEF CallInv, Call

LEMMA CheckConnectionCalls == ASSUME IInv, NEW t \in Threads, CheckConnection(t) PROVE CallInv'
  <1> DEFINE new == [op |-> "check", mask |-> IF commFault THEN CrioComm ELSE {}, left |-> <<>>]
  <1>1. /\ CallInv /\ call[t].op = "none" /\ powerMtx = "none" /\ powerMtx' = t
        /\ call' = [call EXCEPT ![t] = new]
        /\ UNCHANGED <<commFault, update, powered>>
    BY IInvParts, CallIsCall DEF CheckConnection, Calls
  <1>2. /\ new \in Call /\ new.op = "check" /\ new.left = <<>> /\ new.left \in Orders
        /\ commFault => new.mask # {}
    BY MasksAreBits DEF Call, Orders, CrioComm
  <1> HIDE DEF new
  <1>3. call'[t] = new /\ \A u \in Threads \ {t} : call'[u] = call[u]
    BY <1>1 DEF CallInv
  <1>4. CallsFit' /\ CheckHoldsLock'
    BY <1>1, <1>2, <1>3, ThreadsAssumption DEF CallInv, CallsFit, CheckHoldsLock
  <1>5. LossIsAnswered'
    BY <1>1, <1>2, <1>3 DEF CallInv, LossIsAnswered
  <1>6. QED
    BY <1>1, <1>2, <1>4, <1>5 DEF CallInv, Call

(* A check that grants power has seen a connection; if it is lost since,    *)
(* the thread that reported it goes on.                                    *)
LEMMA CheckFaultsCalls == ASSUME IInv, NEW t \in Threads, CheckFaults(t) PROVE CallInv'
  <1>1. /\ CallInv /\ call[t].op = "check" /\ powerMtx = t /\ powerMtx' = "none"
        /\ call' = [call EXCEPT ![t] = Ready] /\ Ready \in Call
        /\ powered' \in BOOLEAN /\ (powered' => call[t].mask = {})
        /\ UNCHANGED <<commFault, update>>
    BY IInvParts, CallIsCall DEF CheckFaults, CallInv, CheckHoldsLock
  <1>2. call'[t] = Ready /\ \A u \in Threads \ {t} : call'[u] = call[u]
    BY <1>1 DEF CallInv
  <1>3. Ready.op = "none" /\ Ready.left = <<>> /\ Ready.left \in Orders
    BY DEF Ready, Orders
  <1>4. CallsFit' /\ CheckHoldsLock'
    BY <1>1, <1>2, <1>3, ThreadsAssumption DEF CallInv, CallsFit, CheckHoldsLock
  <1>5. LossIsAnswered'
    BY <1>1, <1>2, <1>3 DEF CallInv, LossIsAnswered
  <1>6. QED
    BY <1>1, <1>4, <1>5 DEF CallInv, Call

(* The event thread's steps. *)
LEMMA UpdateCalls ==
    ASSUME IInv, (\E faults \in SUBSET Reported : UpdatePowerFaults(faults)) \/ UpdateHealth \/ UpdateSystem
    PROVE  CallInv'
  <1> DEFINE Goal == /\ UNCHANGED <<commFault, call, powerMtx>>
                     /\ powered' \in BOOLEAN /\ (powered' => powered)
                     /\ update' \in [at : {"idle", "health", "summary"}, current : SUBSET Reported]
  <1>1. CallInv /\ NoUpdate \in [at : {"idle", "health", "summary"}, current : SUBSET Reported]
    BY IInvParts DEF NoUpdate
  <1>2. ASSUME \E faults \in SUBSET Reported : UpdatePowerFaults(faults) PROVE Goal
    BY <1>1, <1>2 DEF UpdatePowerFaults, CallInv
  <1>3. ASSUME UpdateHealth PROVE Goal
    BY <1>1, <1>3 DEF UpdateHealth, GoToSafeMode, CallInv
  <1>4. ASSUME UpdateSystem PROVE Goal
    BY <1>1, <1>4 DEF UpdateSystem, CallInv
  <1>5. Goal
    BY <1>2, <1>3, <1>4
  <1>6. CallsFit' /\ CheckHoldsLock'
    BY <1>1, <1>5 DEF CallInv, CallsFit, CheckHoldsLock
  <1>7. LossIsAnswered'
    BY <1>1, <1>5 DEF CallInv, LossIsAnswered
  <1>8. QED
    BY <1>1, <1>5, <1>6, <1>7 DEF CallInv

-----------------------------------------------------------------------------
LEMMA UnchangedMgr == ASSUME IInv, UNCHANGED mgr PROVE MgrInv'
  BY IInvParts DEF MgrInv, SystemCurrentIsSummary, SeenIsLatched

LEMMA NextIInv == IInv /\ [Next]_faultMgrVars => IInv'
  <1> SUFFICES ASSUME IInv, [Next]_faultMgrVars PROVE IInv'
    OBVIOUS
  <1>1. CASE \E faults \in SUBSET Reported : UpdatePowerFaults(faults)
    BY <1>1, UpdatePowerMgr, UpdateCalls, IInvPartsNext
  <1>2. CASE UpdateHealth
    BY <1>2, UnchangedMgr, UpdateCalls, IInvPartsNext DEF UpdateHealth
  <1>3. CASE UpdateSystem
    BY <1>3, UpdateSystemMgr, UpdateCalls, IInvPartsNext
  <1>4. ASSUME NEW t \in Threads, CallMgrs(t) PROVE IInv'
    BY <1>4, UnchangedMgr, CallMgrsCalls, IInvPartsNext DEF CallMgrs
  <1>5. ASSUME NEW t \in Threads, ReportMotionEngineTimeout(t) PROVE IInv'
    <2>1. CallInv'
      BY <1>5, IInvParts DEF ReportMotionEngineTimeout, CallInv, CallsFit, CheckHoldsLock, LossIsAnswered
    <2>2. QED
      BY <1>5, <2>1, TimeoutMgr, IInvPartsNext
  <1>6. ASSUME NEW t \in Threads, ReportComConnectionCount(t) PROVE IInv'
    BY <1>6, UnchangedMgr, ReportCalls, IInvPartsNext DEF ReportComConnectionCount
  <1>7. ASSUME NEW t \in Threads, ActOnCount(t) PROVE IInv'
    BY <1>7, UnchangedMgr, ActOnCountCalls, IInvPartsNext DEF ActOnCount
  <1>8. ASSUME NEW t \in Threads, ChangeMgr(t) PROVE IInv'
    BY <1>8, ChangeOneMgr, ChangeMgrCalls, IInvPartsNext
  <1>9. ASSUME NEW t \in Threads, ConnectionsLost(t) PROVE IInv'
    BY <1>9, UnchangedMgr, ConnectionsLostCalls, IInvPartsNext DEF ConnectionsLost
  <1>10. ASSUME NEW t \in Threads, CheckConnection(t) PROVE IInv'
    BY <1>10, UnchangedMgr, CheckConnectionCalls, IInvPartsNext DEF CheckConnection
  <1>11. ASSUME NEW t \in Threads, CheckFaults(t) PROVE IInv'
    BY <1>11, UnchangedMgr, CheckFaultsCalls, IInvPartsNext DEF CheckFaults
  <1>12. CASE UNCHANGED faultMgrVars
    <2>1. UNCHANGED <<mgr, commFault, update, call, powerMtx, powered>>
      BY <1>12 DEF faultMgrVars
    <2>2. CallInv'
      BY <2>1, IInvParts DEF CallInv, CallsFit, CheckHoldsLock, LossIsAnswered
    <2>3. QED
      BY <2>1, <2>2, UnchangedMgr, IInvPartsNext
  <1>13. QED
    BY <1>1, <1>2, <1>3, <1>4, <1>5, <1>6, <1>7, <1>8, <1>9, <1>10, <1>11, <1>12 DEF Next

(* The inductive invariant of FaultMgr: the managers of BasicFaultMgr.cpp   *)
(* and the calls of FaultMgr.cpp fit each other in every reachable state.   *)
THEOREM Invariance == Spec => []IInv
  BY InitIInv, NextIInv, PTL DEF Spec

(* Every bitmap of FaultMgr stays one, and no default fault is disabled.    *)
THEOREM TypeCorrect == Spec => []TypeOK
  BY Invariance, PTL DEF IInv

(* The current faults of the system's manager, of which mergeFaults and     *)
(* updateSummary hope to get rid, always are its summary.                   *)
THEOREM CurrentIsSummary == Spec => []SystemCurrentIsSummary
  BY Invariance, PTL DEF IInv

(* BasicFaultMgr::updateFaults and resetFaults: what was seen is latched.   *)
THEOREM SeenStaysLatched == Spec => []SeenIsLatched
  BY Invariance, PTL DEF IInv

(* reportComConnectionCount, checkForPowerSubsystemFaults and safe mode,    *)
(* by any number of threads: no power is left without a connection.         *)
THEOREM PowerNeedsConnection == Spec => []NoPowerWithoutConnection
  <1>1. IInv => NoPowerWithoutConnection
    <2> SUFFICES ASSUME IInv, commFault, \A t \in Threads : call[t] = Ready PROVE ~powered
      BY DEF NoPowerWithoutConnection
    <2>1. \A t \in Threads : call[t].op = "none"
      BY DEF Ready
    <2>2. QED
      BY <2>1 DEF IInv, LossIsAnswered
  <1>2. QED
    BY <1>1, Invariance, PTL

(* updatePowerFaults: a fault that stays is latched by the next report.     *)
THEOREM PersistenceLatches == Spec => PersistentFaultLatches
  <1>1. IInv /\ [Next]_faultMgrVars =>
            [\A faults \in SUBSET Reported :
                 UpdatePowerFaults(faults) =>
                     faults \cap mgr["power"].enable \subseteq mgr'["power"].summary]_faultMgrVars
    BY UpdatePowerMgr
  <1>2. QED
    BY <1>1, Invariance, PTL DEF Spec, PersistentFaultLatches

(* resetFaults alone takes a latched fault from the power system's manager. *)
THEOREM OnlyResetsTakePowerFaults == Spec => PowerFaultsStay
  <1> DEFINE Stays ==
          \A b \in mgr["power"].summary \cap MaskFaults :
              b \in mgr'["power"].summary
                  \/ \E t \in Threads : call[t].op = "reset" /\ b \in call[t].mask
  <1>1. IInv /\ [Next]_faultMgrVars => [Stays]_faultMgrVars
    <2> SUFFICES ASSUME IInv, Next PROVE Stays
      OBVIOUS
    <2>1. CASE \E faults \in SUBSET Reported : UpdatePowerFaults(faults)
      BY <2>1, UpdatePowerMgr
    <2>2. CASE UpdateSystem
      BY <2>2, UpdateSystemMgr
    <2>3. ASSUME NEW t \in Threads, ReportMotionEngineTimeout(t) PROVE Stays
      BY <2>3, TimeoutMgr
    <2>4. ASSUME NEW t \in Threads, ChangeMgr(t) PROVE Stays
      BY <2>4, ChangeOneMgr
    <2>5. CASE UNCHANGED mgr
      BY <2>5
    <2>6. QED
      BY <2>1, <2>2, <2>3, <2>4, <2>5 DEF Next, UpdateHealth, CallMgrs, ReportComConnectionCount,
         ActOnCount, ConnectionsLost, CheckConnection, CheckFaults
  <1>2. QED
    BY <1>1, Invariance, PTL DEF Spec, PowerFaultsStay
=============================================================================
