--------------------------- MODULE TelemetryItems ---------------------------
(***************************************************************************)
(* system/TelemetryItem, TelemetryItemDefs and TelemetryMap: the items of   *)
(* the telemetry, what each is made of, and how one is set from a message. *)
(*                                                                         *)
(* The value of an element, of a whole vector too, is abstract; what a      *)
(* message may get wrong is what elements it has, of what sizes, and       *)
(* whether they have the right types.                                      *)
(***************************************************************************)
EXTENDS Naturals

Single == 0   \* the size of an element that is not a vector
AllSingle(names) == [e \in names |-> Single]

-----------------------------------------------------------------------------
(* TelemetryItemDefs: the elements of each item and their sizes. *)
PowerStatus    == AllSingle({"motorVoltage", "motorCurrent", "commVoltage", "commCurrent"})
ForceBalance   == AllSingle({"fx", "fy", "fz", "mx", "my", "mz"})
Position       == AllSingle({"x", "y", "z", "xRot", "yRot", "zRot"})
Temperature    == [ring |-> 12, intake |-> 2, exhaust |-> 2]
ZenithAngle    == AllSingle({"measured", "inclinometerRaw", "inclinometerProcessed"})
Encoder(size)  == [position |-> size]
Actuator(size) == [steps |-> size]
ForceErrorTangent == [force |-> 6, weight |-> Single, sum |-> Single]
InclinometerAngleTma == AllSingle({"inclinometer"})
DisplacementSensors  == [thetaZ |-> 6, deltaZ |-> 6]
IlcData        == [status |-> 78]
NetForcesTotal == AllSingle({"fx", "fy", "fz"})
NetMomentsTotal == AllSingle({"mx", "my", "mz"})
TelElevation   == AllSingle({"actualPosition", "compName"})

TangentForce == [e \in {"lutGravity", "lutTemperature", "applied", "measured", "hardpointCorrection"} |-> 6]
AxialForce   == [e \in {"lutGravity", "lutTemperature", "applied", "measured", "hardpointCorrection"} |-> 72]

(* TelemetryMap *)
ItemDefs ==
    [powerStatus |-> PowerStatus, powerStatusRaw |-> PowerStatus,
     tangentForce |-> TangentForce, axialForce |-> AxialForce, forceBalance |-> ForceBalance,
     position |-> Position, positionIMS |-> Position,
     temperature |-> Temperature, zenithAngle |-> ZenithAngle,
     axialEncoderPositions |-> Encoder(72), tangentEncoderPositions |-> Encoder(6),
     axialActuatorSteps |-> Actuator(72), tangentActuatorSteps |-> Actuator(6),
     forceErrorTangent |-> ForceErrorTangent, inclinometerAngleTma |-> InclinometerAngleTma,
     displacementSensors |-> DisplacementSensors, ilcData |-> IlcData,
     netForcesTotal |-> NetForcesTotal, netMomentsTotal |-> NetMomentsTotal,
     tel_elevation |-> TelElevation]

Elements(item)  == DOMAIN ItemDefs[item]
DoNotSend(item) == item = "tel_elevation"

Default == 0
NewMap(items) == [item \in items |-> [e \in Elements(item) |-> Default]]

-----------------------------------------------------------------------------
(* A message: the id, and of each element that it has the size and value.  *)
(* Json is the one that buildJsonFromMap makes of an item.                 *)
Json(item, vals) ==
    [id |-> item, typed |-> TRUE, sizes |-> ItemDefs[item], vals |-> vals]

(* The same without an element, with vectors of other sizes, or with types *)
(* that do not convert.                                                    *)
Without(js, e) ==
    [js EXCEPT !.sizes = [x \in DOMAIN js.sizes \ {e} |-> js.sizes[x]],
               !.vals  = [x \in DOMAIN js.sizes \ {e} |-> js.vals[x]]]
Resized(js)  ==
    [js EXCEPT !.sizes = [x \in DOMAIN js.sizes |-> IF js.sizes[x] = Single THEN Single ELSE js.sizes[x] + 1]]
IllTyped(js) == [js EXCEPT !.typed = FALSE]

(* setFromJson of one element: it is there, and setVals takes its size.   *)
Fits(js, e) == e \in DOMAIN js.sizes /\ js.sizes[e] = ItemDefs[js.id][e]

SetElement(vals, js, e) ==
    IF Fits(js, e) THEN [vals EXCEPT ![js.id][e] = js.vals[e]] ELSE vals

(* setMapFromJson: every element that can be set is, also if others cannot. *)
SetItem(vals, js) ==
    [vals EXCEPT ![js.id] = [e \in Elements(js.id) |-> SetElement(vals, js, e)[js.id][e]]]
SetOk(js) == \A e \in Elements(js.id) : Fits(js, e)

(* compareTelemetryItemMaps *)
CompareMaps(mapA, mapB) ==
    /\ DOMAIN mapA = DOMAIN mapB
    /\ \A item \in DOMAIN mapA : mapA[item] = mapB[item]
=============================================================================
