------------------------------- MODULE MCJobs -------------------------------
(***************************************************************************)
(* The jobs that outlive a request, checked side by side: scans, lighting  *)
(* effects and live streams share no variable, so a behaviour follows one  *)
(* of them, chosen at the start.                                           *)
(***************************************************************************)
EXTENDS SuperScan, LightingEffects, EventStream

VARIABLE focus

jobVars == <<focus, superVars, effectVars, eventVars>>

Init ==
    /\ focus \in {"scan", "effects", "stream"}
    /\ ScanInit /\ EffectsInit /\ StreamInit
    /\ focus # "scan" => /\ \A d \in Outputs : value[d] = FALSE
                         /\ \A d \in Outputs : kind[d] = "flip"
    /\ focus # "stream" => \A c \in Clients : streamDev[c] = CHOOSE d \in PlcDevices : TRUE

Scans == focus = "scan" /\ ScanNext /\ UNCHANGED <<focus, effectVars, eventVars>>
Effects == focus = "effects" /\ EffectsNext /\ UNCHANGED <<focus, superVars, eventVars>>
Streams == focus = "stream" /\ StreamNext /\ UNCHANGED <<focus, superVars, effectVars>>

Next == Scans \/ Effects \/ Streams

Spec ==
    /\ Init /\ [][Next]_jobVars
    /\ ScanFairness /\ EffectsFairness
=============================================================================
