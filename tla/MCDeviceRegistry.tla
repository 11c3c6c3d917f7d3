-------------------------- MODULE MCDeviceRegistry --------------------------
(***************************************************************************)
(* DeviceRegistry for TLC: a switch, a lamp that can be renamed, a lamp    *)
(* promoted from a scanned symbol, and an input whose index the            *)
(* constructor refuses.                                                    *)
(***************************************************************************)
EXTENDS DeviceRegistry, TLC

CONSTANTS sw, bad, lamp, promoted, r1, r2

MCLabelsOf ==
    (sw :> {"switch"}) @@ (bad :> {"typo"}) @@ (promoted :> {"symbol"})
      @@ (lamp :> {"kitchen", "hall"})

(* Bound on the rules: one acts on the lamp, on either state of the        *)
(* trigger, the other on the promoted lamp, on one.                        *)
SmallRules ==
    /\ rule[r1] # NoRule => rule[r1].action = lamp
    /\ rule[r2] # NoRule => rule[r2].action = promoted /\ rule[r2].expected
=============================================================================
