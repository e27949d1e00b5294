------------------------------- MODULE Faults -------------------------------
(***************************************************************************)
(* What may go wrong around the services, as a budget.  A fault is an      *)
(* action of the component it strikes, which names its kind; each spends   *)
(* one unit, so a behaviour has finitely many and its state stays finite.  *)
(* A run chooses the kinds it admits: that is how a property states its    *)
(* hypotheses.                                                             *)
(***************************************************************************)
EXTENDS Naturals

CONSTANTS
    FaultKinds,     \* the kinds of fault a behaviour may contain
    MaxFaults       \* bound: how many faults of any kind in one behaviour

ASSUME FaultsAssumption == MaxFaults \in Nat

VARIABLE faults     \* faults spent so far

FaultsInit == faults = 0
FaultsType == faults \in 0..MaxFaults

Suffer(kind) ==
    /\ kind \in FaultKinds
    /\ faults < MaxFaults
    /\ faults' = faults + 1
=============================================================================
