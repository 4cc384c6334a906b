---------------------------- MODULE InstalledCopy ----------------------------
(***************************************************************************)
(* What an install promises the device: it always holds one complete       *)
(* artifact, once it has had one.  The artifact changes only to the one    *)
(* being installed, or, when the power fails, back to one that no flush    *)
(* had settled past.                                                       *)
(***************************************************************************)
EXTENDS Naturals

CONSTANTS Artifacts, None

VARIABLES copy,     \* the artifact the device holds, None before the first
          possible  \* the artifacts it may hold after a power loss

vars == <<copy, possible>>

Init == copy = None /\ possible = {None}

Install(a) == copy' = a /\ possible' = possible \cup {a}

Settle == possible' = {copy} /\ UNCHANGED copy

PowerLoss == \E c \in possible : copy' = c /\ possible' = {c}

Next == (\E a \in Artifacts : Install(a)) \/ Settle \/ PowerLoss

Spec == Init /\ [][Next]_vars
=============================================================================
