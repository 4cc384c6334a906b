------------------------------- MODULE LiveSet -------------------------------
(***************************************************************************)
(* What a device's vector set promises its host: the library it answers    *)
(* from changes only when a whole base replaces it or a whole delta that   *)
(* starts where it stands is applied to it.  Compacting changes nothing.   *)
(***************************************************************************)
EXTENDS Naturals, Sequences

CONSTANTS Releases, None

VARIABLE library \* [model, version, content], or None while nothing is installed

Init == library = None

Replace(r) ==
  /\ r.kind = "base"
  /\ library' = [model |-> r.model, version |-> r.to, content |-> <<r.sha>>]

Extend(r) ==
  /\ r.kind = "delta" /\ library # None
  /\ r.model = library.model /\ r.from = library.version
  /\ library' = [model |-> r.model, version |-> r.to,
                 content |-> Append(library.content, r.sha)]

Next == \E r \in Releases : Replace(r) \/ Extend(r)

Spec == Init /\ [][Next]_library
=============================================================================
