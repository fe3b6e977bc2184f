---------------------------- MODULE MCSyncEngine ----------------------------
(***************************************************************************)
(* SyncEngine for TLC.  Records and workers are model values; payloads     *)
(* share one email or have one each, as the configuration says.            *)
(***************************************************************************)
EXTENDS SyncEngine, TLC

OneEmail  == [p \in Payloads |-> "same"]
OwnEmails == [p \in Payloads |-> p]

\* Requests are interchangeable, and so are payloads under either EmailOf.
Symmetry == Permutations(Workers) \cup Permutations(Payloads)

\* Records are interchangeable too when all of them are speakers.
SymmetryOfSpeakers == Symmetry \cup Permutations(Records)
=============================================================================
