------------------------- MODULE RecordWriteProtocol -------------------------
(***************************************************************************)
(* What synchronization promises about one logical record, whatever        *)
(* requests, retries, recoveries and crashes happen (execute_item: "the    *)
(* global event/type/id write invariant"): writes to Accelevents happen in *)
(* turns, a turn belongs to one item, turns that send follow the order of  *)
(* the items, and a turn whose outcome is open ends only by a person's     *)
(* decision.  A turn whose process died stays taken.                       *)
(***************************************************************************)
EXTENDS Naturals

CONSTANTS Records, Stored  \* Stored: what Accelevents may hold for a record

VARIABLES
    phase,     \* of the record's turn
    holder,    \* the item the turn belongs to, 0 for none
    lastSent,  \* the newest item that was ever sent, 0 for none
    stored     \* what Accelevents holds

vars == <<phase, holder, lastSent, stored>>

Phases == {"free", "taken", "sending", "closing", "doubtful", "orphaned"}

Init ==
    /\ phase = [r \in Records |-> "free"]
    /\ holder = [r \in Records |-> 0]
    /\ lastSent = [r \in Records |-> 0]
    /\ stored \in [Records -> Stored]

Move(r, from, to) ==
    /\ phase[r] \in from
    /\ phase' = [phase EXCEPT ![r] = to]

Take(r) ==
    /\ Move(r, {"free"}, "taken")
    /\ holder'[r] \in Nat \ {0}
    /\ holder' = [holder EXCEPT ![r] = holder'[r]]
    /\ UNCHANGED <<lastSent, stored>>

\* Only the newest item may start to send, and only by opening its turn.
Send(r) ==
    /\ Move(r, {"taken"}, "sending")
    /\ lastSent[r] <= holder[r]
    /\ lastSent' = [lastSent EXCEPT ![r] = holder[r]]
    /\ UNCHANGED <<holder, stored>>

\* One try of the write, the last one or one that will be repeated.
Write(r) ==
    /\ \E to \in {"sending", "closing", "doubtful"} : Move(r, {"sending"}, to)
    /\ stored'[r] \in Stored
    /\ stored' = [stored EXCEPT ![r] = stored'[r]]
    /\ UNCHANGED <<holder, lastSent>>

Close(r) ==
    /\ Move(r, {"taken", "sending"}, "closing")
    /\ UNCHANGED <<holder, lastSent, stored>>

Doubt(r) ==
    /\ Move(r, {"taken", "sending", "closing"}, "doubtful")
    /\ UNCHANGED <<holder, lastSent, stored>>

Orphan(r) ==
    /\ Move(r, {"taken", "sending", "closing"}, "orphaned")
    /\ UNCHANGED <<holder, lastSent, stored>>

\* By the request itself, or by an organiser who verified a doubtful outcome.
Free(r) ==
    /\ Move(r, {"taken", "closing", "doubtful"}, "free")
    /\ holder' = [holder EXCEPT ![r] = 0]
    /\ UNCHANGED <<lastSent, stored>>

Next ==
    \E r \in Records :
        \/ Take(r) \/ Send(r) \/ Write(r) \/ Close(r)
        \/ Doubt(r) \/ Orphan(r) \/ Free(r)

Spec == Init /\ [][Next]_vars
=============================================================================
