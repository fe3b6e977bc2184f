------------------------------ MODULE MCPeople ------------------------------
(***************************************************************************)
(* The people of an event: the speakers' tasks (Onboarding) and the        *)
(* modules of People, which share no row and no request with them, so      *)
(* every behaviour runs one of them, the part, and leaves the others as    *)
(* they start.                                                             *)
(***************************************************************************)
EXTENDS MCOnboarding, People

\* An edition whose feed gives keys and one whose feed does not, a talk in each.
Edition(t)  == IF t = "t1" THEN "e1" ELSE "e2"
OnePerson   == << <<"e1", "a">>, <<"t2", 1>> >>

Parts   == {"tasks", "desk", "contacts", "memory", "readiness"}
allVars == <<part, vars, profiles, crm, editions, told>>

PartsInit == part \in Parts /\ Init /\ PeopleInit
PartsNext ==
    \/ part = "tasks" /\ Next /\ UNCHANGED <<part, profiles, crm, editions, told>>
    \/ PeopleNext /\ UNCHANGED vars
PartsSpec == PartsInit /\ [][PartsNext]_allVars
=============================================================================
