------------------------------ MODULE Catalog ------------------------------
(***************************************************************************)
(* What the delivery path knows of the tables sources and actions: which   *)
(* rows exist, a source's mode, whether an action is active, and which of  *)
(* them have a script.  The statements that change them are the edits of   *)
(* ApiServer; the module Management, which models the handlers behind      *)
(* them, implements CatalogSpec.                                           *)
(***************************************************************************)

CONSTANTS
    Sources, Actions,
    OwnerOf        \* the source an action belongs to

ASSUME OwnersAssumption == OwnerOf \in [Actions -> Sources]

VARIABLES
    mode,        \* sources.mode; "none" before, "deleted" after the row
    scripted,    \* whether sources.script_body holds a script
    action,      \* "none", "active", "inactive" (is_active) or "deleted"
    transforms   \* the actions whose transform_script holds a script

catalog == <<mode, scripted, action, transforms>>

LiveModes == {"record", "active"}
Modes == LiveModes \cup {"none", "deleted"}
ActionStates == {"none", "active", "inactive", "deleted"}

SourceExists(s) == mode[s] \in LiveModes
ActionExists(a) == action[a] \in {"active", "inactive"}
ListActiveBySource(s) == {a \in Actions : OwnerOf[a] = s /\ action[a] = "active"}

(* The foreign key of actions: an action's source exists.                   *)
OwnersExist == \A a \in Actions : ActionExists(a) => SourceExists(OwnerOf[a])

(* The mode, the script or both, at creation and by an UPDATE.              *)
WriteSource(s) ==
    /\ \E m \in LiveModes : mode' = [mode EXCEPT ![s] = m]
    /\ \E b \in BOOLEAN : scripted' = [scripted EXCEPT ![s] = b]
    /\ UNCHANGED <<action, transforms>>
AddSource(s) == mode[s] = "none" /\ WriteSource(s)
SetSource(s) == SourceExists(s) /\ WriteSource(s)

(* ON DELETE CASCADE: the source's actions go with it.                      *)
RemoveSource(s) ==
    /\ SourceExists(s)
    /\ mode' = [mode EXCEPT ![s] = "deleted"]
    /\ action' = [a \in Actions |-> IF OwnerOf[a] = s /\ ActionExists(a)
                                    THEN "deleted" ELSE action[a]]
    /\ UNCHANGED <<scripted, transforms>>

(* is_active defaults to true.                                              *)
AddAction(a) ==
    /\ SourceExists(OwnerOf[a])
    /\ action[a] = "none"
    /\ action' = [action EXCEPT ![a] = "active"]
    /\ \E t \in {{}, {a}} : transforms' = transforms \cup t
    /\ UNCHANGED <<mode, scripted>>

SetAction(a) ==
    /\ ActionExists(a)
    /\ \E st \in {"active", "inactive"} : action' = [action EXCEPT ![a] = st]
    /\ \E t \in {{}, {a}} : transforms' = (transforms \ {a}) \cup t
    /\ UNCHANGED <<mode, scripted>>

RemoveAction(a) ==
    /\ ActionExists(a)
    /\ action' = [action EXCEPT ![a] = "deleted"]
    /\ UNCHANGED <<mode, scripted, transforms>>

CatalogInit ==
    /\ mode \in [Sources -> Modes \ {"deleted"}]
    /\ scripted \in [Sources -> BOOLEAN]
    /\ action \in [Actions -> ActionStates \ {"deleted"}]
    /\ transforms \in SUBSET Actions
    /\ OwnersExist

CatalogNext ==
    \/ \E s \in Sources : AddSource(s) \/ SetSource(s) \/ RemoveSource(s)
    \/ \E a \in Actions : AddAction(a) \/ SetAction(a) \/ RemoveAction(a)

CatalogSpec == CatalogInit /\ [][CatalogNext]_catalog
=============================================================================
