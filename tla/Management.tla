----------------------------- MODULE Management -----------------------------
(***************************************************************************)
(* The two doors through which sources and actions are managed, the JSON   *)
(* API and the dashboard, with the columns they write and what they check  *)
(* before.  A handler's only write is one statement, on a row it names by  *)
(* its id (an action) or by its slug, which is UNIQUE (a source), and what *)
(* it has read before never changes, so a handler is one step.  A request  *)
(* that is refused changes nothing and is not a step.                      *)
(***************************************************************************)
EXTENDS Naturals

CONSTANTS Sources, Actions, OwnerOf

ASSUME OwnersAssumption == OwnerOf \in [Actions -> Sources]

VARIABLES
    mode,    \* as in Catalog
    script,  \* sources.script_body
    action,  \* as in Catalog
    row      \* the columns of an action: type, target_url, script_body,
             \* config, transform_script

vars == <<mode, script, action, row>>

(* A text is NULL, empty, a script that defines the function transform or   *)
(* process, or one that defines neither, does not compile or is too long.   *)
(* (One that defines both is as good as either.)                            *)
Texts == {"null", "empty", "broken", "transform", "process"}
Targets == {"null", "empty", "url"}
(* A config is NULL, has every field its type requires, or has a port that  *)
(* is no number, which Atoi has made 0.                                     *)
Configs == {"null", "complete", "portless"}
Types == {"webhook", "javascript", "slack", "smtp", "twilio"}
Rows == [type : Types, target : Targets, body : Texts, config : Configs,
         transform : Texts]
NoRow == [type |-> "webhook", target |-> "null", body |-> "null",
          config |-> "null", transform |-> "null"]

SourceExists(s) == mode[s] \in {"record", "active"}
ActionExists(a) == action[a] \in {"active", "inactive"}

-----------------------------------------------------------------------------
(* Checks.  A script is run only when its column is neither NULL nor empty. *)
Present(text) == text \notin {"null", "empty"}
(* Mutant: the check compiles the script but does not look for the function.*)
CompilesOnly(text, fn) == text \in {"transform", "process"}

ValidScript(text, fn) == text = fn
ValidTransform(text) == Present(text) => ValidScript(text, "transform")

(* Validate of the dispatcher of the row's type.                            *)
HasTarget(r) == r.target = "url"
HasProcess(r) == ValidScript(r.body, "process")
HasConfig(r) == r.config = "complete"
Validate(r) ==
    CASE r.type = "webhook"    -> HasTarget(r)
      [] r.type = "javascript" -> HasProcess(r)
      [] OTHER                 -> HasConfig(r)

(* chk_webhook_target and chk_js_script.                                    *)
Constraints(r) == /\ r.type = "webhook" => r.target # "null"
                  /\ r.type = "javascript" => r.body # "null"

(* Mutant: the column is set to the argument.                               *)
Overwrite(new, old) == new
Coalesce(new, old) == IF new = "null" THEN old ELSE new

-----------------------------------------------------------------------------
(* Sources                                                                  *)
Insert(s, m, text) ==
    /\ mode[s] = "none"
    /\ mode' = [mode EXCEPT ![s] = m]
    /\ script' = [script EXCEPT ![s] = text]
    /\ UNCHANGED <<action, row>>

ApiCreateSource(s) ==
    \E m \in {"record", "active"}, text \in Texts :
        ValidTransform(text) /\ Insert(s, m, text)
WebCreateSource(s) == Insert(s, "record", "null")

UpdateSource(s, m, text) ==
    /\ SourceExists(s)
    /\ mode' = [mode EXCEPT ![s] = m]
    /\ script' = [script EXCEPT ![s] = text]
    /\ UNCHANGED <<action, row>>

(* An empty script_body clears the column, an absent one leaves it.         *)
ApiUpdateSource(s) ==
    \E m \in {mode[s], "record", "active"}, text \in Texts :
        /\ ValidTransform(text)
        /\ UpdateSource(s, m, IF text = "empty" THEN "null"
                              ELSE Coalesce(text, script[s]))
WebUpdateMode(s) ==
    \E m \in {"record", "active"} : UpdateSource(s, m, script[s])
(* Mutant: white space does not clear the column but is stored.             *)
WebStoreScript(s) ==
    \E text \in {"blank", "transform"} : UpdateSource(s, mode[s], text)
(* White space clears the column, as the button does.                       *)
WebUpdateScript(s) ==
    \E text \in {"null", "transform"} : UpdateSource(s, mode[s], text)

(* Mutant: no ON DELETE CASCADE.                                            *)
DeleteOnlySource(s) == /\ SourceExists(s)
                       /\ mode' = [mode EXCEPT ![s] = "deleted"]
                       /\ UNCHANGED <<script, action, row>>

DeleteSource(s) ==
    /\ SourceExists(s)
    /\ mode' = [mode EXCEPT ![s] = "deleted"]
    /\ action' = [a \in Actions |-> IF OwnerOf[a] = s /\ ActionExists(a)
                                    THEN "deleted" ELSE action[a]]
    /\ UNCHANGED <<script, row>>

-----------------------------------------------------------------------------
(* Actions                                                                  *)
InsertAction(a, r) ==
    /\ SourceExists(OwnerOf[a])
    /\ action[a] = "none"
    /\ Constraints(r)
    /\ action' = [action EXCEPT ![a] = "active"]
    /\ row' = [row EXCEPT ![a] = r]
    /\ UNCHANGED <<mode, script>>

(* The request has no config, so the row that is validated has none.        *)
ApiCreateAction(a) ==
    \E r \in Rows : /\ r.config = "null"
                    /\ Validate(r)
                    /\ ValidTransform(r.transform)
                    /\ InsertAction(a, r)

(* What the dashboard makes of a form: fields are trimmed, a blank one is   *)
(* NULL, an invalid action script too, and so is the config of a form that  *)
(* lacks a required field.                                                  *)
Forms ==
    {r \in Rows :
        /\ r.target # "null" => r.type = "webhook" /\ r.target = "url"
        /\ r.body # "null" => /\ r.type = "javascript"
                              /\ ValidScript(r.body, "process")
        /\ r.config # "null" => r.type \notin {"webhook", "javascript"}
        /\ r.config = "portless" => r.type = "smtp"
        /\ r.transform # "empty" /\ ValidTransform(r.transform)}

WebCreateAction(a) == \E r \in Forms : InsertAction(a, r)

UpdateAction(a, r, st) ==
    /\ ActionExists(a)
    /\ row' = [row EXCEPT ![a] =
                  [type |-> @.type,
                   target |-> Coalesce(r.target, @.target),
                   body |-> Coalesce(r.body, @.body),
                   config |-> Coalesce(r.config, @.config),
                   transform |-> Coalesce(r.transform, @.transform)]]
    /\ action' = [action EXCEPT ![a] = st]
    /\ UNCHANGED <<mode, script>>

ApiUpdateAction(a) ==
    \E u \in Targets, text \in Texts, st \in {action[a], "active", "inactive"} :
        /\ ValidTransform(text)
        /\ UpdateAction(a, [NoRow EXCEPT !.target = u, !.transform = text], st)

(* A webhook form without URL and a javascript form without a valid script  *)
(* are refused; a form without config is not.                               *)
WebUpdateAction(a) ==
    \E r \in Forms : /\ r.type = row[a].type
                     /\ Constraints(r)
                     /\ UpdateAction(a, r, action[a])
WebToggleAction(a) ==
    \E st \in {"active", "inactive"} : UpdateAction(a, NoRow, st)

DeleteAction(a) ==
    /\ ActionExists(a)
    /\ action' = [action EXCEPT ![a] = "deleted"]
    /\ UNCHANGED <<mode, script, row>>

-----------------------------------------------------------------------------
Init ==
    /\ mode = [s \in Sources |-> "none"]
    /\ script = [s \in Sources |-> "null"]
    /\ action = [a \in Actions |-> "none"]
    /\ row = [a \in Actions |-> NoRow]

Next ==
    \/ \E s \in Sources :
          \/ ApiCreateSource(s) \/ ApiUpdateSource(s)
          \/ WebCreateSource(s) \/ WebUpdateMode(s) \/ WebUpdateScript(s)
          \/ DeleteSource(s)
    \/ \E a \in Actions :
          \/ ApiCreateAction(a) \/ ApiUpdateAction(a)
          \/ WebCreateAction(a) \/ WebUpdateAction(a) \/ WebToggleAction(a)
          \/ DeleteAction(a)

Spec == Init /\ [][Next]_vars

-----------------------------------------------------------------------------
(* Properties                                                               *)

(* Every variable has its type.                                             *)
TypeOK ==
    /\ mode \in [Sources -> {"none", "record", "active", "deleted"}]
    /\ script \in [Sources -> Texts]
    /\ action \in [Actions -> {"none", "active", "inactive", "deleted"}]
    /\ row \in [Actions -> Rows]

(* Through whichever door and in whatever order rows are written, a script  *)
(* the worker will run defines the function it will call: processDelivery   *)
(* turns a source script that does not into a failed delivery, and          *)
(* applyActionTransform silently sends the untransformed payload.           *)
ScriptsDefineTheirFunction ==
    /\ \A s \in Sources : Present(script[s]) => script[s] = "transform"
    /\ \A a \in Actions : ActionExists(a) =>
          /\ Present(row[a].transform) => row[a].transform = "transform"
          /\ row[a].type = "javascript" => row[a].body = "process"

(* An update changes what its door shows and no more: a PATCH the target    *)
(* and the transform, whatever the type, a form the column of the action's  *)
(* type and the transform, never the activity.  What the dispatcher would   *)
(* run it still runs afterwards, although no update calls Validate, except  *)
(* that a PATCH may store an empty target and a form a port that is none.   *)
OwnColumn(type) == CASE type = "webhook"    -> "target"
                     [] type = "javascript" -> "body"
                     [] OTHER               -> "config"
Changed(a) == {c \in DOMAIN row[a] : row'[a][c] # row[a][c]}
UpdatesStayInForm ==
    [][\A a \in Actions : ActionExists(a) =>
          /\ \/ Changed(a) \subseteq {"target", "transform"}
             \/ /\ Changed(a) \subseteq {OwnColumn(row[a].type), "transform"}
                /\ action'[a] = action[a]
          /\ Validate(row[a]) => \/ Validate(row'[a])
                                 \/ row'[a].target = "empty"
                                 \/ row'[a].config = "portless"]_vars

(* What the delivery path takes for an edit is all an edit can do: every    *)
(* request, seen as what it does to the rows, the modes, the activity and   *)
(* the presence of scripts, is a step of Catalog.                           *)
Abstract == INSTANCE Catalog WITH
    scripted <- [s \in Sources |-> Present(script[s])],
    transforms <- {a \in Actions : Present(row[a].transform)}
ImplementsCatalog == Abstract!CatalogSpec
=============================================================================
