-------------------------- MODULE ManagementProofs --------------------------
(***************************************************************************)
(* Proofs about Management.  The handlers come down to four writes of a    *)
(* row (Insert, UpdateSource, InsertAction, UpdateAction) with arguments   *)
(* that passed the checks; the lemmas SourceWrite, ActionCreation and      *)
(* ActionUpdate say which, and every theorem argues about the four writes  *)
(* and the two deletions.                                                  *)
(***************************************************************************)
EXTENDS Management, TLAPS

(* What a handler may write as a transform, and what a javascript action    *)
(* may hold as its body.                                                    *)
Sound(text) == Present(text) => text = "transform"
SoundBody(r) == r.type = "javascript" => r.body = "process"

(* What an update may be given: by a PATCH or a toggle a target and a       *)
(* transform, by a form what fits the action's type.                        *)
Argument(a, r, st) ==
    /\ Sound(r.transform)
    /\ r.body \in {"null", "process"}
    /\ \/ r.body = "null" /\ r.config = "null"
       \/ r \in Forms /\ r.type = row[a].type /\ st = action[a]

(* An action that has not been created yet has no columns.                  *)
Blank == \A a \in Actions : action[a] = "none" => ~Present(row[a].transform)

IInv == TypeOK /\ ScriptsDefineTheirFunction /\ Blank

(* A request that writes a source writes a mode and a sound script.         *)
LEMMA SourceWrite ==
    ASSUME IInv, NEW s \in Sources,
           \/ ApiCreateSource(s) \/ ApiUpdateSource(s)
           \/ WebCreateSource(s) \/ WebUpdateMode(s) \/ WebUpdateScript(s)
    PROVE  \E m \in {"record", "active"}, text \in Texts :
              Sound(text) /\ (Insert(s, m, text) \/ UpdateSource(s, m, text))
<1> USE DEF IInv, TypeOK, ScriptsDefineTheirFunction, Sound, Present, Texts
<1>1. CASE ApiCreateSource(s)
  BY <1>1 DEF ApiCreateSource, ValidTransform, ValidScript
<1>2. CASE ApiUpdateSource(s)
  BY <1>2 DEF ApiUpdateSource, ValidTransform, ValidScript, Coalesce,
     UpdateSource, SourceExists
<1>3. CASE WebCreateSource(s)
  BY <1>3 DEF WebCreateSource
<1>4. CASE WebUpdateMode(s)
  BY <1>4 DEF WebUpdateMode
<1>5. CASE WebUpdateScript(s)
  BY <1>5 DEF WebUpdateScript, UpdateSource, SourceExists
<1> QED BY <1>1, <1>2, <1>3, <1>4, <1>5

(* A request that creates an action inserts a row with sound scripts.       *)
LEMMA ActionCreation ==
    ASSUME NEW a \in Actions, ApiCreateAction(a) \/ WebCreateAction(a)
    PROVE  \E r \in Rows : /\ Sound(r.transform) /\ SoundBody(r)
                           /\ InsertAction(a, r)
<1> USE DEF Sound, SoundBody, ValidTransform, ValidScript
<1>1. CASE ApiCreateAction(a)
  BY <1>1 DEF ApiCreateAction, Validate, HasProcess
<1>2. CASE WebCreateAction(a)
  BY <1>2 DEF WebCreateAction, Forms, InsertAction, Constraints
<1> QED BY <1>1, <1>2

(* A request that updates an action changes its row by sound arguments.     *)
LEMMA ActionUpdate ==
    ASSUME IInv, NEW a \in Actions,
           ApiUpdateAction(a) \/ WebUpdateAction(a) \/ WebToggleAction(a)
    PROVE  \E r \in Rows, st \in {"active", "inactive"} :
              Argument(a, r, st) /\ UpdateAction(a, r, st)
<1> USE DEF Argument, Sound, ValidTransform, ValidScript, Present
<1>1. CASE ApiUpdateAction(a)
  <2>1. PICK u \in Targets, text \in Texts, st \in {action[a], "active", "inactive"} :
           /\ ValidTransform(text)
           /\ UpdateAction(a, [NoRow EXCEPT !.target = u, !.transform = text], st)
    BY <1>1 DEF ApiUpdateAction
  <2> DEFINE r == [NoRow EXCEPT !.target = u, !.transform = text]
  <2>2. r \in Rows /\ r.body = "null" /\ r.config = "null" /\ r.transform = text
    BY DEF NoRow, Rows, Types, Texts, Configs, Targets
  <2>3. st \in {"active", "inactive"}
    BY <2>1 DEF UpdateAction, ActionExists
  <2> HIDE DEF r
  <2> QED BY <2>1, <2>2, <2>3 DEF r
<1>2. CASE WebUpdateAction(a)
  BY <1>2 DEF WebUpdateAction, UpdateAction, ActionExists, Forms
<1>3. CASE WebToggleAction(a)
  <2>1. /\ NoRow \in Rows
        /\ NoRow.body = "null" /\ NoRow.config = "null" /\ NoRow.transform = "null"
    BY DEF NoRow, Rows, Types, Texts, Configs, Targets
  <2> QED BY <1>3, <2>1 DEF WebToggleAction
<1> QED BY <1>1, <1>2, <1>3

(* COALESCE keeps a row well-typed and its scripts sound.                   *)
LEMMA CoalesceRow ==
    ASSUME IInv, NEW a \in Actions, NEW r \in Rows, NEW st \in {"active", "inactive"},
           Argument(a, r, st), UpdateAction(a, r, st)
    PROVE  /\ row' = [row EXCEPT ![a] = row'[a]]
           /\ row'[a] \in Rows
           /\ Sound(row'[a].transform) /\ SoundBody(row'[a])
<1> DEFINE old == row[a]
           new == [type |-> old.type,
                   target |-> Coalesce(r.target, old.target),
                   body |-> Coalesce(r.body, old.body),
                   config |-> Coalesce(r.config, old.config),
                   transform |-> Coalesce(r.transform, old.transform)]
<1>1. old \in Rows /\ Sound(old.transform) /\ SoundBody(old)
  BY DEF IInv, TypeOK, ScriptsDefineTheirFunction, Sound, SoundBody, UpdateAction
<1>2. row' = [row EXCEPT ![a] = new] /\ row'[a] = new
  BY DEF UpdateAction, IInv, TypeOK
<1> HIDE DEF old
<1>3. new \in Rows
  BY <1>1 DEF Rows, Coalesce
<1>4. Sound(new.transform) /\ SoundBody(new)
  BY <1>1 DEF Sound, SoundBody, Coalesce, Argument
<1> HIDE DEF new
<1> QED BY <1>2, <1>3, <1>4 DEF old

(* What an update changes of a row, and that a valid row stays valid.       *)
Stays(a) ==
    /\ \/ Changed(a) \subseteq {"target", "transform"}
       \/ /\ Changed(a) \subseteq {OwnColumn(row[a].type), "transform"}
          /\ action'[a] = action[a]
    /\ Validate(row[a]) => \/ Validate(row'[a])
                           \/ row'[a].target = "empty"
                           \/ row'[a].config = "portless"

LEMMA UpdateFrame ==
    ASSUME IInv, NEW a \in Actions, NEW r \in Rows, NEW st \in {"active", "inactive"},
           Argument(a, r, st), UpdateAction(a, r, st)
    PROVE  Stays(a)
<1> DEFINE old == row[a]
           new == [type |-> old.type,
                   target |-> Coalesce(r.target, old.target),
                   body |-> Coalesce(r.body, old.body),
                   config |-> Coalesce(r.config, old.config),
                   transform |-> Coalesce(r.transform, old.transform)]
<1>1. old \in Rows /\ DOMAIN old = {"type", "target", "body", "config", "transform"}
  BY DEF IInv, TypeOK, Rows
<1>2. row'[a] = new /\ action'[a] = st
  BY DEF UpdateAction, IInv, TypeOK
<1>c. Changed(a) = {c \in DOMAIN old : new[c] # old[c]}
  BY <1>2 DEF Changed
<1> HIDE DEF old
<1>3. CASE r.body = "null" /\ r.config = "null"
  <2>1. new.type = old.type /\ new.body = old.body /\ new.config = old.config
    BY <1>3 DEF Coalesce
  <2>2. {c \in DOMAIN old : new[c] # old[c]} \subseteq {"target", "transform"}
    BY <2>1, <1>1
  <2>3. new.target \in {old.target, "empty", "url"}
    BY DEF Coalesce, Rows, Targets
  <2>4. Validate(old) => Validate(new) \/ new.target = "empty"
    BY <2>1, <2>3 DEF Validate, HasTarget, HasProcess, HasConfig
  <2> QED BY <2>2, <2>4, <1>2, <1>c DEF old, Stays
<1>4. CASE r \in Forms /\ r.type = old.type /\ st = action[a]
  <2>1. /\ old.type # "webhook" => new.target = old.target
        /\ old.type # "javascript" => new.body = old.body
        /\ old.type \in {"webhook", "javascript"} => new.config = old.config
        /\ new.type = old.type
    BY <1>4 DEF Coalesce, Forms
  <2>2. {c \in DOMAIN old : new[c] # old[c]} \subseteq {OwnColumn(old.type), "transform"}
    BY <2>1, <1>1 DEF OwnColumn
  <2>3. /\ new.target \in {old.target, "url"}
        /\ new.body \in {old.body, "process"}
        /\ new.config \in {old.config, "complete", "portless"}
    BY <1>4 DEF Coalesce, Forms, ValidScript, Rows, Configs
  <2>4. Validate(old) => Validate(new) \/ new.config = "portless"
    BY <2>1, <2>3 DEF Validate, HasTarget, HasProcess, HasConfig, ValidScript
  <2> QED BY <2>2, <2>4, <1>2, <1>4, <1>c DEF old, Stays
<1> QED BY <1>3, <1>4 DEF Argument, old
-----------------------------------------------------------------------------
LEMMA InitInv == Init => IInv
  BY DEF Init, IInv, TypeOK, ScriptsDefineTheirFunction, NoRow, Rows, Types, Texts,
     Targets, Configs, Blank, Present, ActionExists

(* Every step is one of the four writes or a deletion.                      *)
LEMMA Steps ==
    ASSUME IInv, Next
    PROVE  \/ \E s \in Sources :
              \/ \E m \in {"record", "active"}, text \in Texts :
                    Sound(text) /\ (Insert(s, m, text) \/ UpdateSource(s, m, text))
              \/ DeleteSource(s)
           \/ \E a \in Actions :
              \/ \E r \in Rows : /\ Sound(r.transform) /\ SoundBody(r)
                                 /\ InsertAction(a, r)
              \/ \E r \in Rows, st \in {"active", "inactive"} :
                    Argument(a, r, st) /\ UpdateAction(a, r, st)
              \/ DeleteAction(a)
<1>1. CASE \E s \in Sources :
              \/ ApiCreateSource(s) \/ ApiUpdateSource(s)
              \/ WebCreateSource(s) \/ WebUpdateMode(s) \/ WebUpdateScript(s)
              \/ DeleteSource(s)
  BY <1>1, SourceWrite, Zenon
<1>2. CASE \E a \in Actions :
              \/ ApiCreateAction(a) \/ ApiUpdateAction(a)
              \/ WebCreateAction(a) \/ WebUpdateAction(a) \/ WebToggleAction(a)
              \/ DeleteAction(a)
  BY <1>2, ActionCreation, ActionUpdate, Zenon
<1> QED BY <1>1, <1>2 DEF Next

LEMMA NextInv == IInv /\ [Next]_vars => IInv'
<1> SUFFICES ASSUME IInv, [Next]_vars PROVE IInv'
  OBVIOUS
<1> USE DEF IInv, Blank
<1>1. CASE UNCHANGED vars
  BY <1>1 DEF vars, TypeOK, ScriptsDefineTheirFunction, ActionExists
<1>2. ASSUME NEW s \in Sources, NEW m \in {"record", "active"}, NEW text \in Texts,
             Sound(text), Insert(s, m, text) \/ UpdateSource(s, m, text)
      PROVE  IInv'
  BY <1>2 DEF Insert, UpdateSource, TypeOK, ScriptsDefineTheirFunction, Sound,
     ActionExists
<1>3. ASSUME NEW s \in Sources, DeleteSource(s)
      PROVE  IInv'
  BY <1>3 DEF DeleteSource, TypeOK, ScriptsDefineTheirFunction, ActionExists
<1>4. ASSUME NEW a \in Actions, NEW r \in Rows, Sound(r.transform), SoundBody(r),
             InsertAction(a, r)
      PROVE  IInv'
  BY <1>4 DEF InsertAction, TypeOK, ScriptsDefineTheirFunction, Sound, SoundBody,
     ActionExists
<1>5. ASSUME NEW a \in Actions, NEW r \in Rows, NEW st \in {"active", "inactive"},
             Argument(a, r, st), UpdateAction(a, r, st)
      PROVE  IInv'
  <2>1. /\ row' = [row EXCEPT ![a] = row'[a]] /\ row'[a] \in Rows
        /\ Sound(row'[a].transform) /\ SoundBody(row'[a])
    BY <1>5, CoalesceRow
  <2>2. action' = [action EXCEPT ![a] = st] /\ UNCHANGED <<mode, script>> /\ ActionExists(a)
    BY <1>5 DEF UpdateAction
  <2> QED BY <2>1, <2>2 DEF TypeOK, ScriptsDefineTheirFunction, Sound, SoundBody,
     ActionExists
<1>6. ASSUME NEW a \in Actions, DeleteAction(a)
      PROVE  IInv'
  BY <1>6 DEF DeleteAction, TypeOK, ScriptsDefineTheirFunction, ActionExists
<1> QED BY <1>1, <1>2, <1>3, <1>4, <1>5, <1>6, Steps, Zenon

(* IInv is an invariant.                                                    *)
THEOREM InductiveInvariant == Spec => []IInv
  BY InitInv, NextInv, PTL DEF Spec

(* Whatever handlers run in whatever order, the rows keep their types.      *)
THEOREM RowsAreTyped == Spec => []TypeOK
  BY InductiveInvariant, PTL DEF IInv

(* No handler stores a script that its runner would not find the function   *)
(* of.                                                                      *)
THEOREM StoredScriptsRun == Spec => []ScriptsDefineTheirFunction
  BY InductiveInvariant, PTL DEF IInv

(* An update changes only what its door shows, and leaves a valid action    *)
(* valid but for an empty target or a port that is none.                    *)
THEOREM UpdatesKeepActions == Spec => UpdatesStayInForm
<1> DEFINE Keeps == \A a \in Actions : ActionExists(a) => Stays(a)
<1>1. ASSUME IInv, [Next]_vars PROVE [Keeps]_vars
  <2>0. ASSUME NEW a \in Actions, row'[a] = row[a] PROVE Stays(a)
    BY <2>0 DEF Changed, Stays
  <2>1. CASE UNCHANGED row
    BY <2>1, <2>0
  <2>2. ASSUME NEW b \in Actions, NEW r \in Rows, InsertAction(b, r)
        PROVE  Keeps
    <3>1. ~ActionExists(b) /\ \A a \in Actions : a # b => row'[a] = row[a]
      BY <2>2, <1>1 DEF InsertAction, ActionExists, IInv, TypeOK
    <3> QED BY <3>1, <2>0
  <2>3. ASSUME NEW b \in Actions, NEW r \in Rows, NEW st \in {"active", "inactive"},
               Argument(b, r, st), UpdateAction(b, r, st)
        PROVE  Keeps
    <3>1. \A a \in Actions : a # b => row'[a] = row[a]
      BY <2>3, <1>1 DEF UpdateAction, IInv, TypeOK
    <3>2. Stays(b)
      BY <2>3, <1>1, UpdateFrame
    <3> QED BY <3>1, <3>2, <2>0
  <2>4. CASE UNCHANGED vars
    BY <2>4
  <2>5. CASE Next
    <3>1. ASSUME NEW s \in Sources,
                 \/ DeleteSource(s)
                 \/ \E m \in {"record", "active"}, text \in Texts :
                       Insert(s, m, text) \/ UpdateSource(s, m, text)
          PROVE  UNCHANGED row
      BY <3>1 DEF DeleteSource, Insert, UpdateSource
    <3>2. ASSUME NEW a \in Actions, DeleteAction(a)
          PROVE  UNCHANGED row
      BY <3>2 DEF DeleteAction
    <3> HIDE DEF Keeps
    <3> QED BY <1>1, <2>5, <2>1, <2>2, <2>3, <3>1, <3>2, Steps, Zenon
  <2> QED BY <1>1, <2>4, <2>5
<1> QED BY <1>1, InductiveInvariant, PTL DEF Spec, UpdatesStayInForm, Stays
-----------------------------------------------------------------------------
(* The refinement of Catalog                                                *)
Scripted == [s \in Sources |-> Present(script[s])]
Transforms == {a \in Actions : Present(row[a].transform)}

(* A request is a step of Catalog, which is all the delivery path assumes   *)
(* of edits.                                                                *)
THEOREM KeepsCatalog == Spec => ImplementsCatalog
<1>1. Init => Abstract!CatalogInit
  BY DEF Init, Abstract!CatalogInit, Abstract!Modes, Abstract!LiveModes,
     Abstract!ActionStates, Abstract!OwnersExist, Abstract!ActionExists, Present
<1>2. ASSUME IInv, [Next]_vars PROVE [Abstract!CatalogNext]_(Abstract!catalog)
  <2>t. /\ mode \in [Sources -> {"none", "record", "active", "deleted"}]
        /\ script \in [Sources -> Texts]
        /\ action \in [Actions -> {"none", "active", "inactive", "deleted"}]
        /\ row \in [Actions -> Rows]
    BY <1>2 DEF IInv, TypeOK
  <2>1. ASSUME NEW s \in Sources, NEW m \in {"record", "active"}, NEW text \in Texts,
               Insert(s, m, text) \/ UpdateSource(s, m, text)
        PROVE  Abstract!AddSource(s) \/ Abstract!SetSource(s)
    <3>1. /\ mode' = [mode EXCEPT ![s] = m]
          /\ script' = [script EXCEPT ![s] = text]
          /\ UNCHANGED <<action, row>>
          /\ mode[s] = "none" \/ SourceExists(s)
      BY <2>1 DEF Insert, UpdateSource
    <3>2. /\ Scripted' = [Scripted EXCEPT ![s] = Present(text)]
          /\ Present(text) \in BOOLEAN
      BY <3>1, <2>t DEF Scripted, Present
    <3>3. Abstract!WriteSource(s)
      BY <3>1, <3>2 DEF Abstract!WriteSource, Abstract!LiveModes, Scripted
    <3> QED BY <3>1, <3>3 DEF Abstract!AddSource, Abstract!SetSource,
       Abstract!SourceExists, Abstract!LiveModes, SourceExists
  <2>2. ASSUME NEW s \in Sources, DeleteSource(s)
        PROVE  Abstract!RemoveSource(s)
    BY <2>2 DEF DeleteSource, Abstract!RemoveSource, Abstract!SourceExists,
       Abstract!ActionExists, Abstract!LiveModes, SourceExists, ActionExists
  <2>3. ASSUME NEW a \in Actions, NEW r \in Rows, InsertAction(a, r)
        PROVE  Abstract!AddAction(a)
    <3>1. Transforms' \in {Transforms \cup {}, Transforms \cup {a}}
      BY <2>3, <2>t, <1>2 DEF InsertAction, Transforms, IInv, Blank
    <3>2. \E t \in {{}, {a}} : Transforms' = Transforms \cup t
      BY <3>1
    <3> QED BY <2>3, <3>2 DEF InsertAction, Abstract!AddAction, Transforms,
       Abstract!SourceExists, Abstract!LiveModes, SourceExists
  <2>4. ASSUME NEW a \in Actions, NEW r \in Rows, NEW st \in {"active", "inactive"},
               Argument(a, r, st), UpdateAction(a, r, st)
        PROVE  Abstract!SetAction(a)
    <3>1. row' = [row EXCEPT ![a] = row'[a]]
      BY <2>4, <1>2, CoalesceRow
    <3>2. \E t \in {{}, {a}} : Transforms' = (Transforms \ {a}) \cup t
      <4>1. CASE Present(row'[a].transform)
        BY <3>1, <4>1, <2>t DEF Transforms
      <4>2. CASE ~Present(row'[a].transform)
        BY <3>1, <4>2, <2>t DEF Transforms
      <4> QED BY <4>1, <4>2
    <3> QED BY <2>4, <3>2 DEF UpdateAction, Abstract!SetAction, Transforms,
       Abstract!ActionExists, ActionExists
  <2>5. ASSUME NEW a \in Actions, DeleteAction(a)
        PROVE  Abstract!RemoveAction(a)
    BY <2>5 DEF DeleteAction, Abstract!RemoveAction, Abstract!ActionExists, ActionExists
  <2>6. CASE UNCHANGED vars
    BY <2>6 DEF vars, Abstract!catalog
  <2>7. CASE Next
    BY <1>2, <2>7, <2>1, <2>2, <2>3, <2>4, <2>5, Steps, Zenon DEF Abstract!CatalogNext
  <2> QED BY <1>2, <2>6, <2>7
<1> QED BY <1>1, <1>2, InductiveInvariant, PTL DEF Spec, ImplementsCatalog,
   Abstract!CatalogSpec
=============================================================================
