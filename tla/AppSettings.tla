----------------------------- MODULE AppSettings -----------------------------
(***************************************************************************)
(* The settings of apps and their environment variables, edited by         *)
(* concurrent requests while the worker moves the apps' current release.   *)
(*                                                                         *)
(* A PATCH is three steps: read the row, merge the columns the request     *)
(* names into that copy, write all columns of the copy back.  Nothing      *)
(* ties the write to the read but the id.                                  *)
(*                                                                         *)
(* The tables apps and app_env_vars are handled alike, and no statement    *)
(* on one of them changes the other: a behaviour is about one of them.     *)
(*                                                                         *)
(*            apps                             app_env_vars                *)
(*   parent   user_id and repo_full_name       app_id                      *)
(*   name     branch                           key                         *)
(*   value    the other texts                  value                       *)
(*   flag     auto_deploy_enabled              is_secret                   *)
(*   release  current_release_version_id       (always 0)                  *)
(*                                                                         *)
(* Requests for what belongs to somebody else, or whose body is refused,   *)
(* are answered before anything is written, and left out.                  *)
(***************************************************************************)
EXTENDS Integers

CONSTANTS
  Parents, Names, Values,
  Requests,     (* PATCH requests that may be under way together          *)
  NoRow, NoRequest, Mask,
  MaxRows,      (* bound: rows ever created                               *)
  MaxReleases   (* bound: releases of an app                              *)

ASSUME MaskAssumption   == Mask \notin Values
ASSUME BoundsAssumption == MaxRows \in Nat /\ MaxReleases \in Nat

VARIABLES
  table,     (* which of the two tables this behaviour is about           *)
  rows,      (* its rows, by id                                           *)
  created,   (* rows created so far: the AUTOINCREMENT counter            *)
  patches,   (* the handlers' locals: what they read and are to write     *)
  asked,     (* ghost: each column as last asked for by name              *)
  raced      (* ghost: rows that a PATCH wrote from an outdated copy      *)

vars == <<table, rows, created, patches, asked, raced>>

Ids == 1..MaxRows

(* born is no column: it tells rows apart that have had the same id.       *)
Rows == [parent : Parents, name : Names, value : Values, flag : BOOLEAN,
         release : 0..MaxReleases, born : Ids]

Columns == {"name", "value", "flag"}

Patches == [id : Ids, current : Rows, next : Rows, named : SUBSET Columns]

ASSUME NoneAssumption == NoRow \notin Rows /\ NoRequest \notin Patches

Stored == {i \in Ids : rows[i] # NoRow}

(* idx_apps_user_repo_branch and UNIQUE(app_id, key)                       *)
NamesAreUnique ==
  \A i, j \in Stored :
    rows[i].parent = rows[j].parent /\ rows[i].name = rows[j].name => i = j

TypeOK ==
  /\ table \in {"apps", "app_env_vars"}
  /\ rows \in [Ids -> Rows \cup {NoRow}]
  /\ NamesAreUnique
  /\ created \in 0..MaxRows
  /\ patches \in [Requests -> Patches \cup {NoRequest}]
  /\ asked \in [Ids -> Rows \cup {NoRow}]
  /\ raced \subseteq Ids

Init ==
  /\ table \in {"apps", "app_env_vars"}
  /\ rows = [i \in Ids |-> NoRow]
  /\ created = 0
  /\ patches = [r \in Requests |-> NoRequest]
  /\ asked = [i \in Ids |-> NoRow]
  /\ raced = {}

-----------------------------------------------------------------------------
(* POST and DELETE                                                         *)

(* The unique index does not exist.                                        *)
BugNameIsFree(parent, name, id) == TRUE

NameIsFree(parent, name, id) ==
  \A i \in Stored \ {id} : rows[i].parent # parent \/ rows[i].name # name

(* An INTEGER PRIMARY KEY without AUTOINCREMENT: the id after the highest. *)
BugNextId ==
  IF Stored = {} THEN 1
  ELSE 1 + CHOOSE i \in Stored : \A j \in Stored : j <= i

(* AUTOINCREMENT: ids of deleted rows are not used again.                  *)
NextId == created + 1

(* A name that is taken is answered with 409, and nothing changes.         *)
Insert(parent, name, value, flag) ==
  /\ created < MaxRows
  /\ NameIsFree(parent, name, NextId)
  /\ created' = created + 1
  /\ LET row == [parent |-> parent, name |-> name, value |-> value, flag |-> flag,
                 release |-> 0, born |-> created']
     IN /\ rows' = [rows EXCEPT ![NextId] = row]
        /\ asked' = [asked EXCEPT ![NextId] = row]
  /\ UNCHANGED <<table, patches, raced>>

CreateApp(parent, name, value, flag) ==
  table = "apps" /\ Insert(parent, name, value, flag)

(* INSERT ... SELECT FROM apps: the app exists, and apps are not deleted.  *)
CreateAppEnvVar(parent, name, value, flag) ==
  table = "app_env_vars" /\ Insert(parent, name, value, flag)

DeleteAppEnvVar(i) ==
  /\ table = "app_env_vars"
  /\ i \in Stored
  /\ rows' = [rows EXCEPT ![i] = NoRow]
  /\ asked' = [asked EXCEPT ![i] = NoRow]
  /\ raced' = raced \ {i}
  /\ UNCHANGED <<table, created, patches>>

-----------------------------------------------------------------------------
(* PATCH                                                                   *)

(* A flag that is not named is false, as it is for a POST.                 *)
BugMerge(current, body, named) ==
  [current EXCEPT !.name  = IF "name" \in named THEN body.name ELSE @,
                  !.value = IF "value" \in named THEN body.value ELSE @,
                  !.flag  = IF "flag" \in named THEN body.flag ELSE FALSE]

(* mergeAppUpdate, and the same in PatchAppEnvVarHandler                   *)
Merge(current, body, named) ==
  [current EXCEPT !.name  = IF "name" \in named THEN body.name ELSE @,
                  !.value = IF "value" \in named THEN body.value ELSE @,
                  !.flag  = IF "flag" \in named THEN body.flag ELSE @]

Read(r, i, body, named) ==
  /\ patches[r] = NoRequest
  /\ i \in Stored
  /\ patches' = [patches EXCEPT ![r] =
       [id |-> i, current |-> rows[i], next |-> Merge(rows[i], body, named), named |-> named]]
  /\ UNCHANGED <<table, rows, created, asked, raced>>

PatchAppReads(r, i, body, named) == table = "apps" /\ Read(r, i, body, named)

PatchAppEnvVarReads(r, i, body, named) == table = "app_env_vars" /\ Read(r, i, body, named)

(* The whole copy is written, the release it was read with included.       *)
BugSet(row, next) == [next EXCEPT !.born = row.born]

(* SET of the editable columns, where id is still the one that was read.   *)
Set(row, next) ==
  [row EXCEPT !.name = next.name, !.value = next.value, !.flag = next.flag]

(* For the ghost: the named columns alone.                                 *)
Ask(row, next, named) == [c \in DOMAIN row |-> IF c \in named THEN next[c] ELSE row[c]]

Outdated(p) == Set(rows[p.id], p.current) # rows[p.id]

Write(r) ==
  LET p == patches[r]
  IN /\ p # NoRequest
     /\ p.id \in Stored
     /\ NameIsFree(rows[p.id].parent, p.next.name, p.id)
     /\ rows' = [rows EXCEPT ![p.id] = Set(@, p.next)]
     /\ asked' = [asked EXCEPT ![p.id] = Ask(@, p.next, p.named)]
     /\ raced' = IF Outdated(p) THEN raced \cup {p.id} ELSE raced
     /\ patches' = [patches EXCEPT ![r] = NoRequest]
     /\ UNCHANGED <<table, created>>

UpdateAppForUser(r) == table = "apps" /\ Write(r)

UpdateAppEnvVarForUser(r) == table = "app_env_vars" /\ Write(r)

(* The row is gone, the name is taken, a statement fails or the client     *)
(* goes away: nothing is written.                                          *)
PatchFails(r) ==
  /\ patches[r] # NoRequest
  /\ patches' = [patches EXCEPT ![r] = NoRequest]
  /\ UNCHANGED <<table, rows, created, asked, raced>>

-----------------------------------------------------------------------------
(* The worker: a release is published, or a rollback switches to one.      *)

MoveRelease(i, release) ==
  /\ table = "apps"
  /\ i \in Stored
  /\ rows' = [rows EXCEPT ![i].release = release]
  /\ asked' = [asked EXCEPT ![i].release = release]
  /\ UNCHANGED <<table, created, patches, raced>>

-----------------------------------------------------------------------------

Bodies == [name : Names, value : Values, flag : BOOLEAN]

Next ==
  \/ \E parent \in Parents, name \in Names, value \in Values, flag \in BOOLEAN :
       CreateApp(parent, name, value, flag) \/ CreateAppEnvVar(parent, name, value, flag)
  \/ \E i \in Ids : DeleteAppEnvVar(i)
  \/ \E r \in Requests, i \in Ids, body \in Bodies, named \in SUBSET Columns :
       PatchAppReads(r, i, body, named) \/ PatchAppEnvVarReads(r, i, body, named)
  \/ \E r \in Requests : UpdateAppForUser(r) \/ UpdateAppEnvVarForUser(r) \/ PatchFails(r)
  \/ \E i \in Ids, release \in 1..MaxReleases : MoveRelease(i, release)

Spec == Init /\ [][Next]_vars

-----------------------------------------------------------------------------
(* Properties                                                              *)

(* A PATCH under way meets the row it has read or none: a variable that is *)
(* deleted and created again under its key is another one, and does not    *)
(* get what was meant for its predecessor.                                 *)
PatchKeepsItsRow ==
  \A r \in Requests :
    patches[r] # NoRequest /\ patches[r].id \in Stored =>
      /\ rows[patches[r].id].born = patches[r].current.born
      /\ rows[patches[r].id].parent = patches[r].current.parent

(* Every column holds what was last asked for by name, unless a PATCH has  *)
(* written the row from a copy that was outdated by then: overlapping      *)
(* edits are the only way to lose one.                                     *)
UnracedEditsSurvive ==
  \A i \in Stored \ raced : Set(rows[i], asked[i]) = rows[i]

(* The current release is the one the worker moved it to, whoever edits    *)
(* the app from however old a copy.                                        *)
ReleaseSurvivesEdits ==
  \A i \in Stored : rows[i].release = asked[i].release

(* The value a response shows.                                             *)
Shown(row) == IF row.flag THEN Mask ELSE row.value

(* A variable that was last asked to be secret is shown masked.            *)
SecretsStayMasked ==
  table = "app_env_vars" =>
    \A i \in Stored : asked[i].flag => Shown(rows[i]) = Mask
=============================================================================
