-------------------------- MODULE AppSettingsProofs --------------------------
(***************************************************************************)
(* Theorems about AppSettings, for any number of rows, names, values and   *)
(* requests under way.                                                     *)
(***************************************************************************)
EXTENDS AppSettings, TLAPS

(* Ids are given out in order, and the ghost follows the table.            *)
IdsAreUsedOnce ==
  /\ \A i \in Ids : rows[i] = NoRow <=> asked[i] = NoRow
  /\ \A i \in Stored : i <= created /\ rows[i].born = i

(* What a handler holds is the row it read with the named columns changed. *)
PatchIsMerged(p) ==
  /\ p.id <= created
  /\ p.current.born = p.id
  /\ p.id \in Stored => rows[p.id].parent = p.current.parent
  /\ "name" \notin p.named => p.next.name = p.current.name
  /\ "value" \notin p.named => p.next.value = p.current.value
  /\ "flag" \notin p.named => p.next.flag = p.current.flag

PatchesAreMerged ==
  \A r \in Requests : patches[r] # NoRequest => PatchIsMerged(patches[r])

IInv ==
  /\ TypeOK
  /\ IdsAreUsedOnce
  /\ PatchesAreMerged
  /\ UnracedEditsSurvive
  /\ ReleaseSurvivesEdits

-----------------------------------------------------------------------------
(* Setting, merging and asking give rows, and say of each column whose     *)
(* value it gets.                                                          *)

LEMMA SetFacts ==
  ASSUME NEW row \in Rows, NEW next \in Rows
  PROVE  /\ Set(row, next) \in Rows
         /\ Set(row, next).name = next.name
         /\ Set(row, next).value = next.value
         /\ Set(row, next).flag = next.flag
         /\ Set(row, next).parent = row.parent
         /\ Set(row, next).release = row.release
         /\ Set(row, next).born = row.born
         /\ Set(row, next) = row <=>
              row.name = next.name /\ row.value = next.value /\ row.flag = next.flag
BY DEF Set, Rows

LEMMA MergeFacts ==
  ASSUME NEW current \in Rows, NEW body \in Bodies, NEW named \in SUBSET Columns
  PROVE  /\ Merge(current, body, named) \in Rows
         /\ "name" \notin named => Merge(current, body, named).name = current.name
         /\ "value" \notin named => Merge(current, body, named).value = current.value
         /\ "flag" \notin named => Merge(current, body, named).flag = current.flag
BY DEF Merge, Rows, Bodies

LEMMA AskFacts ==
  ASSUME NEW row \in Rows, NEW next \in Rows, NEW named \in SUBSET Columns
  PROVE  /\ Ask(row, next, named) \in Rows
         /\ Ask(row, next, named).name = IF "name" \in named THEN next.name ELSE row.name
         /\ Ask(row, next, named).value = IF "value" \in named THEN next.value ELSE row.value
         /\ Ask(row, next, named).flag = IF "flag" \in named THEN next.flag ELSE row.flag
         /\ Ask(row, next, named).release = row.release
<1>1. Ask(row, next, named) =
        [parent |-> row.parent,
         name |-> IF "name" \in named THEN next.name ELSE row.name,
         value |-> IF "value" \in named THEN next.value ELSE row.value,
         flag |-> IF "flag" \in named THEN next.flag ELSE row.flag,
         release |-> row.release,
         born |-> row.born]
  BY DEF Ask, Rows, Columns
<1>2. named \subseteq {"name", "value", "flag"}
  BY DEF Columns
<1>3. /\ (IF "name" \in named THEN next.name ELSE row.name) \in Names
      /\ (IF "value" \in named THEN next.value ELSE row.value) \in Values
      /\ (IF "flag" \in named THEN next.flag ELSE row.flag) \in BOOLEAN
      /\ row.parent \in Parents /\ row.release \in 0..MaxReleases /\ row.born \in Ids
  BY DEF Rows
<1>4. Ask(row, next, named) \in Rows
  BY <1>1, <1>3 DEF Rows
<1> QED BY <1>1, <1>4

-----------------------------------------------------------------------------

LEMMA InitIInv == Init => IInv
BY BoundsAssumption, NoneAssumption
   DEF Init, IInv, TypeOK, NamesAreUnique, Stored, IdsAreUsedOnce, PatchesAreMerged,
       UnracedEditsSurvive, ReleaseSurvivesEdits

(* The new row has an id nobody has read.                                  *)
LEMMA InsertIInv ==
  ASSUME IInv, NEW parent \in Parents, NEW name \in Names, NEW value \in Values,
         NEW flag \in BOOLEAN, Insert(parent, name, value, flag)
  PROVE  IInv'
<1> DEFINE new == created + 1
           row == [parent |-> parent, name |-> name, value |-> value, flag |-> flag,
                   release |-> 0, born |-> new]
<1> USE BoundsAssumption, NoneAssumption
<1>1. created \in Nat /\ created' = new /\ new \in Ids /\ created < MaxRows
  BY DEF Insert, IInv, TypeOK, Ids
<1>2. row \in Rows
  BY <1>1 DEF Rows
<1>3. /\ rows' = [rows EXCEPT ![new] = row]
      /\ asked' = [asked EXCEPT ![new] = row]
      /\ UNCHANGED <<table, patches, raced>>
      /\ NameIsFree(parent, name, new)
  BY <1>1 DEF Insert, NextId
<1>4. new \notin Stored
  BY <1>1 DEF IInv, IdsAreUsedOnce
<1>5. row # NoRow /\ row.born = new /\ row.release = 0 /\ row.parent = parent /\ row.name = name
  BY <1>2
<1> HIDE DEF row, new
<1>6. Stored' = Stored \cup {new} /\ rows'[new] = row /\ asked'[new] = row
  BY <1>1, <1>3, <1>5 DEF Stored, IInv, TypeOK
<1>7. \A i \in Ids \ {new} : rows'[i] = rows[i] /\ asked'[i] = asked[i]
  BY <1>3 DEF IInv, TypeOK
<1>8. NamesAreUnique'
  BY <1>3, <1>4, <1>5, <1>6, <1>7 DEF NamesAreUnique, NameIsFree, IInv, TypeOK, Stored
<1>9. TypeOK'
  <2>1. created' \in 0..MaxRows
    BY <1>1 DEF new
  <2>2. rows' \in [Ids -> Rows \cup {NoRow}] /\ asked' \in [Ids -> Rows \cup {NoRow}]
    BY <1>2, <1>3 DEF IInv, TypeOK
  <2> QED BY <1>3, <1>8, <2>1, <2>2 DEF IInv, TypeOK
<1>10. IdsAreUsedOnce'
  <2>1. \A j \in Ids \ {new} : rows'[j] = NoRow <=> asked'[j] = NoRow
    BY <1>7 DEF IInv, IdsAreUsedOnce
  <2>2. rows'[new] # NoRow /\ asked'[new] # NoRow
    BY <1>5, <1>6
  <2>3. \A j \in Stored : j <= created' /\ rows'[j].born = j
    BY <1>1, <1>4, <1>7 DEF IInv, IdsAreUsedOnce, Stored, Ids, new
  <2>4. new <= created' /\ rows'[new].born = new
    BY <1>1, <1>5, <1>6 DEF Ids
  <2> QED BY <1>6, <2>1, <2>2, <2>3, <2>4 DEF IdsAreUsedOnce
<1>11. PatchesAreMerged'
  <2> SUFFICES ASSUME NEW r \in Requests, patches[r] # NoRequest
               PROVE  PatchIsMerged(patches[r])'
    BY <1>3 DEF PatchesAreMerged
  <2>1. PatchIsMerged(patches[r]) /\ patches[r].id \in Ids
    BY DEF IInv, PatchesAreMerged, TypeOK, Patches
  <2>2. patches[r].id # new
    BY <1>1, <2>1 DEF PatchIsMerged, new, Ids
  <2> QED BY <1>1, <1>3, <1>6, <1>7, <2>1, <2>2 DEF PatchIsMerged, new, Ids
<1>12. UnracedEditsSurvive' /\ ReleaseSurvivesEdits'
  <2>1. Set(row, row) = row
    BY <1>2, SetFacts
  <2> QED BY <1>3, <1>6, <1>7, <2>1 DEF IInv, UnracedEditsSurvive, ReleaseSurvivesEdits, Stored
<1> QED BY <1>9, <1>10, <1>11, <1>12 DEF IInv

LEMMA DeleteIInv ==
  ASSUME IInv, NEW i \in Ids, DeleteAppEnvVar(i)
  PROVE  IInv'
<1>1. /\ rows' = [rows EXCEPT ![i] = NoRow]
      /\ asked' = [asked EXCEPT ![i] = NoRow]
      /\ raced' = raced \ {i}
      /\ UNCHANGED <<table, created, patches>>
  BY DEF DeleteAppEnvVar
<1>2. Stored' = Stored \ {i}
  BY <1>1 DEF Stored, IInv, TypeOK
<1>3. \A j \in Ids \ {i} : rows'[j] = rows[j] /\ asked'[j] = asked[j]
  BY <1>1 DEF IInv, TypeOK
<1>4. TypeOK'
  <2>1. NamesAreUnique'
    BY <1>2, <1>3 DEF IInv, TypeOK, NamesAreUnique, Stored
  <2> QED BY <1>1, <2>1 DEF IInv, TypeOK
<1>5. IdsAreUsedOnce'
  BY <1>1, <1>2, <1>3 DEF IInv, TypeOK, IdsAreUsedOnce, Stored
<1>6. PatchesAreMerged'
  BY <1>1, <1>2, <1>3 DEF IInv, PatchesAreMerged, PatchIsMerged, Stored
<1>7. UnracedEditsSurvive' /\ ReleaseSurvivesEdits'
  BY <1>1, <1>2, <1>3 DEF IInv, UnracedEditsSurvive, ReleaseSurvivesEdits, Stored
<1> QED BY <1>4, <1>5, <1>6, <1>7 DEF IInv

LEMMA ReadIInv ==
  ASSUME IInv, NEW r \in Requests, NEW i \in Ids, NEW body \in Bodies,
         NEW named \in SUBSET Columns, Read(r, i, body, named)
  PROVE  IInv'
<1> DEFINE p == [id |-> i, current |-> rows[i], next |-> Merge(rows[i], body, named),
                 named |-> named]
<1>1. /\ i \in Stored /\ rows[i] \in Rows
      /\ patches' = [patches EXCEPT ![r] = p]
      /\ UNCHANGED <<table, rows, created, asked, raced>>
  BY DEF Read, Stored, IInv, TypeOK
<1>2. p \in Patches
  BY <1>1, MergeFacts DEF Patches
<1>3. TypeOK'
  BY <1>1, <1>2 DEF IInv, TypeOK, NamesAreUnique, Stored
<1>4. PatchIsMerged(p)
  BY <1>1, MergeFacts DEF IInv, IdsAreUsedOnce, PatchIsMerged
<1> HIDE DEF p
<1>5. PatchesAreMerged'
  BY <1>1, <1>4 DEF IInv, TypeOK, PatchesAreMerged, PatchIsMerged, Stored
<1>6. IdsAreUsedOnce' /\ UnracedEditsSurvive' /\ ReleaseSurvivesEdits'
  BY <1>1 DEF IInv, IdsAreUsedOnce, UnracedEditsSurvive, ReleaseSurvivesEdits, Stored
<1> QED BY <1>3, <1>5, <1>6 DEF IInv

(* A write that is not outdated gives the columns it does not name what    *)
(* they held; the others do not matter or are what was asked for.          *)
LEMMA WriteIInv ==
  ASSUME IInv, NEW r \in Requests, Write(r)
  PROVE  IInv'
<1> DEFINE p == patches[r]
           i == p.id
<1>1. /\ p \in Patches /\ PatchIsMerged(p)
      /\ i \in Stored /\ i \in Ids
      /\ p.current \in Rows /\ p.next \in Rows /\ p.named \in SUBSET Columns
  BY DEF Write, IInv, TypeOK, PatchesAreMerged, Patches, Stored
<1>2. /\ NameIsFree(rows[i].parent, p.next.name, i)
      /\ rows' = [rows EXCEPT ![i] = Set(rows[i], p.next)]
      /\ asked' = [asked EXCEPT ![i] = Ask(asked[i], p.next, p.named)]
      /\ raced' = IF Outdated(p) THEN raced \cup {i} ELSE raced
      /\ patches' = [patches EXCEPT ![r] = NoRequest]
      /\ UNCHANGED <<table, created>>
  BY DEF Write
<1>3. rows[i] \in Rows /\ asked[i] \in Rows
  BY <1>1 DEF IInv, TypeOK, IdsAreUsedOnce, Stored
<1>4. Outdated(p) <=> Set(rows[i], p.current) # rows[i]
  BY DEF Outdated
<1> HIDE DEF p, i
<1>5. /\ Set(rows[i], p.next) \in Rows /\ Ask(asked[i], p.next, p.named) \in Rows
      /\ rows'[i] = Set(rows[i], p.next) /\ asked'[i] = Ask(asked[i], p.next, p.named)
  BY <1>1, <1>2, <1>3, SetFacts, AskFacts DEF IInv, TypeOK
<1>6. \A j \in Ids \ {i} : rows'[j] = rows[j] /\ asked'[j] = asked[j]
  BY <1>2 DEF IInv, TypeOK
<1>7. Stored' = Stored
  BY <1>1, <1>5, <1>6, NoneAssumption DEF Stored
<1>8. /\ rows'[i].parent = rows[i].parent /\ rows'[i].born = rows[i].born
      /\ rows'[i].release = rows[i].release /\ rows'[i].name = p.next.name
      /\ asked'[i].release = asked[i].release
  BY <1>1, <1>3, <1>5, SetFacts, AskFacts
<1>9. NamesAreUnique'
  BY <1>1, <1>2, <1>6, <1>7, <1>8 DEF IInv, TypeOK, NamesAreUnique, NameIsFree, Stored
<1>10. TypeOK'
  BY <1>1, <1>2, <1>5, <1>9 DEF IInv, TypeOK
<1>11. IdsAreUsedOnce'
  BY <1>1, <1>2, <1>3, <1>5, <1>6, <1>7, <1>8, NoneAssumption DEF IInv, IdsAreUsedOnce, Stored
<1>12. PatchesAreMerged'
  BY <1>1, <1>2, <1>6, <1>7, <1>8 DEF IInv, TypeOK, PatchesAreMerged, PatchIsMerged, Patches, Stored
<1>13. ReleaseSurvivesEdits'
  BY <1>1, <1>6, <1>7, <1>8 DEF IInv, ReleaseSurvivesEdits, Stored
<1>14. UnracedEditsSurvive'
  <2>1. ASSUME ~Outdated(p), i \notin raced
        PROVE  Set(rows'[i], asked'[i]) = rows'[i]
    <3>1. /\ rows[i].name = p.current.name /\ rows[i].value = p.current.value
          /\ rows[i].flag = p.current.flag
      BY <1>1, <1>3, <1>4, <2>1, SetFacts
    <3>2. /\ rows[i].name = asked[i].name /\ rows[i].value = asked[i].value
          /\ rows[i].flag = asked[i].flag
      BY <1>1, <1>3, <2>1, SetFacts DEF IInv, UnracedEditsSurvive
    <3>3. /\ rows'[i].name = p.next.name /\ rows'[i].value = p.next.value
          /\ rows'[i].flag = p.next.flag
      BY <1>1, <1>3, <1>5, SetFacts
    <3>4. /\ asked'[i].name = IF "name" \in p.named THEN p.next.name ELSE asked[i].name
          /\ asked'[i].value = IF "value" \in p.named THEN p.next.value ELSE asked[i].value
          /\ asked'[i].flag = IF "flag" \in p.named THEN p.next.flag ELSE asked[i].flag
      BY <1>1, <1>3, <1>5, AskFacts
    <3>5. /\ asked'[i].name = rows'[i].name /\ asked'[i].value = rows'[i].value
          /\ asked'[i].flag = rows'[i].flag
      BY <1>1, <3>1, <3>2, <3>3, <3>4 DEF PatchIsMerged
    <3> QED BY <1>5, <3>5, SetFacts
  <2>2. \A j \in Stored \ raced' : j # i => Set(rows'[j], asked'[j]) = rows'[j]
    BY <1>2, <1>6 DEF IInv, UnracedEditsSurvive, Stored
  <2>3. i \notin raced' => ~Outdated(p) /\ i \notin raced
    BY <1>2
  <2> QED BY <1>7, <2>1, <2>2, <2>3 DEF UnracedEditsSurvive
<1> QED BY <1>10, <1>11, <1>12, <1>13, <1>14 DEF IInv

LEMMA PatchFailsIInv ==
  ASSUME IInv, NEW r \in Requests, PatchFails(r)
  PROVE  IInv'
BY DEF IInv, PatchFails, TypeOK, NamesAreUnique, Stored, IdsAreUsedOnce, PatchesAreMerged,
       PatchIsMerged, UnracedEditsSurvive, ReleaseSurvivesEdits

LEMMA MoveReleaseIInv ==
  ASSUME IInv, NEW i \in Ids, NEW release \in 1..MaxReleases, MoveRelease(i, release)
  PROVE  IInv'
<1>1. /\ i \in Stored
      /\ rows' = [rows EXCEPT ![i].release = release]
      /\ asked' = [asked EXCEPT ![i].release = release]
      /\ UNCHANGED <<table, created, patches, raced>>
  BY DEF MoveRelease
<1>2. rows[i] \in Rows /\ asked[i] \in Rows
  BY <1>1 DEF IInv, TypeOK, IdsAreUsedOnce, Stored
<1>3. /\ rows'[i] = [rows[i] EXCEPT !.release = release]
      /\ asked'[i] = [asked[i] EXCEPT !.release = release]
  BY <1>1 DEF IInv, TypeOK
<1>4. rows'[i] \in Rows /\ asked'[i] \in Rows
  BY <1>2, <1>3, BoundsAssumption DEF Rows
<1>5. /\ rows'[i].parent = rows[i].parent /\ rows'[i].born = rows[i].born
      /\ rows'[i].name = rows[i].name /\ rows'[i].value = rows[i].value
      /\ rows'[i].flag = rows[i].flag
      /\ asked'[i].name = asked[i].name /\ asked'[i].value = asked[i].value
      /\ asked'[i].flag = asked[i].flag
      /\ rows'[i].release = asked'[i].release
  BY <1>2, <1>3 DEF Rows
<1>6. \A j \in Ids \ {i} : rows'[j] = rows[j] /\ asked'[j] = asked[j]
  BY <1>1 DEF IInv, TypeOK
<1>7. Stored' = Stored
  BY <1>1, <1>4, <1>6, NoneAssumption DEF Stored
<1>8. TypeOK'
  <2>1. NamesAreUnique'
    BY <1>5, <1>6, <1>7 DEF IInv, TypeOK, NamesAreUnique, Stored
  <2>2. \A j \in Ids : rows'[j] \in Rows \cup {NoRow} /\ asked'[j] \in Rows \cup {NoRow}
    BY <1>4, <1>6 DEF IInv, TypeOK
  <2>3. /\ rows' = [j \in Ids |-> rows'[j]]
        /\ asked' = [j \in Ids |-> asked'[j]]
    BY <1>1 DEF IInv, TypeOK
  <2>4. rows' \in [Ids -> Rows \cup {NoRow}] /\ asked' \in [Ids -> Rows \cup {NoRow}]
    <3> HIDE <1>1
    <3> QED BY <2>2, <2>3
  <2> QED BY <1>1, <2>1, <2>4 DEF IInv, TypeOK
<1>9. IdsAreUsedOnce'
  BY <1>1, <1>4, <1>5, <1>6, <1>7, NoneAssumption DEF IInv, IdsAreUsedOnce, Stored
<1>10. PatchesAreMerged'
  BY <1>1, <1>5, <1>6, <1>7 DEF IInv, PatchesAreMerged, PatchIsMerged, Stored
<1>11. ReleaseSurvivesEdits'
  BY <1>5, <1>6, <1>7 DEF IInv, ReleaseSurvivesEdits, Stored
<1>12. UnracedEditsSurvive'
  <2>1. ASSUME i \notin raced PROVE Set(rows'[i], asked'[i]) = rows'[i]
    <3>1. Set(rows[i], asked[i]) = rows[i]
      BY <1>1, <2>1 DEF IInv, UnracedEditsSurvive
    <3>2. /\ rows[i].name = asked[i].name /\ rows[i].value = asked[i].value
          /\ rows[i].flag = asked[i].flag
      BY <1>2, <3>1, SetFacts
    <3> QED BY <1>4, <1>5, <3>2, SetFacts
  <2> QED BY <1>1, <1>6, <1>7, <2>1 DEF IInv, UnracedEditsSurvive, Stored
<1> QED BY <1>8, <1>9, <1>10, <1>11, <1>12 DEF IInv

LEMMA StepIInv == IInv /\ [Next]_vars => IInv'
<1> SUFFICES ASSUME IInv, [Next]_vars PROVE IInv'
  OBVIOUS
<1>1. CASE UNCHANGED vars
  BY <1>1 DEF IInv, vars, TypeOK, NamesAreUnique, Stored, IdsAreUsedOnce, PatchesAreMerged,
              PatchIsMerged, UnracedEditsSurvive, ReleaseSurvivesEdits
<1>2. CASE Next
  BY <1>2, InsertIInv, DeleteIInv, ReadIInv, WriteIInv, PatchFailsIInv, MoveReleaseIInv
     DEF Next, CreateApp, CreateAppEnvVar, PatchAppReads, PatchAppEnvVarReads,
         UpdateAppForUser, UpdateAppEnvVarForUser
<1> QED BY <1>1, <1>2

-----------------------------------------------------------------------------

(* IInv always holds: the invariant the theorems below rest on.            *)
THEOREM Invariant == Spec => []IInv
<1> QED BY InitIInv, StepIInv, PTL DEF Spec

(* Every reachable state is well typed, and no two rows of a parent ever   *)
(* have the same name.                                                     *)
THEOREM TypeCorrect == Spec => []TypeOK
<1>1. IInv => TypeOK
  BY DEF IInv
<1> QED BY <1>1, Invariant, PTL

(* PatchKeepsItsRow: a PATCH never reaches a successor of the row it read. *)
THEOREM SameRow == Spec => []PatchKeepsItsRow
<1>1. IInv => PatchKeepsItsRow
  BY DEF IInv, PatchKeepsItsRow, PatchesAreMerged, PatchIsMerged, IdsAreUsedOnce, Stored
<1> QED BY <1>1, Invariant, PTL

(* UnracedEditsSurvive: an edit is lost only to an overlapping one.        *)
THEOREM EditsSurvive == Spec => []UnracedEditsSurvive
<1>1. IInv => UnracedEditsSurvive
  BY DEF IInv
<1> QED BY <1>1, Invariant, PTL

(* ReleaseSurvivesEdits: no edit moves an app's current release.           *)
THEOREM ReleaseIsSafe == Spec => []ReleaseSurvivesEdits
<1>1. IInv => ReleaseSurvivesEdits
  BY DEF IInv
<1> QED BY <1>1, Invariant, PTL
=============================================================================
