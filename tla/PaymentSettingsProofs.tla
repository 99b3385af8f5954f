----------------------- MODULE PaymentSettingsProofs -----------------------
(***************************************************************************)
(* Safety of module PaymentSettings for any number of editors.             *)
(***************************************************************************)
EXTENDS PaymentSettings, TLAPS

Agree(v, w) == v.revision = w.revision => v.value = w.value

(* Nothing shown or answered is ahead of the row, and what carries the     *)
(* row's revision carries its value.                                       *)
BehindRow(v) == v.revision <= revision /\ Agree(v, Row)

PagesInv == \A p \in Editors : BehindRow(page[p])
ToldInv == \A v \in told : BehindRow(v)

IInv == TypeOK /\ PagesInv /\ ToldInv /\ RevisionNamesValue
-----------------------------------------------------------------------------
(* The version the migration writes satisfies the invariant.               *)
LEMMA Initially == Init => IInv
  BY DEF Init, IInv, TypeOK, Version, Preference, PagesInv, ToldInv, BehindRow,
     Agree, Row, RevisionNamesValue

(* A save, heard or not, moves the row to the revision after the one its   *)
(* page showed, which is the row's own.                                    *)
LEMMA SaveMovesOn ==
  ASSUME TypeOK, NEW p \in Editors, Save(p) \/ SaveUnheard(p)
  PROVE  /\ page[p].revision = revision
         /\ revision' = revision + 1
         /\ value' \in Preference
         /\ Row' = [value |-> value', revision |-> revision + 1]
  BY DEF TypeOK, Save, SaveUnheard, StillExpected, Row

(* A save leaves what was shown and answered behind the new row.           *)
LEMMA SaveStaysAhead ==
  ASSUME IInv, NEW p \in Editors, Save(p) \/ SaveUnheard(p),
         NEW v \in Version, BehindRow(v)
  PROVE  BehindRow(v)' /\ v.revision # Row'.revision
<1>1. revision' = revision + 1 /\ Row'.revision = revision + 1 /\ revision \in Nat
  BY SaveMovesOn DEF IInv, TypeOK
<1>2. v.revision \in Nat /\ v.revision <= revision
  BY DEF Version, BehindRow
<1> QED BY <1>1, <1>2 DEF BehindRow, Agree

(* A step that neither writes the row nor answers keeps the invariant.     *)
LEMMA OthersKeep ==
  ASSUME IInv, UNCHANGED <<row, page, told>>, TypeOK'
  PROVE  IInv'
  BY DEF IInv, PagesInv, ToldInv, BehindRow, Agree, Row, row, RevisionNamesValue

(* Every step keeps the types.                                             *)
LEMMA TypesKept == TypeOK /\ [Next]_vars => TypeOK'
<1> SUFFICES ASSUME TypeOK, [Next]_vars PROVE TypeOK' OBVIOUS
<1> USE DEF TypeOK, Version
<1>1. CASE UNCHANGED vars BY <1>1 DEF vars, row, requests
<1>2. ASSUME NEW p \in Editors, Load(p) PROVE TypeOK'
  BY <1>2 DEF Load, Goto, Row, row
<1>3. ASSUME NEW p \in Editors, CheckRevision(p) PROVE TypeOK'
  BY <1>3 DEF CheckRevision, Goto, row
<1>4. ASSUME NEW p \in Editors, Save(p) PROVE TypeOK'
  <2>1. Row' \in Version BY <1>4, SaveMovesOn
  <2>2. revision' \in Nat BY <1>4, SaveMovesOn
  <2> QED BY <1>4, <2>1, <2>2 DEF Save, Goto
<1>5. ASSUME NEW p \in Editors, SaveUnheard(p) PROVE TypeOK'
  <2>1. revision' \in Nat BY <1>5, SaveMovesOn
  <2> QED BY <1>5, <2>1 DEF SaveUnheard, Goto
<1>6. ASSUME NEW p \in Editors, Conflict(p) \/ Die(p) PROVE TypeOK'
  BY <1>6 DEF Conflict, Die, Goto, row
<1>7. ASSUME NEW p \in Editors, NEW v \in Preference, Submit(p, v) PROVE TypeOK'
  BY <1>7 DEF Submit, Goto, row
<1>8. ASSUME NEW c \in Country, Quote(c) PROVE TypeOK'
  BY <1>8 DEF Quote, row, requests, providerForPaymentCurrency,
              resolvePaymentCurrency, Preference
<1> QED BY <1>1, <1>2, <1>3, <1>4, <1>5, <1>6, <1>7, <1>8 DEF Next

(* Every step keeps the invariant.                                         *)
LEMMA Kept == IInv /\ [Next]_vars => IInv'
<1> SUFFICES ASSUME IInv, [Next]_vars PROVE IInv' OBVIOUS
<1>0. TypeOK' BY TypesKept DEF IInv
<1>1. CASE UNCHANGED vars
  BY <1>0, <1>1, OthersKeep DEF vars, requests
<1>2. ASSUME NEW p \in Editors, Load(p) PROVE IInv'
  <2>1. BehindRow(Row) /\ Row \in Version
    BY DEF BehindRow, Agree, Row, IInv, TypeOK, Version
  <2>2. \A v : BehindRow(v) <=> BehindRow(v)'
    BY <1>2 DEF Load, BehindRow, Agree, Row, row
  <2>3. page' = [page EXCEPT ![p] = Row] /\ told' = told \cup {Row}
    BY <1>2 DEF Load
  <2>4. PagesInv' BY <2>1, <2>2, <2>3 DEF PagesInv, IInv, TypeOK, BehindRow
  <2>5. ToldInv' BY <2>1, <2>2, <2>3 DEF ToldInv, IInv, BehindRow
  <2>6. RevisionNamesValue'
    BY <2>3 DEF RevisionNamesValue, IInv, ToldInv, BehindRow, Agree
  <2> QED BY <1>0, <2>4, <2>5, <2>6 DEF IInv
<1>3. ASSUME NEW p \in Editors, CheckRevision(p) \/ Conflict(p) \/ Die(p) PROVE IInv'
  BY <1>0, <1>3, OthersKeep DEF CheckRevision, Conflict, Die
<1>4. ASSUME NEW p \in Editors, NEW v \in Preference, Submit(p, v) PROVE IInv'
  BY <1>0, <1>4, OthersKeep DEF Submit
<1>5. ASSUME NEW p \in Editors, Save(p) PROVE IInv'
  <2>1. page' = [page EXCEPT ![p] = Row'] /\ told' = told \cup {Row'}
    BY <1>5 DEF Save
  <2>2. BehindRow(Row)' /\ Row' \in Version
    BY <1>0, <1>5, SaveMovesOn DEF BehindRow, Agree, Row, TypeOK, Version
  <2>3. \A v \in Version : BehindRow(v) => BehindRow(v)' /\ v.revision # Row'.revision
    BY <1>5, SaveStaysAhead
  <2>4. PagesInv' BY <2>1, <2>2, <2>3 DEF PagesInv, IInv, TypeOK, BehindRow
  <2>5. ToldInv' BY <2>1, <2>2, <2>3 DEF ToldInv, IInv, TypeOK, BehindRow
  <2>6. \A v \in told : v.revision # Row'.revision
    BY <2>3 DEF IInv, ToldInv, TypeOK
  <2>7. RevisionNamesValue' BY <2>1, <2>6 DEF RevisionNamesValue, IInv
  <2> QED BY <1>0, <2>4, <2>5, <2>7 DEF IInv
<1>6. ASSUME NEW p \in Editors, SaveUnheard(p) PROVE IInv'
  <2>1. UNCHANGED <<page, told>> BY <1>6 DEF SaveUnheard
  <2>2. \A v \in Version : BehindRow(v) => BehindRow(v)' BY <1>6, SaveStaysAhead
  <2>3. PagesInv' BY <2>1, <2>2 DEF PagesInv, IInv, TypeOK, BehindRow
  <2>4. ToldInv' BY <2>1, <2>2 DEF ToldInv, IInv, TypeOK, BehindRow
  <2>5. RevisionNamesValue' BY <2>1 DEF RevisionNamesValue, IInv
  <2> QED BY <1>0, <2>3, <2>4, <2>5 DEF IInv
<1>7. ASSUME NEW c \in Country, Quote(c) PROVE IInv'
  BY <1>0, <1>7, OthersKeep DEF Quote, requests
<1> QED BY <1>1, <1>2, <1>3, <1>4, <1>5, <1>6, <1>7 DEF Next

(* The invariant holds in every reachable state.                           *)
THEOREM Invariance == Spec => []IInv
  BY Initially, Kept, PTL DEF Spec

(* Every variable keeps its type.                                          *)
THEOREM TypeCorrect == Spec => []TypeOK
<1>1. IInv => TypeOK BY DEF IInv
<1> QED BY <1>1, Invariance, PTL

(* Any two answers with one revision give one value: an editor can use the *)
(* revision of updatePaymentPreference as the name of what it saw.         *)
THEOREM RevisionsName == Spec => []RevisionNamesValue
<1>1. IInv => RevisionNamesValue BY DEF IInv
<1> QED BY <1>1, Invariance, PTL

-----------------------------------------------------------------------------
(* A save finds on its editor's page the very row it replaces, although    *)
(* its WHERE clause compares revisions only.                               *)
LEMMA SaveSeesRow ==
  ASSUME IInv, NEW p \in Editors, Save(p) \/ SaveUnheard(p)
  PROVE  pc[p] = "save" /\ page[p] = Row /\ revision' = revision + 1
<1>1. page[p].revision = revision /\ revision' = revision + 1
  BY SaveMovesOn DEF IInv
<1>2. page[p].value = value
  BY <1>1 DEF IInv, PagesInv, BehindRow, Agree, Row
<1>3. page[p] = Row BY <1>1, <1>2 DEF IInv, TypeOK, Version, Row
<1> QED BY <1>1, <1>3 DEF Save, SaveUnheard, Goto

(* Only a save changes the row, and only over what its editor saw: no      *)
(* concurrent edit of the preference is overwritten unseen.                *)
THEOREM EditsAreSeen == Spec => SavesOverSeen
<1> DEFINE Seen == /\ \E p \in Editors : pc[p] = "save" /\ page[p] = Row
                   /\ revision' = revision + 1
<1>1. IInv /\ [Next]_vars => [Seen]_row
  <2> SUFFICES ASSUME IInv, [Next]_vars, row' # row PROVE Seen OBVIOUS
  <2>1. PICK p \in Editors : Save(p) \/ SaveUnheard(p)
    BY DEF Next, vars, row, Load, CheckRevision, Conflict, Die, Submit, Quote
  <2> QED BY <2>1, SaveSeesRow
<1> QED BY <1>1, Invariance, PTL DEF Spec, SavesOverSeen
=============================================================================
