------------------------------ MODULE Content -------------------------------
(***************************************************************************)
(* What becomes of the site's content, seen from two sides.  The release   *)
(* log (ContentRelease) sees any EmDash mutation, wherever it comes from,  *)
(* and tells an entry's texts as one value; the studio (Editor) sees the   *)
(* texts one by one, and no log.  A behaviour is told from either side:    *)
(* the first state chooses which, the other side stays as it is.           *)
(***************************************************************************)
EXTENDS ContentRelease, Editor

VARIABLE side

contentVars == <<vars, editorVars, side>>

ContentTypeOK ==
  side \in {"log", "studio"} /\ TypeOK /\ EditorTypeOK

ContentInit ==
  /\ side \in {"log", "studio"}
  /\ Init /\ EditorInit

ContentNext ==
  /\ UNCHANGED side
  /\ \/ side = "log" /\ Next /\ UNCHANGED editorVars
     \/ side = "studio" /\ EditorNext /\ UNCHANGED vars

ContentSpec == ContentInit /\ [][ContentNext]_contentVars
=============================================================================
