--------------------------- MODULE SpecLifecycle ---------------------------
(***************************************************************************)
(* What the lifecycle of one specification package promises to its         *)
(* readers, without files, handles, crashes or callers: a draft is edited  *)
(* freely, an active spec keeps its identity and its approved intent, and  *)
(* from sealing on nothing but the status, the deprecation banner and the  *)
(* place of the directory changes.  SpecStore implements it.               *)
(***************************************************************************)
CONSTANTS Ident,      \* values of (spec_id, spec_name, created_at)
          Intent,     \* trimmed texts of the "## Intent" section
          Artifacts,  \* contents of the files beside prd.md
          Nil

VARIABLES status, ident, intent,
          hash,       \* the stored intent_hash
          banner,     \* does the body start with the deprecation banner
          artifacts, place

vars == <<status, ident, intent, hash, banner, artifacts, place>>

Status == {"draft", "active", "sealed", "superseded", "archived"}

HashOf(t) == <<"sha256", t>>

TypeOK ==
  /\ status \in Status
  /\ ident \in Ident
  /\ intent \in Intent \cup {Nil}
  /\ hash \in {HashOf(t) : t \in Intent} \cup {Nil}
  /\ banner \in BOOLEAN
  /\ artifacts \in Artifacts
  /\ place \in {"specs", "archive"}

Init ==
  /\ status = "draft"
  /\ ident \in Ident
  /\ intent \in Intent \cup {Nil}
  /\ hash = Nil
  /\ banner = FALSE
  /\ artifacts \in Artifacts
  /\ place = "specs"

EditDraft ==
  /\ status = "draft"
  /\ ident' \in Ident
  /\ intent' \in Intent \cup {Nil}
  /\ artifacts' \in Artifacts
  /\ UNCHANGED <<status, hash, banner, place>>

EditActive ==
  /\ status = "active"
  /\ artifacts' \in Artifacts
  /\ UNCHANGED <<status, ident, intent, hash, banner, place>>

Activate ==
  /\ status = "draft"
  /\ intent \in Intent
  /\ status' = "active"
  /\ hash' = HashOf(intent)
  /\ UNCHANGED <<ident, intent, banner, artifacts, place>>

Seal ==
  /\ status = "active"
  /\ status' = "sealed"
  /\ UNCHANGED <<ident, intent, hash, banner, artifacts, place>>

Supersede ==
  /\ status = "sealed"
  /\ status' = "superseded"
  /\ banner' = TRUE
  /\ UNCHANGED <<ident, intent, hash, artifacts, place>>

\* An active spec is not archived: it is sealed first.
Archive ==
  /\ status \in {"draft", "sealed", "superseded"}
  /\ status' = "archived"
  /\ UNCHANGED <<ident, intent, hash, banner, artifacts, place>>

Relocate ==
  /\ status = "archived"
  /\ place = "specs"
  /\ place' = "archive"
  /\ UNCHANGED <<status, ident, intent, hash, banner, artifacts>>

Next ==
  \/ EditDraft \/ EditActive
  \/ Activate \/ Seal \/ Supersede \/ Archive
  \/ Relocate

Spec == Init /\ [][Next]_vars
=============================================================================
