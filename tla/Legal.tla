---------------------------------- MODULE Legal ----------------------------------
(***************************************************************************)
(* Versions of the terms: written in the admin panel (LegalDocumentAdmin), *)
(* frozen by the trigger of migration 0020, accepted by players through    *)
(* PATCH /me (ProfileService, update_profile).                             *)
(***************************************************************************)
EXTENDS Integers, FiniteSets

CONSTANTS
  Players, Versions,
  MaxEdits,   \* bound of the model
  None

LegalAssumption == None \notin Versions /\ MaxEdits \in Nat

VARIABLES
  documents,  \* version -> how often its text was changed, or None
  terms,      \* users.terms_version
  current,    \* the server's TERMS_VERSION
  edit,       \* the form being saved: [at, version]
  accepted,   \* history: [player, version, text]
  passed      \* history: versions the trigger let be edited although some
              \* player had accepted them

vars == <<documents, terms, current, edit, accepted, passed>>

NoEdit == [at |-> "none", version |-> None]

Exists(v) == documents[v] # None

CreateDocument(v) ==
  /\ ~Exists(v)
  /\ documents' = [documents EXCEPT ![v] = 0]
  /\ UNCHANGED <<terms, current, edit, accepted, passed>>

\* Operators point TERMS_VERSION at a version and restart the server.
Deploy(v) ==
  /\ Exists(v)
  /\ current' = v
  /\ UNCHANGED <<documents, terms, edit, accepted, passed>>

\* PATCH /me: only the current version is accepted, and it replaces the one
\* accepted before.
Accept(p) ==
  /\ current # None
  /\ terms' = [terms EXCEPT ![p] = current]
  /\ accepted' = accepted \cup {[player |-> p, version |-> current,
                                 text |-> documents[current]]}
  /\ UNCHANGED <<documents, current, edit, passed>>

\* Both on_model_change and the trigger ask the players' present rows.
InUse(v) == \E p \in Players : terms[p] = v

\* on_model_change.
SubmitEdit(v) ==
  /\ edit.at = "none" /\ Exists(v) /\ ~InUse(v)
  /\ edit' = [at |-> "update", version |-> v]
  /\ UNCHANGED <<documents, terms, current, accepted, passed>>

\* The UPDATE, and legal_documents_frozen_once_accepted before it.
UpdateDocument ==
  /\ edit.at = "update"
  /\ edit' = IF InUse(edit.version) THEN NoEdit ELSE [edit EXCEPT !.at = "commit"]
  /\ passed' = passed \cup {v \in {edit.version} :
                  ~InUse(v) /\ \E a \in accepted : a.version = v}
  /\ UNCHANGED <<documents, terms, current, accepted>>

CommitEdit ==
  /\ edit.at = "commit" /\ documents[edit.version] < MaxEdits
  /\ documents' = [documents EXCEPT ![edit.version] = @ + 1]
  /\ edit' = NoEdit
  /\ UNCHANGED <<terms, current, accepted, passed>>

Init ==
  /\ documents = [v \in Versions |-> None] /\ terms = [p \in Players |-> None]
  /\ current = None /\ edit = NoEdit /\ accepted = {} /\ passed = {}

Next ==
  \/ \E v \in Versions : CreateDocument(v) \/ Deploy(v) \/ SubmitEdit(v)
  \/ \E p \in Players : Accept(p)
  \/ UpdateDocument \/ CommitEdit

Spec == Init /\ [][Next]_vars

-----------------------------------------------------------------------------
\* Migration 0020: "a trigger refuses UPDATE and DELETE of a version any
\* player has accepted: what a player agreed to never changes under them".
\* No edit was let through of a version some player had accepted before it.
EditsSpareAcceptedVersions == passed = {}
=============================================================================
