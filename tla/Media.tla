---------------------------------- MODULE Media ----------------------------------
(***************************************************************************)
(* Admin image uploads and GET /media/{sha256}.{ext} (domain/media.py,     *)
(* application/media.py, api/media.py, PostgreSQLMediaAssets,              *)
(* MediaUploadView).  A file is [name, size, magic]; its sha256 is the     *)
(* file itself.                                                            *)
(***************************************************************************)
EXTENDS Integers, FiniteSets

CONSTANTS
  Files,      \* what is uploaded: [name, size, magic]
  Uploads,    \* concurrent uploads
  MaxBytes,
  None

Types == {"png", "jpg", "webp"}

MediaAssumption ==
  /\ MaxBytes \in Nat /\ None \notin {"EMPTY", "TOO_LARGE", "UNSUPPORTED_TYPE"}
  /\ \A f \in Files : f.size \in Nat /\ f.magic \in Types \cup {"svg", "none"}

VARIABLES
  assets,    \* rows by sha256: [file, type]
  uploads,   \* [at, file]
  urls       \* history: [file, extension] handed out

vars == <<assets, uploads, urls>>

Idle == [at |-> "idle", file |-> None]

\* validate_upload: the magic decides, never the name.
Refusal(f) ==
  IF f.size = 0 THEN "EMPTY"
  ELSE IF f.size > MaxBytes THEN "TOO_LARGE"
  ELSE IF f.magic \notin Types THEN "UNSUPPORTED_TYPE"
  ELSE None

Begin(u, f) ==
  /\ uploads[u].at = "idle"
  /\ uploads' = [uploads EXCEPT ![u] =
       IF Refusal(f) = None THEN [at |-> "put", file |-> f] ELSE [Idle EXCEPT !.at = Refusal(f)]]
  /\ UNCHANGED <<assets, urls>>

Stored(f) == \E a \in assets : a.file = f

\* put_if_absent: the insert, or an IntegrityError and a read in a new
\* session; then the URL is shown.
Put(u) ==
  LET f == uploads[u].file IN
  /\ uploads[u].at = "put"
  /\ IF Stored(f) THEN /\ uploads' = [uploads EXCEPT ![u].at = "get"]
                       /\ UNCHANGED <<assets, urls>>
     ELSE /\ assets' = assets \cup {[file |-> f, type |-> f.magic]}
          /\ urls' = urls \cup {[file |-> f, extension |-> f.magic]}
          /\ uploads' = [uploads EXCEPT ![u] = Idle]

Get(u) ==
  LET f == uploads[u].file IN
  /\ uploads[u].at = "get"
  /\ \E a \in assets :
       a.file = f /\ urls' = urls \cup {[file |-> f, extension |-> a.type]}
  /\ uploads' = [uploads EXCEPT ![u] = Idle]
  /\ UNCHANGED assets

Forget(u) ==
  /\ uploads[u].at # "idle"
  /\ uploads' = [uploads EXCEPT ![u] = Idle]
  /\ UNCHANGED <<assets, urls>>

\* get_media: 404 for another extension than the stored type's.
Served(file, extension) == \E a \in assets : a.file = file /\ a.type = extension

Init == assets = {} /\ uploads = [u \in Uploads |-> Idle] /\ urls = {}

Next ==
  \E u \in Uploads : (\E f \in Files : Begin(u, f)) \/ Put(u) \/ Get(u) \/ Forget(u)

Spec == Init /\ [][Next]_vars

-----------------------------------------------------------------------------
TypeOK ==
  /\ \A a \in assets : a.file \in Files /\ a.type \in Types
  /\ \A u \in Uploads : uploads[u].at \in
       {"idle", "put", "get", "EMPTY", "TOO_LARGE", "UNSUPPORTED_TYPE"}

\* A URL that was handed out answers for ever, with the file it was given
\* for ("immutable"), however often the same file was uploaded at once.
UrlsStand == \A url \in urls : Served(url.file, url.extension)
=============================================================================
