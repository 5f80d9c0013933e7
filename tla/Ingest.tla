-------------------------------- MODULE Ingest --------------------------------
(***************************************************************************)
(* ingestExamDocument (src/src/services/exam-document/ingest.ts): an       *)
(* uploaded file becomes a document row and upserts a candidate for every  *)
(* row of it that matches a student.  (exam_id, file_hash) is unique, so a *)
(* file stands for its document.  What the extraction finds in a file is a *)
(* constant; the order of its rows is left open.                           *)
(*                                                                         *)
(* Uploads overlap with each other, also of the same file, and with the    *)
(* administrators of Roster.                                               *)
(***************************************************************************)
EXTENDS Roster

CONSTANTS
  Upload,      \* upload requests
  Rows,        \* document -> the students its rows match
  Blocked,     \* documents with further rows, which match nobody
  Warned       \* documents whose extraction warns

ASSUME FilesAssumption ==
  /\ Rows \in [Document -> SUBSET Student]
  /\ Blocked \subseteq Document
  /\ Warned \subseteq Document

VARIABLES
  parse,     \* document -> parseStatus, "ABSENT" before the row exists
  at,        \* upload -> the database call it makes next
  file,      \* upload -> its file
  todo,      \* upload -> students it has yet to upsert
  verdict    \* upload -> the final status it will commit, "none" before

uploads == <<at, file, todo, verdict>>
uploadsVars == <<vars, parse, uploads>>

PARSE_TRANSITIONS ==
  [UPLOADED     |-> {"PROCESSING"},
   PROCESSING   |-> {"PARSED", "NEEDS_REVIEW", "REJECTED", "FAILED"},
   PARSED       |-> {"PROCESSING"},
   NEEDS_REVIEW |-> {"PROCESSING"},
   REJECTED     |-> {},
   FAILED       |-> {}]

ParseStatus == DOMAIN PARSE_TRANSITIONS

Final == {"PARSED", "NEEDS_REVIEW", "REJECTED"}

At == {"idle", "register", "create", "processing", "setProcessing", "read",
       "upsert", "commit", "setFinal"}

TypeOKUploads ==
  /\ TypeOK
  /\ parse \in [Document -> ParseStatus \cup {"ABSENT"}]
  /\ at \in [Upload -> At]
  /\ file \in [Upload -> Document \cup {NoDocument}]
  /\ todo \in [Upload -> SUBSET Student]
  /\ verdict \in [Upload -> Final \cup {"none"}]
  /\ \A u \in Upload : at[u] # "upsert" => todo[u] = {}

InitUploads ==
  /\ Init
  /\ parse = [d \in Document |-> "ABSENT"]
  /\ at = [u \in Upload |-> "idle"]
  /\ file = [u \in Upload |-> NoDocument]
  /\ todo = [u \in Upload |-> {}]
  /\ verdict = [u \in Upload |-> "none"]

Call(u, next) == at' = [at EXCEPT ![u] = next]

(* The upload goes on to its next call, or returns or throws. *)
Proceed(u, next) == Call(u, next) /\ UNCHANGED <<file, todo, verdict>>

EndUpload(u) ==
  /\ Call(u, "idle")
  /\ file' = [file EXCEPT ![u] = NoDocument]
  /\ todo' = [todo EXCEPT ![u] = {}]
  /\ verdict' = [verdict EXCEPT ![u] = "none"]

-----------------------------------------------------------------------------
(* findDuplicateDocument finds none, and the bytes are stored.  A file that
   has a document is reported as a duplicate, which changes nothing. *)
Receive(u, d) ==
  /\ at[u] = "idle"
  /\ parse[d] = "ABSENT"
  /\ Call(u, "register")
  /\ file' = [file EXCEPT ![u] = d]
  /\ UNCHANGED <<vars, parse, todo, verdict>>

(* Mutant: the row of the other upload is taken for one in processing. *)
RegisterAsProcessing(u) ==
  /\ at[u] = "register"
  /\ Proceed(u, IF parse[file[u]] = "ABSENT" THEN "create" ELSE "read")
  /\ UNCHANGED <<vars, parse>>

(* registerDocument looks for a duplicate once more.  The caller does not
   look at "duplicate" and goes on with the row of the other upload. *)
Register(u) ==
  /\ at[u] = "register"
  /\ Proceed(u, IF parse[file[u]] = "ABSENT" THEN "create" ELSE "processing")
  /\ UNCHANGED <<vars, parse>>

(* The insert, which the index on the hash may refuse. *)
CreateDocument(u) ==
  /\ at[u] = "create"
  /\ IF parse[file[u]] = "ABSENT"
     THEN /\ parse' = [parse EXCEPT ![file[u]] = "UPLOADED"]
          /\ Proceed(u, "processing")
     ELSE EndUpload(u) /\ UNCHANGED parse
  /\ UNCHANGED vars

(* transitionParseStatus: read and assert ... *)
AssertParse(u, from, to, next) ==
  /\ at[u] = from
  /\ IF to \in PARSE_TRANSITIONS[parse[file[u]]]
     THEN Proceed(u, next)
     ELSE EndUpload(u)
  /\ UNCHANGED <<vars, parse>>

(* markProcessing: ... then update by id. *)
ReadForProcessing(u) == AssertParse(u, "processing", "PROCESSING", "setProcessing")

SetProcessing(u) ==
  /\ at[u] = "setProcessing"
  /\ parse' = [parse EXCEPT ![file[u]] = "PROCESSING"]
  /\ Proceed(u, "read")
  /\ UNCHANGED vars

(* Mutant: rows that match nobody, or a candidate, are not counted. *)
FinalStatusOfMatches(d, matched) ==
  IF d \in Warned THEN "NEEDS_REVIEW"
  ELSE IF matched = {} THEN "REJECTED" ELSE "PARSED"

(* resolveFinalStatus: "matched" are the students that are upserted, and
   extractedRows > matched if the file has any other row. *)
FinalStatus(d, matched) ==
  IF d \in Warned THEN "NEEDS_REVIEW"
  ELSE IF matched = {} THEN "REJECTED"
  ELSE IF d \in Blocked \/ matched # Rows[d] THEN "NEEDS_REVIEW"
  ELSE "PARSED"

(* Extraction and matching, then the register numbers that the exam has
   already: rows with one of these are DUPLICATE_IN_EXAM. *)
ReadExisting(u) ==
  LET matched == Rows[file[u]] \ OnRoster IN
  /\ at[u] = "read"
  /\ todo' = [todo EXCEPT ![u] = matched]
  /\ verdict' = [verdict EXCEPT ![u] = FinalStatus(file[u], matched)]
  /\ Call(u, "upsert")
  /\ UNCHANGED <<vars, parse, file>>

UpsertOne(u) ==
  /\ at[u] = "upsert"
  /\ \E s \in todo[u] :
       /\ Upsert(s, file[u])
       /\ todo' = [todo EXCEPT ![u] = @ \ {s}]
  /\ UNCHANGED <<parse, at, file, verdict>>

(* Mutant: the final status does not wait for the upserts. *)
UpsertsNotAwaited(u) ==
  /\ at[u] = "upsert"
  /\ Proceed(u, "commit")
  /\ UNCHANGED <<vars, parse>>

UpsertsDone(u) ==
  /\ at[u] = "upsert"
  /\ todo[u] = {}
  /\ Proceed(u, "commit")
  /\ UNCHANGED <<vars, parse>>

(* commitParseStatus. *)
ReadForFinal(u) == AssertParse(u, "commit", verdict[u], "setFinal")

SetFinal(u) ==
  /\ at[u] = "setFinal"
  /\ parse' = [parse EXCEPT ![file[u]] = verdict[u]]
  /\ EndUpload(u)
  /\ UNCHANGED vars

(* A call fails, the file is unreadable, or the process dies.  The handler of
   exceptions looks the document up under a storage path with a new timestamp
   and finds none, so the document stays as it is. *)
AbandonUpload(u) ==
  /\ at[u] # "idle"
  /\ EndUpload(u)
  /\ UNCHANGED <<vars, parse>>

UploadStep(u) ==
  \/ \E d \in Document : Receive(u, d)
  \/ Register(u)
  \/ CreateDocument(u)
  \/ ReadForProcessing(u)
  \/ SetProcessing(u)
  \/ ReadExisting(u)
  \/ UpsertOne(u)
  \/ UpsertsDone(u)
  \/ ReadForFinal(u)
  \/ SetFinal(u)
  \/ AbandonUpload(u)

NextUploads ==
  \/ \E u \in Upload : UploadStep(u)
  \/ \E e \in Editor, busy \in BOOLEAN :
       EditorStep(e, busy) /\ UNCHANGED <<parse, uploads>>

SpecUploads == InitUploads /\ [][NextUploads]_uploadsVars

-----------------------------------------------------------------------------
(* PARSED means complete: every row of the file matched a student, and each
   of them is a candidate that a document brought, whatever other uploads,
   also of the same file, and administrators do meanwhile. *)
ParsedIsComplete ==
  \A d \in Document :
    parse[d] = "PARSED" =>
      /\ d \notin Blocked
      /\ \A s \in Rows[d] : s \in OnRoster /\ source[s] # NoDocument

(* A candidate's source is a document that was processed and names it. *)
SourcesWereProcessed ==
  \A s \in Student :
    source[s] # NoDocument =>
      /\ s \in Rows[source[s]]
      /\ parse[source[s]] \notin {"ABSENT", "UPLOADED"}

=============================================================================
