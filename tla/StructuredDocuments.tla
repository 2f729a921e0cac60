------------------------- MODULE StructuredDocuments -------------------------
(***************************************************************************)
(* Uploads of master data: price lists, stock, customers and history       *)
(* (app/structured_documents/service.py), their vectors                    *)
(* (app/documents/service.py) and the endpoint with its claim              *)
(* (upload_document of app/main.py).                                       *)
(*                                                                         *)
(* A call is one request; its id is also the id of the document it may     *)
(* store.  The transaction of a call is shown statement by statement, as   *)
(* PostgreSQL runs it at READ COMMITTED: a statement sees what was         *)
(* committed when it started, waits for the rows another open transaction  *)
(* changed, and then looks at them again.  What a call has written is kept *)
(* in its own record until it commits.                                     *)
(***************************************************************************)
EXTENDS Naturals, FiniteSets

CONSTANTS
  Calls,    \* upload requests, and the documents they store
  Keys,     \* Idempotency-Keys
  Files,    \* files somebody uploads
  Flagged,  \* tables whose rows have is_active; the rows of others are deleted
  Absent

CustomerTable == "customer_import_staging"

\* catalog: the upload says that it is a product catalog; of a file that is no
\* table, table is Absent.  refers: the customers its rows name, lists: those it
\* introduces.
ASSUME FilesAssumption ==
  /\ \A f \in Files : DOMAIN f = {"name", "table", "version", "content", "catalog",
                                  "refers", "lists"} /\ f.catalog \in BOOLEAN
  /\ \A f, g \in Files : f.name = g.name => f.table = g.table /\ f.catalog = g.catalog
  /\ \A f, g \in Files :
        <<f.name, f.version, f.content>> = <<g.name, g.version, g.content>> => f = g
  /\ CustomerTable \in Flagged /\ Absent \notin Calls /\ Absent \notin Files /\ Absent \notin Flagged

VARIABLES
  document,  \* business_documents, committed
  rows,      \* the rows a document was the source of: "none", "active", "inactive"
  indexed,   \* documents with vectors in Qdrant
  upload,    \* the requests
  answered,  \* processed_events of the endpoint
  beside     \* the documents committed while the transaction of a call was open

importVars == <<document, rows, indexed, upload, answered, beside>>

-----------------------------------------------------------------------------
NoUpload == [pc |-> "idle", key |-> Absent, file |-> Absent, seen |-> {}, previous |-> {},
         retired |-> {}, replaced |-> {}, result |-> Absent]

InTransaction == {"version", "previous", "retire", "retiring", "replace", "replacing",
                  "insert", "commit"}
Steps == InTransaction \cup {"idle", "parse", "vectors", "respond", "refuse", "over"}

ImportTypeOK ==
    /\ document \in [Calls -> [stored : BOOLEAN, active : BOOLEAN]]
    /\ rows \in [Calls -> {"none", "active", "inactive"}]
    /\ indexed \subseteq Calls
    /\ upload \in [Calls -> [pc : Steps, key : Keys \cup {Absent}, file : Files \cup {Absent},
                             seen : SUBSET Calls, previous : SUBSET Calls,
                             retired : SUBSET Calls, replaced : SUBSET Calls,
                             result : Calls \cup {Absent}]]
    /\ answered \in [Keys -> [status : {"none", "processing", "completed", "failed"},
                              name : {f.name : f \in Files} \cup {Absent},
                              version : {f.version : f \in Files} \cup {Absent},
                              result : Calls \cup {Absent}]]
    /\ beside \in [Calls -> SUBSET Calls]

ImportInit ==
    /\ document = [c \in Calls |-> [stored |-> FALSE, active |-> FALSE]]
    /\ rows = [c \in Calls |-> "none"]
    /\ indexed = {}
    /\ upload = [c \in Calls |-> NoUpload]
    /\ answered = [k \in Keys |-> [status |-> "none", name |-> Absent, version |-> Absent,
                                   result |-> Absent]]
    /\ beside = [c \in Calls |-> {}]

File(c) == upload[c].file
Stored(name) == {d \in Calls : document[d].stored /\ File(d).name = name}
Active(name) == {d \in Stored(name) : document[d].active}
InEffect(table) == {d \in Calls : rows[d] = "active" /\ File(d).table = table}
Importing == {c \in Calls : upload[c].pc \in InTransaction}

\* What a statement of c is about to change, another transaction has changed.
Waits(c, part) == \E o \in Importing \ {c} : upload[o][part] \cap upload[c].seen # {}

Moves(c, from, to) == upload[c].pc = from /\ upload' = [upload EXCEPT ![c].pc = to]

\* The transaction of c is over, and what it saw is forgotten.
Leaves(c, from, to, result) ==
    /\ upload[c].pc = from
    /\ upload' = [upload EXCEPT ![c] = [NoUpload EXCEPT !.pc = to, !.key = upload[c].key,
                                              !.file = upload[c].file, !.result = result]]

-----------------------------------------------------------------------------
(* The request *)

\* The claim is for the name and the version, not for what is in the file.  A
\* key that was used for others is refused, one that was completed is answered
\* again; one that is still processing is taken over when it has grown stale,
\* which a slow call may live to see.
UploadDocument(c, k, f) ==
    LET a == answered[k]
        same == <<a.name, a.version>> = <<f.name, f.version>>
    IN  /\ upload[c].pc = "idle"
        /\ \/ /\ a.status # "none" /\ (a.status = "completed" \/ ~same)
              /\ upload' = [upload EXCEPT ![c].pc = "over"]
              /\ UNCHANGED answered
           \/ /\ a.status = "none" \/ (a.status \in {"failed", "processing"} /\ same)
              /\ upload' = [upload EXCEPT ![c] = [NoUpload EXCEPT !.pc = "parse", !.key = k, !.file = f]]
              /\ answered' = [answered EXCEPT ![k].status = "processing", ![k].name = f.name,
                                              ![k].version = f.version]
        /\ UNCHANGED <<document, rows, indexed, beside>>

\* The file is stored and read; its name, columns and values may be wrong.
Parse(c) ==
    /\ \/ Moves(c, "parse", "version") /\ File(c).table # Absent
       \/ Moves(c, "parse", "vectors") /\ File(c).table = Absent
       \/ Moves(c, "parse", "refuse")
    /\ UNCHANGED <<document, rows, indexed, answered, beside>>

MutantAfterImport(c) == IF File(c).catalog /\ upload[c].pc = "commit" THEN "vectors" ELSE "respond"
AfterImport(c) == IF File(c).catalog THEN "vectors" ELSE "respond"

\* A version that was imported before is left as it is, also when a later one
\* has replaced it.
FindVersion(c) ==
    LET same == {d \in Stored(File(c).name) : File(d).version = File(c).version}
    IN  /\ upload[c].pc = "version"
        /\ \/ same = {} /\ Moves(c, "version", "previous")
           \/ /\ \E d \in same : File(d).content # File(c).content
              /\ Leaves(c, "version", "refuse", Absent)
           \/ \E d \in same :
                 /\ File(d).content = File(c).content
                 /\ Leaves(c, "version", AfterImport(c), d)
        /\ UNCHANGED <<document, rows, indexed, answered, beside>>

FindPrevious(c) ==
    /\ upload[c].pc = "previous"
    /\ upload' = [upload EXCEPT ![c].pc = "retire", ![c].previous = Active(File(c).name)]
    /\ UNCHANGED <<document, rows, indexed, answered, beside>>

StartRetiring(c) ==
    /\ upload[c].pc = "retire"
    /\ upload' = [upload EXCEPT ![c].pc = "retiring", ![c].seen = Active(File(c).name)]
    /\ UNCHANGED <<document, rows, indexed, answered, beside>>

RetireDocuments(c) ==
    /\ upload[c].pc = "retiring" /\ ~Waits(c, "retired")
    /\ upload' = [upload EXCEPT ![c].pc = "replace",
                                ![c].retired = {d \in upload[c].seen : document[d].active}]
    /\ UNCHANGED <<document, rows, indexed, answered, beside>>

\* Rows that have the flag lose it, whichever file they came from; others are
\* deleted with the documents that were found before.
MutantToReplace(c) ==
    {d \in upload[c].previous : rows[d] = "active"}
ToReplace(c) ==
    IF File(c).table \in Flagged THEN InEffect(File(c).table)
    ELSE {d \in upload[c].previous : rows[d] = "active"}

StartReplacing(c) ==
    /\ upload[c].pc = "replace"
    /\ upload' = [upload EXCEPT ![c].pc = "replacing", ![c].seen = ToReplace(c)]
    /\ UNCHANGED <<document, rows, indexed, answered, beside>>

ReplaceRows(c) ==
    /\ upload[c].pc = "replacing" /\ ~Waits(c, "replaced")
    /\ upload' = [upload EXCEPT ![c].pc = "insert",
                                ![c].replaced = {d \in upload[c].seen : rows[d] = "active"}]
    /\ UNCHANGED <<document, rows, indexed, answered, beside>>

Twins(c) == {o \in Calls : File(o) # Absent /\ File(o).name = File(c).name
                                          /\ File(o).version = File(c).version}

\* The key over name and version waits for another insert of the same.  History
\* is only taken for customers that were imported.
InsertDocument(c) ==
    LET known == UNION {File(d).lists : d \in InEffect(CustomerTable)}
    IN  /\ upload[c].pc = "insert"
        /\ \A o \in Twins(c) \ {c} : upload[o].pc # "commit"
        /\ \/ /\ \E d \in Twins(c) : document[d].stored
              /\ Leaves(c, "insert", "over", Absent)
           \/ /\ \A d \in Twins(c) : ~document[d].stored
              /\ \/ File(c).refers \subseteq known /\ Moves(c, "insert", "commit")
                 \/ ~(File(c).refers \subseteq known) /\ Leaves(c, "insert", "refuse", Absent)
        /\ UNCHANGED <<document, rows, indexed, answered, beside>>

Commit(c) ==
    LET u == upload[c]
    IN  /\ Leaves(c, "commit", AfterImport(c), c)
        /\ document' = [d \in Calls |->
              IF d = c THEN [stored |-> TRUE, active |-> TRUE]
              ELSE IF d \in u.retired THEN [document[d] EXCEPT !.active = FALSE] ELSE document[d]]
        /\ rows' = [d \in Calls |->
              IF d = c THEN "active"
              ELSE IF d \notin u.replaced THEN rows[d]
              ELSE IF File(c).table \in Flagged THEN "inactive" ELSE "none"]
        /\ beside' = [o \in Calls |->
              IF o \in Importing \ {c} THEN beside[o] \cup {c} ELSE beside[o]]
        /\ UNCHANGED <<indexed, answered>>

UpsertChunks(c) ==
    /\ Moves(c, "vectors", "respond")
    /\ indexed' = indexed \cup {c}
    /\ UNCHANGED <<document, rows, answered, beside>>

CompleteRequest(c) ==
    /\ Moves(c, "respond", "over")
    /\ answered' = [answered EXCEPT
          ![upload[c].key].status = "completed",
          ![upload[c].key].result = IF upload[c].result = Absent THEN c ELSE upload[c].result]
    /\ UNCHANGED <<document, rows, indexed, beside>>

FailRequest(c) ==
    /\ Moves(c, "refuse", "over")
    /\ answered' = [answered EXCEPT ![upload[c].key].status = "failed"]
    /\ UNCHANGED <<document, rows, indexed, beside>>

\* A call dies, or meets an error nobody catches: what it has not committed is
\* gone, and its claim stays as it is.
Crash(c) ==
    /\ upload[c].pc \notin {"idle", "over"}
    /\ Leaves(c, upload[c].pc, "over", Absent)
    /\ UNCHANGED <<document, rows, indexed, answered, beside>>

Ingest(c) ==
    \/ Parse(c) \/ FindVersion(c) \/ FindPrevious(c) \/ StartRetiring(c) \/ RetireDocuments(c)
    \/ StartReplacing(c) \/ ReplaceRows(c) \/ InsertDocument(c) \/ Commit(c) \/ UpsertChunks(c)

ImportNext ==
    \E c \in Calls :
        \/ \E k \in Keys, f \in Files : UploadDocument(c, k, f)
        \/ Ingest(c) \/ CompleteRequest(c) \/ FailRequest(c) \/ Crash(c)

ImportSpec == ImportInit /\ [][ImportNext]_importVars

-----------------------------------------------------------------------------
(* Properties *)

\* Rows in effect belong to a document in effect, however uploads overlap: what
\* the agents read can be traced to a version that was not replaced.  Of tables
\* without the flag this is not so, see the README (the two updates of ingest).
RowsFollowTheirDocument ==
    \A d \in Calls :
        rows[d] = "active" /\ File(d).table \in Flagged => document[d].stored /\ document[d].active

\* Two files feed one table at the same time, so that the agents count both
\* stocks, only if the two were imported at the same time: an import replaces
\* all that was committed before it began (ingest, feasibility_indexes).
OneFileInEffect ==
    \A d, e \in Calls :
        /\ d # e /\ rows[d] = "active" /\ rows[e] = "active"
        /\ File(d).table = File(e).table /\ File(d).table \in Flagged
        => d \in beside[e] \/ e \in beside[d]

\* An answer of success is true, also when it is replayed or given to a repeated
\* upload: the document it names is stored, and a product catalog or a text can
\* be found (complete_request after ingest, already_imported).
AnswersAreTrue ==
    \A k \in Keys :
        answered[k].status = "completed" =>
            LET d == answered[k].result
            IN  /\ File(d).table # Absent => document[d].stored
                /\ File(d).table = Absent \/ File(d).catalog =>
                      \E e \in indexed : File(e) = File(d)

\* What is read from uploads is what they stand for (upload_document, ingest).
ImportsInv == ImportTypeOK /\ RowsFollowTheirDocument /\ AnswersAreTrue
=============================================================================
