---------------------------- MODULE StoredFiles ----------------------------
(***************************************************************************)
(* The files behind the records of the system: the file of a document      *)
(* revision (documents/files.ts), quality evidence (quality/evidence.ts)   *)
(* and photos of work orders (attachments/upload/route.ts).  An object is  *)
(* put into a store that knows no transactions (storage.ts), and then a    *)
(* row of the database is made to name it; a failure of the second is made *)
(* good by deleting the object again.  Each call of the store and each     *)
(* statement is a step, and a process may die between any two.             *)
(*                                                                         *)
(* The key of an object is made of the id of its holder and the checksum   *)
(* of its content, so that the same content attached again to the same     *)
(* revision has the same key.  The id of a piece of evidence or of a photo *)
(* is new with every upload.                                               *)
(***************************************************************************)
EXTENDS Naturals, FiniteSets

CONSTANTS
    Drafts,     \* document revisions
    Records,    \* ids of evidence and photos
    Contents,   \* contents of files
    Uploaders,  \* processes that serve a request
    NoFile

Holders == Drafts \cup Records
ObjectKeys == Holders \X Contents

ASSUME FilesAssumption ==
    /\ Drafts \cap Records = {}
    /\ NoFile \notin ObjectKeys

VARIABLES
    object,    \* what the store has under a key
    names,     \* the key a holder's row names
    upload,    \* what a process is at
    begun,     \* history: the keys requests were made for
    doubtful,  \* history: the keys attached again, or whose row or audit row failed
    left       \* history: the keys nobody will name or delete any more

fileVars == <<object, names, upload, begun, doubtful, left>>

\* What a process has read and made: the key it puts or gets, and the key the
\* row named when it was read.
Uploads == [at : {"put", "row", "audit", "compensate", "delete"},
            key : ObjectKeys, old : ObjectKeys \cup {NoFile}]
Readings == [at : {"get", "missing"}, key : ObjectKeys, old : {NoFile}]
NoUpload == [at |-> "idle", key |-> NoFile, old |-> NoFile]

FilesTypeOK ==
    /\ object \in [ObjectKeys -> {"absent", "whole", "broken"}]
    /\ names \in [Holders -> ObjectKeys \cup {NoFile}]
    /\ upload \in [Uploaders -> Uploads \cup Readings \cup {NoUpload}]
    /\ begun \subseteq ObjectKeys
    /\ doubtful \subseteq begun
    /\ left \subseteq ObjectKeys

FilesInit ==
    /\ object = [k \in ObjectKeys |-> "absent"]
    /\ names = [x \in Holders |-> NoFile]
    /\ upload = [h \in Uploaders |-> NoUpload]
    /\ begun = {}
    /\ doubtful = {}
    /\ left = {}

-----------------------------------------------------------------------------
(* The holder of a key, and steps of a process.                            *)
Holder(k) == k[1]

UploadAt(h, place) == upload[h].at = place

Go(h, place) == upload' = [upload EXCEPT ![h].at = place]

Leave(h) == upload' = [upload EXCEPT ![h] = NoUpload]

\* The old object, where it is another one than the new.
Replaced(h) == {upload[h].old} \ {upload[h].key, NoFile}

\* Fault: what the row names when the object is deleted.
NamedNow(h) ==
    (IF UploadAt(h, "compensate") THEN {upload[h].key} ELSE {names[Holder(upload[h].key)]}) \ {NoFile}

\* The object that is to be deleted: the new one if its row failed, the one
\* that was replaced if all went well.
Victim(h) == IF UploadAt(h, "compensate") THEN {upload[h].key} ELSE Replaced(h)

\* The objects a process has still to name or to delete.
Owed(h) ==
    CASE upload[h].at \in {"row", "compensate"} -> {upload[h].key}
      [] upload[h].at \in {"audit", "delete"} -> Replaced(h)
      [] OTHER -> {}

-----------------------------------------------------------------------------
(* Attaching a file.                                                       *)

\* The holder is read; evidence and photos get a new id.  That the holder still
\* takes files (a draft, an event that is not closed, an order at work) is asked
\* here only and may change right after, so it decides nothing of the rest.
BeginUpload(h, x, c) ==
    /\ upload[h] = NoUpload
    /\ x \in Records => \A k \in begun : Holder(k) # x
    /\ upload' = [upload EXCEPT ![h] = [at |-> "put", key |-> <<x, c>>, old |-> names[x]]]
    /\ begun' = begun \cup {<<x, c>>}
    /\ doubtful' = IF <<x, c>> \in begun THEN doubtful \cup {<<x, c>>} ELSE doubtful
    /\ UNCHANGED <<object, names, left>>

PutObject(h) ==
    /\ UploadAt(h, "put")
    /\ object' = [object EXCEPT ![upload[h].key] = "whole"]
    /\ Go(h, "row")
    /\ UNCHANGED <<names, begun, doubtful, left>>

\* A put that fails or times out may have written all, a part or nothing, and
\* nobody cleans up.
PutFails(h) ==
    /\ UploadAt(h, "put")
    /\ \E o \in {object[upload[h].key], "whole", "broken"} :
           object' = [object EXCEPT ![upload[h].key] = o]
    /\ left' = left \cup {upload[h].key}
    /\ Leave(h)
    /\ UNCHANGED <<names, begun, doubtful>>

\* The row names the new object, whatever it named or is by now; a name that
\* nobody means to delete is lost.
NameObject(h, known) ==
    LET x == Holder(upload[h].key)
    IN  /\ names' = [names EXCEPT ![x] = upload[h].key]
        /\ left' = left \cup ({names[x]} \ (known \cup {upload[h].key, NoFile}))

\* The audit row of a revision is a statement of its own; evidence is the
\* audit row, and a photo is written with it in a transaction.
WriteFileRow(h) ==
    /\ UploadAt(h, "row")
    /\ NameObject(h, {upload[h].old})
    /\ IF Holder(upload[h].key) \in Drafts THEN Go(h, "audit") ELSE Leave(h)
    /\ UNCHANGED <<object, begun, doubtful>>

WriteFileAudit(h) ==
    /\ UploadAt(h, "audit")
    /\ IF Replaced(h) = {} THEN Leave(h) ELSE Go(h, "delete")
    /\ UNCHANGED <<object, names, begun, doubtful, left>>

\* The statement is reported as failed.  The one of the row may have been
\* carried out; when that of the audit row fails, the row is written.
FileRowFails(h) ==
    /\ \/ UploadAt(h, "row") /\ UNCHANGED <<names, left>>
       \/ UploadAt(h, "row") /\ NameObject(h, {})
       \/ UploadAt(h, "audit") /\ left' = left \cup Replaced(h) /\ UNCHANGED names
    /\ doubtful' = doubtful \cup {upload[h].key}
    /\ Go(h, "compensate")
    /\ UNCHANGED <<object, begun>>

\* Deleting fails silently.
DeleteObject(h) ==
    /\ upload[h].at \in {"compensate", "delete"}
    /\ \/ /\ object' = [k \in ObjectKeys |-> IF k \in Victim(h) THEN "absent" ELSE object[k]]
          /\ UNCHANGED left
       \/ /\ left' = left \cup Victim(h)
          /\ UNCHANGED object
    /\ Leave(h)
    /\ UNCHANGED <<names, begun, doubtful>>

-----------------------------------------------------------------------------
(* Reading a file: the row, then the object, compared with its checksum.   *)
ReadFileName(h, x) ==
    /\ upload[h] = NoUpload
    /\ names[x] # NoFile
    /\ upload' = [upload EXCEPT ![h] = [at |-> "get", key |-> names[x], old |-> NoFile]]
    /\ UNCHANGED <<object, names, begun, doubtful, left>>

GetObject(h) ==
    /\ UploadAt(h, "get")
    /\ IF object[upload[h].key] = "whole" THEN Leave(h) ELSE Go(h, "missing")
    /\ UNCHANGED <<object, names, begun, doubtful, left>>

ReportMissing(h) ==
    /\ UploadAt(h, "missing")
    /\ Leave(h)
    /\ UNCHANGED <<object, names, begun, doubtful, left>>

-----------------------------------------------------------------------------
\* The process dies.
Die(h) ==
    /\ upload[h] # NoUpload
    /\ left' = left \cup Owed(h)
    /\ Leave(h)
    /\ UNCHANGED <<object, names, begun, doubtful>>

UploadStep(h) ==
    \/ PutObject(h) \/ PutFails(h)
    \/ WriteFileRow(h) \/ WriteFileAudit(h) \/ FileRowFails(h)
    \/ DeleteObject(h)

ReadFileStep(h) ==
    \/ \E x \in Holders : ReadFileName(h, x)
    \/ GetObject(h) \/ ReportMissing(h)

FilesNext ==
    \E h \in Uploaders :
        \/ \E x \in Holders, c \in Contents : BeginUpload(h, x, c)
        \/ UploadStep(h)
        \/ ReadFileStep(h)
        \/ Die(h)

FilesSpec == FilesInit /\ [][FilesNext]_fileVars

-----------------------------------------------------------------------------
\* A file that is named is in the store, however uploads of the holder overlap
\* and wherever processes die.  The exceptions are a content attached to the
\* revision more than once, which shares its key with what the others delete,
\* and a key whose row or audit row was reported as failed, because what was
\* reported as failed may have been written (files.ts:110).
FilesAreThere ==
    \A x \in Holders :
        names[x] \in {NoFile} \cup doubtful \/ object[names[x]] = "whole"

\* So a reader misses a file only if it was replaced meanwhile.
ReadersAreServed ==
    \A h \in Uploaders :
        UploadAt(h, "missing") =>
            \/ names[Holder(upload[h].key)] # upload[h].key
            \/ upload[h].key \in doubtful

\* An object that no row names is one a process has still to name or delete,
\* unless a put or a deletion of it failed, its process died, or its name was
\* overwritten by an upload that had not read it.
NothingIsLeftOver ==
    \A k \in ObjectKeys :
        \/ object[k] = "absent"
        \/ k \in left
        \/ \E x \in Holders : names[x] = k
        \/ \E h \in Uploaders : k \in Owed(h)

\* What the store and the rows owe each other.
StoreMatchesRows == FilesAreThere /\ ReadersAreServed /\ NothingIsLeftOver
=============================================================================
