-------------------------- MODULE AssetHierarchy --------------------------
(***************************************************************************)
(* The tree of the assets of one site, as the requests that create, edit   *)
(* and archive an asset (app/api/assets, lib/assets) and the CSV import    *)
(* (app/api/integrations/csv/assets) leave it.                             *)
(*                                                                         *)
(* An asset is known here by the code it has, which the site holds once.   *)
(* Rows and requests hold its id, so when a request changes the code, what *)
(* refers to the asset follows; what a file says does not.                 *)
(*                                                                         *)
(* A request reads and writes in two steps; the transaction of an import   *)
(* is one: rows are locked as they are written and assets are never        *)
(* deleted, so what comes between two of its writes might as well come     *)
(* before or after it.  Left out is a change of the code of a row between  *)
(* its look-up and its write, to that of a row still to come.              *)
(***************************************************************************)
EXTENDS Naturals, FiniteSets, SequencesExt

CONSTANTS
    Codes,
    Importers,      \* imports at work at a time
    Editors,        \* edits and archives at work at a time
    MaxRows,        \* bounds the rows of a file
    MaxRequests,    \* bounds the requests
    NoParent,
    Undefined       \* of a field a request leaves out

ASSUME CodesAssumption == IsFiniteSet(Codes) /\ NoParent \notin Codes
ASSUME UndefinedAssumption == Undefined \notin Codes \cup {NoParent}
ASSUME RequestsAssumption == MaxRequests \in Nat

VARIABLES
    asset,      \* the row of each code
    job,        \* what each handler is about, and what it has read
    requests    \* how many requests were made, for the bound

assetVars == <<asset, job, requests>>

Parents == Codes \cup {NoParent}

\* A file that was parsed: its rows in order, and the parent of each.  A
\* file without that column has none.
Rows == {rows \in SetToAllKPermutations(Codes) : Len(rows) \in 1..MaxRows}

parseAssetCsv ==
    UNION {{[rows |-> rows, parent |-> parent] :
                parent \in {<< >>} \cup {p \in [ToSet(rows) -> Parents] : \A c \in ToSet(rows) : p[c] # c}} :
              rows \in Rows}

Asset == [state: {"NONE", "ACTIVE", "ARCHIVED"}, parent: Parents]

NoRequest == [kind |-> "NONE"]

Handlers == Importers \cup Editors

Read == UNION {[active -> Codes] : active \in SUBSET Codes}

\* read: the active assets an import was checked against, by their codes then.
\* stale: whether another request wrote since.
Job == {NoRequest}
    \cup [kind: {"UPDATE"}, asset: Codes, parent: Parents \cup {Undefined}, code: Codes \cup {Undefined}]
    \cup [kind: {"ARCHIVE"}, asset: Codes]
    \cup [kind: {"IMPORT"}, file: parseAssetCsv, read: Read, stale: BOOLEAN]

AssetTypeOK ==
    /\ asset \in [Codes -> Asset]
    /\ job \in [Handlers -> Job]
    /\ requests \in 0..MaxRequests

Known == {c \in Codes : asset[c].state # "NONE"}
Active == {c \in Codes : asset[c].state = "ACTIVE"}
Parent == [c \in Codes |-> asset[c].parent]

ParentOf(parent, c) == IF c \in DOMAIN parent THEN parent[c] ELSE NoParent

\* The code n parents above c, NoParent above the top.
Above(parent, c) ==
    LET up[n \in 0..Cardinality(Codes)] ==
            IF n = 0 THEN c ELSE ParentOf(parent, up[n - 1])
    IN  up

\* The codes a visit that starts at c comes to.
Visited(parent, c) == {Above(parent, c)[n] : n \in 0..Cardinality(Codes)}

OnCycle(parent, c) == \E n \in 1..Cardinality(Codes) : Above(parent, c)[n] = c

\* Some assets were made before, each below an earlier one or at the top.
AssetInit ==
    /\ asset \in [Codes -> {[state |-> "NONE", parent |-> NoParent]} \cup
                           [state: {"ACTIVE"}, parent: Parents]]
    /\ \A c \in Codes : Parent[c] \in Known \cup {NoParent} /\ ~OnCycle(Parent, c)
    /\ job = [h \in Handlers |-> NoRequest]
    /\ requests = 0

---------------------------------------------------------------------------
(* What the validation of a file finds. *)

Named(file) == ToSet(file.rows)

\* The parents the import would leave, as the validation sees them: a parent
\* that is archived is none, and a new asset of a file without the column
\* has none.
parentByCode(file, active) ==
    [c \in active \cup Named(file) |->
        IF c \in DOMAIN file.parent THEN file.parent[c]
        ELSE IF c \in active /\ asset[c].parent \in active THEN asset[c].parent
        ELSE NoParent]

\* Mutant: a code an earlier visit has done counts as one of the trail.
ClosesAnywhere(up, n, done) ==
    /\ up[n] \in {up[m] : m \in 0..(n - 1)} \cup done
    /\ \A m \in 0..(n - 1) : up[m] \notin {up[k] : k \in 0..(m - 1)}

\* A visit comes to a code of its own trail after n steps, and before that to
\* none of its trail and to none an earlier visit has done.
Closes(up, n, done) ==
    /\ up[n] \in {up[m] : m \in 0..(n - 1)}
    /\ \A m \in 0..(n - 1) : up[m] \notin {up[k] : k \in 0..(m - 1)} \cup done

\* A cycle is an error of the row that closes it: of the code the visit has
\* come to, or else of the last one of the trail.  Where neither is a row
\* there is nothing to report the error at.
ASSET_HIERARCHY_CYCLE(file, parent) ==
    \E i \in DOMAIN file.rows, n \in 1..Cardinality(Codes) :
        LET up == Above(parent, file.rows[i])
            done == UNION {Visited(parent, file.rows[j]) : j \in 1..(i - 1)}
        IN  /\ up[n] # NoParent
            /\ Closes(up, n, done)
            /\ {up[n], up[n - 1]} \cap Named(file) # {}

PARENT_ASSET_NOT_FOUND(file, active) ==
    \E c \in DOMAIN file.parent : file.parent[c] \notin active \cup Named(file) \cup {NoParent}

importReferenceErrors(file, active) ==
    \/ PARENT_ASSET_NOT_FOUND(file, active)
    \/ ASSET_HIERARCHY_CYCLE(file, parentByCode(file, active))

\* Mutant: the rows as they come.
FileOrder(file) ==
    [c \in Named(file) |->
        {file.rows[i] : i \in {k \in DOMAIN file.rows : \A j \in 1..k : file.rows[j] # c}}]

\* The rows sorted before each.  A row is sorted by the first visit that comes
\* to it, and a visit sorts as it returns from the top: what it came to last
\* first.  (From a circle of rows it would not return; a file with one is
\* refused.)
sortRowsParentFirst(file) ==
    LET visit(i) == Above(file.parent, file.rows[i])
        sorts(c) == {i \in DOMAIN file.rows :
                        /\ c \in Visited(file.parent, file.rows[i])
                        /\ \A j \in 1..(i - 1) : c \notin Visited(file.parent, file.rows[j])}
        later(i, d, c) ==
            \A m, n \in 0..Cardinality(Codes) : visit(i)[m] = c /\ visit(i)[n] = d => m < n
    IN  [c \in Named(file) |->
            {d \in Named(file) :
                \E i \in sorts(d), k \in sorts(c) : i < k \/ (i = k /\ later(i, d, c))}]

\* The row of c written over what there is; its parent is found among the rows
\* before it and the assets of the validation.
ImportRow(file, read, c) ==
    [state  |-> IF asset[c].state = "NONE" THEN "ACTIVE" ELSE asset[c].state,
     parent |-> IF c \notin DOMAIN file.parent THEN asset[c].parent
                ELSE IF file.parent[c] \in sortRowsParentFirst(file)[c] THEN file.parent[c]
                ELSE IF file.parent[c] \in DOMAIN read THEN read[file.parent[c]]
                ELSE NoParent]

Imported(file, read) ==
    [c \in Codes |-> IF c \in Named(file) THEN ImportRow(file, read, c) ELSE asset[c]]

---------------------------------------------------------------------------

Start(h, j) ==
    /\ job[h] = NoRequest
    /\ requests < MaxRequests
    /\ requests' = requests + 1
    /\ job' = [job EXCEPT ![h] = j]
    /\ UNCHANGED asset

\* What a write leaves of the jobs: its own is done, imports at work are stale.
Outdated(written) ==
    [h \in Handlers |->
        IF h \in written THEN NoRequest
        ELSE IF job[h].kind = "IMPORT" THEN [job[h] EXCEPT !.stale = TRUE]
        ELSE job[h]]

\* POST of an asset.  Its parent may be archived; as no asset is deleted the
\* check and the write are one step.
createAsset(c, parent) ==
    /\ requests < MaxRequests
    /\ requests' = requests + 1
    /\ c \notin Known
    /\ parent \in Known \cup {NoParent}
    /\ asset' = [asset EXCEPT ![c] = [state |-> "ACTIVE", parent |-> parent]]
    /\ job' = Outdated({})

\* updateAssetLifecycle, its reads: a parent exists and is another asset.
assertAssetHierarchyIntegrity(h, c, parent, code) ==
    /\ c \in Active
    /\ parent \in (Known \ {c}) \cup {NoParent, Undefined}
    /\ Start(h, [kind |-> "UPDATE", asset |-> c, parent |-> parent, code |-> code])

\* c has the code d from now on, which no other asset has.
Recoding(c, d) ==
    [x \in Parents \cup {Undefined} |-> IF x = c THEN d ELSE IF x = d THEN c ELSE x]

Recoded(rows, to) == [x \in Codes |-> [rows[to[x]] EXCEPT !.parent = to[rows[to[x]].parent]]]

\* The assets a request holds, under their new codes.
Following(j, to) ==
    IF j.kind = "IMPORT" THEN [j EXCEPT !.read = [c \in DOMAIN j.read |-> to[j.read[c]]]]
    ELSE IF j.kind = "ARCHIVE" THEN [j EXCEPT !.asset = to[j.asset]]
    ELSE IF j.kind = "UPDATE" THEN [j EXCEPT !.asset = to[j.asset], !.parent = to[j.parent]]
    ELSE j

\* A code is free, or the asset's own.
updateAssetLifecycle(h) ==
    LET c == job[h].asset
        d == IF job[h].code = Undefined THEN c ELSE job[h].code
        moved == IF job[h].parent = Undefined THEN asset
                 ELSE [asset EXCEPT ![c].parent = job[h].parent]
    IN  /\ job[h].kind = "UPDATE"
        /\ d \notin Known \ {c}
        /\ asset' = Recoded(moved, Recoding(c, d))
        /\ job' = [g \in Handlers |-> Following(Outdated({h})[g], Recoding(c, d))]
        /\ UNCHANGED requests

\* archiveAsset, its reads: no active asset has it as its parent.
CountActiveChildren(h, c) ==
    /\ c \in Active
    /\ \A d \in Active : asset[d].parent # c
    /\ Start(h, [kind |-> "ARCHIVE", asset |-> c])

CommitArchive(h) ==
    /\ job[h].kind = "ARCHIVE"
    /\ asset' = [asset EXCEPT ![job[h].asset].state = "ARCHIVED"]
    /\ job' = Outdated({h})
    /\ UNCHANGED requests

\* POST of a file: the active assets are read, and the file is checked
\* against them.
ValidateImport(h, file) ==
    /\ Start(h, [kind |-> "IMPORT", file |-> file, read |-> [c \in Active |-> c], stale |-> FALSE])
    /\ ~importReferenceErrors(file, Active)

applyImport(h) ==
    /\ job[h].kind = "IMPORT"
    /\ asset' = Imported(job[h].file, job[h].read)
    /\ job' = Outdated({h})
    /\ UNCHANGED requests

\* The mode of the import was "validate", the code an edit asks for is taken, or
\* the process of the request died.
Leave(h) ==
    /\ job[h] # NoRequest
    /\ job' = [job EXCEPT ![h] = NoRequest]
    /\ UNCHANGED <<asset, requests>>

EditStep(h) ==
    \/ \E c \in Codes, parent \in Parents \cup {Undefined}, code \in Codes \cup {Undefined} :
          assertAssetHierarchyIntegrity(h, c, parent, code)
    \/ updateAssetLifecycle(h)
    \/ \E c \in Codes : CountActiveChildren(h, c)
    \/ CommitArchive(h)

ImportStep(h) ==
    \/ \E file \in parseAssetCsv : ValidateImport(h, file)
    \/ applyImport(h)

AssetNext ==
    \/ \E c \in Codes, parent \in Parents : createAsset(c, parent)
    \/ \E h \in Editors : EditStep(h)
    \/ \E h \in Importers : ImportStep(h)
    \/ \E h \in Handlers : Leave(h)

AssetSpec == AssetInit /\ [][AssetNext]_assetVars

---------------------------------------------------------------------------

\* No active asset is below an archived one.  The archive of an asset checks
\* it, but nothing else does.
ArchivedIsEmpty == \A c \in Active : asset[c].parent \in Active \cup {NoParent}

Imports(h) == job[h].kind = "IMPORT" /\ asset' # asset /\ job'[h] = NoRequest

\* What a file says of an asset that is no row of it is meant of the one that
\* had the code when the file was checked.
Meant(j, p) == IF p \in DOMAIN j.read \ Named(j.file) THEN j.read[p] ELSE p

\* Whatever was written between the check of a file and its import, changes of
\* codes included, every row ends below the parent it names: the row of that
\* code, rows of new assets too, or else the asset that had it when the file was
\* checked, whatever code that has by now (sortRowsParentFirst, importedIds and
\* existingByCode in applyImport; docs/INTEGRATIONS.md: "ordered parent-first").
RowsFindTheirParents(h) ==
    Imports(h) =>
        \A c \in DOMAIN job[h].file.parent :
            asset'[c].parent = Meant(job[h], job[h].file.parent[c])

\* An import that is checked against what it is applied to closes a cycle
\* only around two assets one below the other that are both no rows of the
\* file: any other is found, whatever the order of the rows and wherever the
\* visit enters it (visit in importReferenceErrors).
CyclesAreFound(h) ==
    Imports(h) /\ ~job[h].stale /\ ArchivedIsEmpty =>
        \A c \in Named(job[h].file) :
            LET up == Above(Parent', c) IN
            OnCycle(Parent', c) /\ ~OnCycle(Parent, c) =>
                \E n \in 1..Cardinality(Codes) :
                    {up[n - 1], up[n]} \cap Named(job[h].file) = {}

\* However a file is ordered and whatever is written beside its import, what it
\* names comes to be where it says, and it closes no other cycle.
ImportsKeepTheirTrees ==
    [][\A h \in Handlers : RowsFindTheirParents(h) /\ CyclesAreFound(h)]_assetVars

\* What GET exports: the active assets, each with the code of its parent.
Export(rows) ==
    [rows |-> rows, parent |-> [c \in Active |-> asset[c].parent]]

\* A site can import its own export, whatever the order of the rows, exactly
\* if its active assets hang together as trees: neither below an archived
\* asset nor in a cycle; and the import leaves every asset where it was.
ExportComesBack ==
    \A rows \in SetToSeqs(Active) :
        (\A h \in Handlers : job[h] = NoRequest) /\ rows # << >> =>
            /\ ~importReferenceErrors(Export(rows), Active) <=>
                 ArchivedIsEmpty /\ \A c \in Active : ~OnCycle(Parent, c)
            /\ ~importReferenceErrors(Export(rows), Active) =>
                 Imported(Export(rows), [c \in Active |-> c]) = asset
============================================================================
