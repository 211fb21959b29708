------------------------ MODULE MCDocumentControl ------------------------
(***************************************************************************)
(* The revisions of a document, and the search in what is released, for    *)
(* TLC.  They have no state in common, so one moves while the other is     *)
(* where it began.  Files are the contents in both.                        *)
(***************************************************************************)
EXTENDS DocumentControl, DocumentSearch, TLC

\* Two contents are never as near to a query as each other; the same one is.
Strict == {r \in [Texts -> {0, 1}] : \A t, u \in Texts : r[t] = r[u] => t = u}

DocumentsInit == Init /\ SearchInit

\* The first issue has any dates; the others are in force until they are obsolete.
Lasting ==
    \A i \in Issues : (\E j \in Issues : j < i) /\ issue[i] # Draft =>
        issue[i].effectiveAt = 0 /\ issue[i].expiresAt = Never

DocumentsNext ==
    \/ SearchInit /\ Next /\ UNCHANGED searchVars
    \/ Init /\ SearchNext /\ Lasting' /\ UNCHANGED vars

DocumentsSpec == DocumentsInit /\ [][DocumentsNext]_<<vars, searchVars>>

Symmetric ==
    Permutations(Approvers) \cup Permutations(Readers) \cup
    Permutations(Files) \cup Permutations(Handlers)
============================================================================
