------------------------------ MODULE MCDocuments -----------------------------
(***************************************************************************)
(* The pages of documents for TLC: the upload page and its form, the list, *)
(* the views of a document, the import of an outline, the comparison of    *)
(* two files, and the permissions of the spaces.  An initial state chooses *)
(* one of them and the others rest.  The service is common to most of      *)
(* them: each page meets documents of its own age.                         *)
(***************************************************************************)
EXTENDS UploadPage, UploadForm, DocumentList, DocumentViews, OutlineImport,
        FileCompare, SpacePermissions, TLC

CONSTANTS d1, d2, c1, c2, f1, f2, f3

VARIABLE screen   \* what the portal shows

Screen == {"upload", "form", "list", "views", "outline", "compare",
           "permissions"}

\* The documents are new to the upload page, and registered for the others.
FirstStatuses ==
    CASE screen = "upload" -> {[d \in Doc |-> "none"]}
      [] screen = "list"   -> [Doc -> {"DRAFT", "PENDING", "FAILED"}]
      [] screen = "views"  -> {[d \in Doc |-> "PROCESSING"]}
      [] OTHER             -> {[d \in Doc |-> "READY"]}

Init ==
    /\ screen \in Screen
    /\ status \in FirstStatuses
    /\ UploadFresh
    /\ FormInit
    /\ ListFresh
    /\ ViewFresh
    /\ screen = "views" \/ view = "page"
    /\ OutlineInit
    /\ CompareInit
    /\ PermissionsInit

OnUpload ==
    /\ screen = "upload"
    /\ UNCHANGED <<screen, formVars, listPageVars, viewPageVars, outlineVars, compareVars,
                  permissionVars>>
    /\ UploadNext

OnForm ==
    /\ screen = "form"
    /\ UNCHANGED <<screen, status, pageVars, listPageVars, viewPageVars,
                  outlineVars, compareVars,
                  permissionVars>>
    /\ FormNext

\* Bound: calls of the list cross once a document has been deleted and has left
\* the list; as long as both are there, one call is made at a time.
CallsCross == \E d \in Doc : status[d] = "gone" /\ d \notin Listed

OneCall == \A c, e \in Slot : "none" \in {call[c].op, call[e].op} \/ c = e

OnList ==
    /\ screen = "list"
    /\ UNCHANGED <<screen, pageVars, formVars, viewPageVars, outlineVars, compareVars,
                  permissionVars>>
    /\ ListNext
    /\ CallsCross \/ OneCall'

OnViews ==
    /\ screen = "views"
    /\ UNCHANGED <<screen, pageVars, formVars, listPageVars, outlineVars, compareVars,
                  permissionVars>>
    /\ ViewNext

OnOutline ==
    /\ screen = "outline"
    /\ UNCHANGED <<screen, status, pageVars, formVars, listPageVars,
                  viewPageVars, compareVars, permissionVars>>
    /\ OutlineNext

OnCompare ==
    /\ screen = "compare"
    /\ UNCHANGED <<screen, status, pageVars, formVars, listPageVars,
                  viewPageVars, outlineVars, permissionVars>>
    /\ CompareNext

OnPermissions ==
    /\ screen = "permissions"
    /\ UNCHANGED <<screen, status, pageVars, formVars, listPageVars,
                  viewPageVars, outlineVars, compareVars>>
    /\ PermissionsNext

Next ==
    \/ OnUpload \/ OnForm \/ OnList \/ OnViews
    \/ OnOutline \/ OnCompare \/ OnPermissions

vars == <<screen, status, pageVars, formVars, listPageVars, viewPageVars,
          outlineVars, compareVars,
                  permissionVars>>

Spec == Init /\ [][Next]_vars

\* The documents and the calls differ by name only.
Names == Permutations({d1, d2}) \union Permutations({c1, c2})

\* Skips of levels forwards and backwards, two top headings.
MCOutlines == {<<2, 3, 4, 3, 2>>, <<3, 1, 2, 4>>, <<1>>}

\* Two files with the same words: a line is indented, and a blank line is added.
\* The third has a line of them.
MCText  == f1 :> <<"a", "b">> @@ f2 :> <<"a", "  b", "">> @@ f3 :> <<"b">>
MCWords == "a" :> <<"x">> @@ "b" :> <<"x", "y">> @@ "  b" :> <<"x", "y">> @@ "" :> <<>>

-----------------------------------------------------------------------------
DocumentPagesTypeOK ==
    /\ screen \in Screen
    /\ screen = "upload" => UploadTypeOK
    /\ screen = "list" => ListTypeOK
    /\ screen = "views" => ViewTypeOK
    /\ screen = "form" => FormTypeOK
    /\ screen = "outline" => OutlineTypeOK
    /\ screen = "compare" => CompareTypeOK
    /\ screen = "permissions" => PermissionsTypeOK
=============================================================================
