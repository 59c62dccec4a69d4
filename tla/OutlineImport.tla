---------------------------- MODULE OutlineImport -----------------------------
(***************************************************************************)
(* The import of a Markdown outline (spaces/import): the headings are      *)
(* parsed into a tree, and one space is created for each heading, parents  *)
(* first, one call at a time.                                              *)
(*                                                                         *)
(* An outline is the sequence of the levels of its headings; a heading is  *)
(* its index.  A space is the import it was created by and its heading.    *)
(***************************************************************************)
EXTENDS Naturals, Sequences, FiniteSetsExt

CONSTANTS
    Outline,     \* the outlines the files can hold
    Import,      \* identities of imports, so a bound on their number
    MaxReads     \* bound on the files being read at a time

ASSUME OutlineAssumption ==
    /\ Outline \subseteq Seq(1 .. 4) /\ <<>> \notin Outline
    /\ MaxReads \in Nat

VARIABLES
    step,          \* "upload", "preview", "importing" or "done"
    outlineNodes,  \* the parsed outline; <<>> when there is none
    reading,       \* FileReaders under way, as a sequence of what they will read
    imports,       \* what each import has done
    progress,      \* the number shown
    importResult,  \* the import whose result is shown, in a set
    spaceParent,   \* the server's spaces, and the parent of each
    readCrossed    \* history: an import began while another file was being read

outlineVars == <<step, outlineNodes, reading, imports, progress, importResult,
                 spaceParent, readCrossed>>

-----------------------------------------------------------------------------
(* parseMarkdownOutline                                                    *)

\* "#" is the title of the outline, and the stack does not see it.
Headings(o) == {i \in DOMAIN o : o[i] # 1}

\* The loop stops at a heading of the same level.
PopsDeeperOnly(o, stack, level) ==
    SubSeq(stack, 1, Max({0} \union {k \in DOMAIN stack : o[stack[k]] <= level}))

\* What the while loop leaves of a stack for a heading of this level.
Popped(o, stack, level) ==
    SubSeq(stack, 1, Max({0} \union {k \in DOMAIN stack : o[stack[k]] < level}))

StackBefore(o) ==
    LET s[i \in 1 .. Len(o) + 1] ==
            IF i = 1 THEN <<>>
            ELSE IF o[i - 1] = 1 THEN s[i - 1]
            ELSE Append(Popped(o, s[i - 1], o[i - 1]), i - 1)
    IN s

\* The heading another one is put under; 0 makes it a root.
ParentIn(o, i) ==
    LET below == Popped(o, StackBefore(o)[i], o[i])
    IN IF below = <<>> THEN 0 ELSE below[Len(below)]

AncestorsIn(o, i) ==
    LET a[j \in 0 .. Len(o)] ==
            IF j = 0 \/ ParentIn(o, j) = 0 THEN {}
            ELSE {ParentIn(o, j)} \union a[ParentIn(o, j)]
    IN a[i]

\* The heading process goes on with when the one before has been dealt with:
\* the next in the order of the tree that is not below one that failed.
NextHeading(o, i, refused) ==
    LET rest == {j \in Headings(o) : j > i /\ AncestorsIn(o, j) \intersect refused = {}}
    IN IF rest = {} THEN 0 ELSE Min(rest)

\* completed: a heading counts when its whole subtree has been dealt with.
Completed(o, visited, next) ==
    Cardinality(visited \ (IF next = 0 THEN {} ELSE AncestorsIn(o, next)))

-----------------------------------------------------------------------------
NoImportYet == [outline |-> <<>>, at |-> 0, made |-> {}, refused |-> {}]

Running == {k \in Import : imports[k].at # 0}

OutlineTypeOK ==
    /\ step \in {"upload", "preview", "importing", "done"}
    /\ outlineNodes \in Outline \union {<<>>}
    /\ reading \in Seq(Outline) /\ Len(reading) <= MaxReads
    /\ \A k \in Import : /\ imports[k].outline \in Outline \union {<<>>}
                         /\ imports[k].at \in 0 .. Len(imports[k].outline)
                         /\ imports[k].made \union imports[k].refused
                                \subseteq Headings(imports[k].outline)
    /\ progress \in Nat /\ importResult \subseteq Import
    /\ DOMAIN spaceParent \subseteq Import \X Nat /\ readCrossed \in BOOLEAN

OutlineInit ==
    /\ step = "upload" /\ outlineNodes = <<>> /\ reading = <<>>
    /\ imports = [k \in Import |-> NoImportYet] /\ progress = 0
    /\ importResult = {} /\ spaceParent = <<>> /\ readCrossed = FALSE

-----------------------------------------------------------------------------
(* What each step of the page offers, and the number it shows: the spaces   *)
(* to create, the headings dealt with, the spaces created                   *)

RenderUpload    == [offers |-> {"file"}, number |-> 0]

RenderPreview   == [offers |-> {"reset", "import"},
                    number |-> Cardinality(Headings(outlineNodes))]

RenderImporting == [offers |-> {}, number |-> progress]

RenderDone ==
    [offers |-> {"reset"},
     number |-> Cardinality(UNION {imports[k].made : k \in importResult})]

Render == CASE step = "upload"    -> RenderUpload
            [] step = "preview"   -> RenderPreview
            [] step = "importing" -> RenderImporting
            [] step = "done"      -> RenderDone

-----------------------------------------------------------------------------
handleFileVars == <<imports, progress, importResult, spaceParent, readCrossed>>

HandleFile(o) ==
    /\ "file" \in Render.offers /\ Len(reading) < MaxReads
    /\ reading' = Append(reading, o)
    /\ UNCHANGED <<step, outlineNodes, handleFileVars>>

\* A file is shown when it has been read, whatever the page shows by then; a
\* file without a heading, or that cannot be read, changes nothing.
FileRead(i) ==
    /\ i \in DOMAIN reading
    /\ reading' = SubSeq(reading, 1, i - 1) \o SubSeq(reading, i + 1, Len(reading))
    /\ \/ /\ Headings(reading[i]) # {}
          /\ outlineNodes' = reading[i] /\ step' = "preview"
       \/ UNCHANGED <<outlineNodes, step>>
    /\ UNCHANGED handleFileVars

HandleImport(k) ==
    /\ "import" \in Render.offers /\ imports[k] = NoImportYet
    /\ step' = "importing" /\ progress' = 0
    /\ imports' = [imports EXCEPT ![k] = [NoImportYet EXCEPT
           !.outline = outlineNodes, !.at = Min(Headings(outlineNodes))]]
    /\ readCrossed' = (readCrossed \/ reading # <<>>)
    /\ UNCHANGED <<outlineNodes, reading, importResult, spaceParent>>

\* One createSpace answers.  A call that fails may have created the space.
SpaceAnswered(k, created, answered) ==
    LET i == imports[k].at
        o == imports[k].outline
        made == imports[k].made \union (IF answered THEN {i} ELSE {})
        refused == imports[k].refused \union (IF answered THEN {} ELSE {i})
        next == NextHeading(o, i, refused)
    IN /\ k \in Running
       /\ answered => created
       /\ spaceParent' = IF ~created THEN spaceParent ELSE
             [s \in DOMAIN spaceParent \union {<<k, i>>} |->
                 IF s = <<k, i>> THEN <<k, ParentIn(o, i)>> ELSE spaceParent[s]]
       /\ imports' = [imports EXCEPT ![k].at = next, ![k].made = made,
                                     ![k].refused = refused]
       /\ progress' = Completed(o, made \union refused, next)
       /\ IF next = 0 THEN step' = "done" /\ importResult' = {k}
                      ELSE UNCHANGED <<step, importResult>>
       /\ UNCHANGED <<outlineNodes, reading, readCrossed>>

HandleReset ==
    /\ "reset" \in Render.offers
    /\ step' = "upload" /\ outlineNodes' = <<>> /\ progress' = 0 /\ importResult' = {}
    /\ UNCHANGED <<reading, imports, spaceParent, readCrossed>>

OutlineNext ==
    \/ \E o \in Outline : HandleFile(o)
    \/ \E i \in 1 .. MaxReads : FileRead(i)
    \/ \E k \in Import, created, answered \in BOOLEAN :
          HandleImport(k) \/ SpaceAnswered(k, created, answered)
    \/ HandleReset

OutlineSpec == OutlineInit /\ [][OutlineNext]_outlineVars

\* The server answers, or the call fails.
OutlineFairness ==
    \A k \in Import : WF_outlineVars(\E created, answered \in BOOLEAN :
                                        SpaceAnswered(k, created, answered))

-----------------------------------------------------------------------------
(* Properties                                                              *)

\* What the page promises of an outline: a heading belongs to the nearest
\* heading before it that has a lower level, if there is one.
NearestLower(o, i) ==
    Max({0} \union {j \in Headings(o) : j < i /\ o[j] < o[i]})

\* The spaces on the server mirror the outline, also when calls fail or their
\* answers are lost: each lies below the space of the nearest heading above it,
\* that space exists, and a result that counts no failure stands for an
\* outline of which every heading has its space.
SpacesMirrorTheOutline ==
    /\ \A s \in DOMAIN spaceParent :
          LET o == imports[s[1]].outline
              above == NearestLower(o, s[2])
          IN /\ spaceParent[s] = <<s[1], above>>
             /\ above # 0 => spaceParent[s] \in DOMAIN spaceParent
    /\ \A k \in importResult : imports[k].refused = {} =>
          {<<k, i>> : i \in Headings(imports[k].outline)} \subseteq DOMAIN spaceParent

\* The page leaves an import alone until it ends, with a number that does not
\* pass that of the headings: the preview and the upload are shown during one
\* only when another file was being read as it began.
ImportIsShown ==
    ~readCrossed => \A k \in Running :
        /\ step = "importing" /\ Running = {k}
        /\ Render.number < Cardinality(Headings(imports[k].outline))

\* The import makes the tree it shows, and shows that it does.
ImportMakesTheOutline == SpacesMirrorTheOutline /\ ImportIsShown

\* The screen that asks not to close the page is left.
ImportEnds == []<>(step # "importing")
=============================================================================
