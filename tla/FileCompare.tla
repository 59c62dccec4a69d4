------------------------------ MODULE FileCompare ------------------------------
(***************************************************************************)
(* The comparison of two files (tools/file-compare): each side has the     *)
(* name of a file and the text that was read last; the page shows the      *)
(* difference of the two texts under the two names, by lines or by words.  *)
(***************************************************************************)
EXTENDS Naturals, Sequences, SequencesExt

CONSTANTS
    TextFile, NoTextFile,
    Line, Word,
    TextOf,      \* the text of each file, as a sequence of lines
    WordsIn,     \* the words of each line: lines may differ in blanks only
    MaxPicks     \* bound on the files being read at a time, for each side

ASSUME CompareAssumption ==
    /\ NoTextFile \notin TextFile /\ MaxPicks \in Nat
    /\ TextOf \in [TextFile -> Seq(Line)]
    /\ WordsIn \in [Line -> Seq(Word)]

Side == {"file1", "file2"}

VARIABLES
    named,        \* the file each side names
    content,      \* the file whose text each side holds, or none
    beingRead,    \* the FileReaders under way on each side, oldest first
    diffMode, granularity,
    misread       \* history: sides on which a read failed, or one ended after
                  \* another file was picked or the file was removed

compareVars == <<named, content, beingRead, diffMode, granularity, misread>>

CompareTypeOK ==
    /\ named \in [Side -> TextFile \union {NoTextFile}]
    /\ content \in [Side -> TextFile \union {NoTextFile}]
    /\ \A d \in Side : beingRead[d] \in Seq(TextFile) /\ Len(beingRead[d]) <= MaxPicks
    /\ diffMode \in {"unified", "side-by-side"} /\ granularity \in {"lines", "words"}
    /\ misread \subseteq Side

CompareInit ==
    /\ named = [d \in Side |-> NoTextFile] /\ content = [d \in Side |-> NoTextFile]
    /\ beingRead = [d \in Side |-> <<>>]
    /\ diffMode = "side-by-side" /\ granularity = "lines" /\ misread = {}

\* The name is shown at once, the text when it has been read.
HandlePick(d, f) ==
    /\ Len(beingRead[d]) < MaxPicks
    /\ named' = [named EXCEPT ![d] = f]
    /\ beingRead' = [beingRead EXCEPT ![d] = Append(@, f)]
    /\ UNCHANGED <<content, diffMode, granularity, misread>>

\* Reads end in any order; one that fails leaves the text of before.
ReadAsText(d, i) ==
    /\ i \in DOMAIN beingRead[d]
    /\ beingRead' = [beingRead EXCEPT ![d] = SubSeq(@, 1, i - 1) \o SubSeq(@, i + 1, Len(@))]
    /\ \/ /\ content' = [content EXCEPT ![d] = beingRead[d][i]]
          /\ misread' = IF beingRead[d][i] = named[d] THEN misread \ {d}
                                                      ELSE misread \union {d}
       \/ content' = content /\ misread' = misread \union {d}
    /\ UNCHANGED <<named, diffMode, granularity>>

\* Only the name is taken away.
KeepsTheText(d) ==
    /\ named[d] # NoTextFile
    /\ named' = [named EXCEPT ![d] = NoTextFile]
    /\ misread' = misread \ {d}
    /\ UNCHANGED <<content, beingRead, diffMode, granularity>>

RemovePicked(d) ==
    /\ named[d] # NoTextFile
    /\ named' = [named EXCEPT ![d] = NoTextFile]
    /\ content' = [content EXCEPT ![d] = NoTextFile]
    /\ misread' = misread \ {d}
    /\ UNCHANGED <<beingRead, diffMode, granularity>>

SetDiffMode(m) ==
    /\ \A d \in Side : named[d] # NoTextFile
    /\ m # diffMode /\ diffMode' = m
    /\ UNCHANGED <<named, content, beingRead, granularity, misread>>

SetGranularity(g) ==
    /\ \A d \in Side : named[d] # NoTextFile
    /\ g # granularity /\ granularity' = g
    /\ UNCHANGED <<named, content, beingRead, diffMode, misread>>

CompareNext ==
    \/ \E d \in Side, f \in TextFile : HandlePick(d, f)
    \/ \E d \in Side, i \in 1 .. MaxPicks : ReadAsText(d, i)
    \/ \E d \in Side : RemovePicked(d)
    \/ \E m \in {"unified", "side-by-side"} : SetDiffMode(m)
    \/ \E g \in {"lines", "words"} : SetGranularity(g)

CompareSpec == CompareInit /\ [][CompareNext]_compareVars

-----------------------------------------------------------------------------
(* The difference, and the two ways to show it                             *)

Text(d) == IF content[d] = NoTextFile THEN <<>> ELSE TextOf[content[d]]

\* What is compared: diffLines takes the lines as they are, diffWords the words,
\* and leaves the blanks and the line breaks between them out of account.
Unit == Line \union Word

Units(text) ==
    IF granularity = "lines" THEN text
    ELSE FlattenSeq([i \in DOMAIN text |-> WordsIn[text[i]]])

\* The library: changes that lead from the one sequence to the other.
ComputeDiff(old, new) ==
    LET same == Max({k \in 0 .. Len(old) : k <= Len(new) /\
                        \A i \in 1 .. k : old[i] = new[i]})
        Change(kind, units) == IF units = <<>> THEN <<>>
                               ELSE <<[kind |-> kind, value |-> units]>>
    IN Change("same", SubSeq(old, 1, same))
       \o Change("removed", SubSeq(old, same + 1, Len(old)))
       \o Change("added", SubSeq(new, same + 1, Len(new)))

\* An empty text counts as none.
DiffIsShown == Text("file1") # <<>> /\ Text("file2") # <<>>

Diffs == ComputeDiff(Units(Text("file1")), Units(Text("file2")))

HasDiff == \E i \in DOMAIN Diffs : Diffs[i].kind # "same"

\* One block for each change, with its sign.
UnifiedRows == [i \in DOMAIN Diffs |-> <<Diffs[i].kind, Diffs[i].value>>]

\* Two columns: what is on one side only faces a placeholder, and what is on
\* both is split into lines; words that stand in one line are kept apart here,
\* and share a row on the page.
ColumnRows(c, own) ==
    IF c.kind = "same" THEN [i \in DOMAIN c.value |-> <<"same", <<c.value[i]>> >>]
    ELSE IF c.kind = own THEN << <<own, c.value>> >>
    ELSE << <<"placeholder", <<>> >> >>

ColumnOf(changes, own) == FlattenSeq([i \in DOMAIN changes |-> ColumnRows(changes[i], own)])

RenderSideBySide == [left |-> ColumnOf(Diffs, "removed"), right |-> ColumnOf(Diffs, "added")]

TextOfRows(rows, kinds) ==
    FlattenSeq([i \in DOMAIN rows |-> IF rows[i][1] \in kinds THEN rows[i][2] ELSE <<>>])

-----------------------------------------------------------------------------
(* Properties                                                              *)

\* What is compared are the texts of the two files named, unless a read failed
\* or ended late.  A file that is still being read may show the text of the
\* one before, so this is about pages at rest.
ComparedAreTheNamed ==
    \A d \in Side : beingRead[d] = <<>> /\ d \notin misread => content[d] = named[d]

\* Either view shows all of what is compared, line by line or word by word:
\* nothing is lost where a change is cut into rows, the columns stay aligned.
\* By lines, "same" is said of equal texts only; by words, of all texts with the
\* same words, and texts that differ in blanks are then called the same.
RowsAreTheTexts ==
    DiffIsShown =>
        LET left  == RenderSideBySide.left
            right == RenderSideBySide.right
            old   == Units(Text("file1"))
            new   == Units(Text("file2"))
        IN /\ Len(left) = Len(right)
           /\ TextOfRows(left, {"same", "removed"}) = old
           /\ TextOfRows(right, {"same", "added"}) = new
           /\ TextOfRows(UnifiedRows, {"same", "removed"}) = old
           /\ TextOfRows(UnifiedRows, {"same", "added"}) = new
           /\ ~HasDiff <=> old = new

ComparisonIsOfTheFiles == ComparedAreTheNamed /\ RowsAreTheTexts
=============================================================================
