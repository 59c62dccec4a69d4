------------------------------ MODULE UploadForm ------------------------------
(***************************************************************************)
(* The form of the upload page: the knowledge space, the rules that cut a  *)
(* document into chunks, and the metadata and tags that are derived from   *)
(* the name of the chosen file.  A configuration is named by where it came *)
(* from: the page, a space, or the sliders of the user; a file stands for  *)
(* everything that is inferred from its name.                              *)
(***************************************************************************)
EXTENDS Naturals, FiniteSets

CONSTANTS
    Space,      \* knowledge spaces, DEFAULT among them or not
    Default,    \* the preselected space
    File,       \* files the user may choose
    NoFile

ASSUME UploadFormAssumption ==
    NoFile \notin File /\ "page" \notin Space /\ "user" \notin Space

VARIABLES
    spaces,         \* the list of spaces, once it is loaded
    selectedSpace, useCustomChunk, chunkConfig,
    file,           \* fileList
    metadata,       \* the file the shown metadata belong to
    labelTags,      \* the files whose tags the form holds
    request,        \* the last init-upload request
    picked          \* history: the files chosen so far

formVars == <<spaces, selectedSpace, useCustomChunk, chunkConfig, file,
              metadata, labelTags, request, picked>>

ConfigSource == {"page", "user"} \union Space

NoRequest == [space |-> NoFile, inherit |-> TRUE, config |-> "page",
              file |-> NoFile, tags |-> {}]

FormTypeOK ==
    /\ spaces \subseteq Space /\ selectedSpace \in Space \union {Default}
    /\ useCustomChunk \in BOOLEAN /\ chunkConfig \in ConfigSource
    /\ file \in File \union {NoFile} /\ metadata \in File \union {NoFile}
    /\ labelTags \subseteq File /\ picked \subseteq File
    /\ request.file \in File \union {NoFile} /\ request.tags \subseteq File

FormInit ==
    /\ spaces = {} /\ selectedSpace = Default
    /\ useCustomChunk = FALSE /\ chunkConfig = "page"
    /\ file = NoFile /\ metadata = NoFile /\ labelTags = {}
    /\ request = NoRequest /\ picked = {}

\* listSpaces answers: without the preselected space the first one is taken,
\* and the configuration stays that of the page.
SpacesLoaded(items) ==
    /\ spaces = {} /\ items # {}
    /\ spaces' = items
    /\ IF selectedSpace \in items THEN UNCHANGED selectedSpace
                                  ELSE selectedSpace' \in items
    /\ UNCHANGED <<useCustomChunk, chunkConfig, file, metadata, labelTags,
                   request, picked>>

SpaceOffered(s) == s \in spaces

\* The configuration of the earlier space is kept.
KeepsConfig(s) ==
    /\ SpaceOffered(s) /\ selectedSpace' = s
    /\ UNCHANGED <<spaces, useCustomChunk, chunkConfig, file, metadata, labelTags,
                   request, picked>>

\* useSpaceConfig of the configuration is never FALSE on this page: the
\* configuration of the space replaces that of the sliders too.
HandleSpaceChange(s) ==
    /\ SpaceOffered(s)
    /\ selectedSpace' = s /\ chunkConfig' = s
    /\ UNCHANGED <<spaces, useCustomChunk, file, metadata, labelTags, request,
                   picked>>

HandleChunkConfigToggle ==
    /\ useCustomChunk' = ~useCustomChunk
    /\ chunkConfig' = IF useCustomChunk /\ selectedSpace # Default
                         /\ selectedSpace \in spaces
                      THEN selectedSpace ELSE chunkConfig
    /\ UNCHANGED <<spaces, selectedSpace, file, metadata, labelTags, request,
                   picked>>

\* The sliders of the length and the overlap, and the list of the modes.
SlidersAreShown == useCustomChunk

MoveSlider ==
    /\ SlidersAreShown /\ chunkConfig' = "user"
    /\ UNCHANGED <<spaces, selectedSpace, useCustomChunk, file, metadata,
                   labelTags, request, picked>>

\* Type, domain and level follow from the name of the file, and so do tags.
InferMetadata(f) == f
InferTags(f) == {f}

\* buildAutoMetadata: the tags in the form are kept as if the user had typed
\* them, those of the file are added.
BuildAutoMetadata(f, tags) == tags \union InferTags(f)

\* beforeUpload; too large a file or another type changes nothing.
BeforeUpload(f) ==
    /\ file' = f /\ metadata' = InferMetadata(f) /\ picked' = picked \union {f}
    /\ labelTags' = BuildAutoMetadata(f, labelTags)
    /\ UNCHANGED <<spaces, selectedSpace, useCustomChunk, chunkConfig, request>>

OnRemove ==
    /\ file # NoFile /\ file' = NoFile
    /\ UNCHANGED <<spaces, selectedSpace, useCustomChunk, chunkConfig, metadata,
                   labelTags, request, picked>>

\* The user empties the field with the tags.
ClearTags ==
    /\ labelTags # {} /\ labelTags' = {}
    /\ UNCHANGED <<spaces, selectedSpace, useCustomChunk, chunkConfig, file,
                   metadata, request, picked>>

\* handleMetadataConfirm: the values of the form replace the metadata, and the
\* defaults are shown until a file is chosen again.
ConfirmMetadata ==
    /\ metadata # NoFile /\ metadata' = NoFile
    /\ UNCHANGED <<spaces, selectedSpace, useCustomChunk, chunkConfig, file,
                   labelTags, request, picked>>

\* The fields of the request.
InitRequest ==
    [space |-> selectedSpace, inherit |-> ~useCustomChunk,
     config |-> chunkConfig, file |-> file,
     tags |-> BuildAutoMetadata(file, labelTags)]

\* handleUploadTrigger up to the first call.
SendRequest ==
    /\ file # NoFile
    /\ request' = InitRequest
    /\ metadata' = InferMetadata(file)
    /\ UNCHANGED <<spaces, selectedSpace, useCustomChunk, chunkConfig, file,
                   labelTags, picked>>

FormNext ==
    \/ \E items \in SUBSET Space : SpacesLoaded(items)
    \/ \E s \in Space : HandleSpaceChange(s)
    \/ HandleChunkConfigToggle \/ MoveSlider
    \/ \E f \in File : BeforeUpload(f)
    \/ OnRemove \/ ClearTags \/ ConfirmMetadata \/ SendRequest

FormSpec == FormInit /\ [][FormNext]_formVars

-----------------------------------------------------------------------------
(* Properties                                                              *)

\* A configuration of a space that is shown or sent is that of the space the
\* document goes to, in whatever order the space, the rule and the sliders
\* are changed.
SpaceConfigIsSelected ==
    /\ chunkConfig \in Space => chunkConfig = selectedSpace
    /\ request.config \in Space => request.config = request.space

\* The card below the chosen file.
ShownMetadata == IF file = NoFile THEN NoFile ELSE metadata

\* The metadata on the screen are those of the chosen file or the defaults,
\* never those of a file chosen earlier; its request carries its own tags, and
\* those of another file only when that file had been chosen before it.
MetadataOfOwnFile ==
    /\ ShownMetadata \in {file, NoFile}
    /\ request.file # NoFile =>
          request.file \in request.tags /\ request.tags \subseteq picked

\* The form sends what belongs to the file and to the space that are chosen.
RequestIsOfTheChoice == SpaceConfigIsSelected /\ MetadataOfOwnFile
=============================================================================
