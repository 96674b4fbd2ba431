------------------------------ MODULE MCDocuments ------------------------------
(* What the tools do to documents, for TLC: page tools, watermark removal, the *)
(* tools that look inside a document, PDF to Word, and the catalogue with the  *)
(* jobs on it.  The parts share no state; a behaviour is one of one of them,   *)
(* and the others rest in one of their initial states.                         *)
EXTENDS PageTools, WatermarkRemoval, DocumentTools, WordConversion, ToolCatalog

VARIABLE part

MCSelections == {<<<<1, 1>>>>, <<<<2, 1>>>>, <<<<2, 2>>, <<1, 1>>>>, <<<<3, 4>>>>}
MCCrop == [left |-> 9, bottom |-> 8, width |-> 20, height |-> 30]
MCPicture == [width |-> 4, height |-> 2]
MCStamps == {<<9>>, <<5, 7>>}

Written(says, read, place, angle, size, sets) ==
  [word |-> says, read |-> read, found |-> TRUE, place |-> place, angle |-> angle,
   size |-> size, sets |-> sets]

MCTexts == {Written("draft", "draft", "top", 0, "small", "none"),
            Written("drafts", "drafts", "foot", 1, "large", "clear"),
            Written("draft", "raw", "top", 0, "huge", "none"),
            Written("note", "note", "top", 1, "small", "opaque")}
MCImages == {[image |-> "scan", area |-> "full", layer |-> FALSE],
             [image |-> "seal", area |-> "full", layer |-> TRUE],
             [image |-> "logo", area |-> "big", layer |-> FALSE]}
MCSaying == {<<"draft", "draft">>, <<"drafts", "draft">>, <<"drafts", "drafts">>}

MCScripts == "Arabic" :> <<"ara", "eng">>

MCProperties == <<"pStyle", "bidi", "ind", "jc">>

Upload(id, stem, ext, size, owner, count) ==
  [id |-> id, stem |-> stem, ext |-> ext, size |-> size, owner |-> owner, pages |-> count]

MCUploads == {Upload("1", <<Word("a")>>, "pdf", 30, "ann", 2),
              Upload("2", <<Word("a"), Number(1)>>, "pdf", 20, "ann", 1),
              Upload("3", <<Word("b")>>, "pdf", 50, "bob", 1),
              Upload("4", <<Word("s")>>, "png", 1, "ann", 1),
              Upload("5", <<Word("w")>>, "docx", 2, "ann", 1)}
MCPlans == [c \in {"ann", "bob"} |-> IF c = "ann" THEN "free" ELSE "unknown"]
MCLimits == [free |-> [files |-> 3, size |-> 40, total |-> 60],
             pro |-> [files |-> 3, size |-> 90, total |-> 90]]

vars == <<part, pageVars, watermarkVars, documentVars, wordVars, catalogVars>>

\* A document and a source for the parts that do not look at them.
RestingDocument ==
  /\ doc = [page |-> [p \in 1..Pages |-> [c \in 1..Width |->
              [word |-> CHOOSE w \in Words : TRUE, scanned |-> TRUE, cover |-> "none"]]],
            user |-> "", owner |-> "", meta |-> [f \in Fields |-> ""],
            form |-> <<>>, state |-> "damaged"]
  /\ outcome = "uploaded" /\ asked = Nothing /\ language = <<>> /\ used = 0

RestingWord ==
  /\ source = [pages |-> <<"scan">>, lock |-> "none", readable |-> TRUE, first |-> 0,
               last |-> 0, rewritten |-> FALSE, daemon |-> TRUE, workers |-> 0]
  /\ word = <<>> /\ tags = <<>> /\ step = "asked"

Init ==
  /\ part \in {"pages", "watermark", "inside", "word", "catalog"}
  /\ PagesInit /\ WatermarkInit /\ CatalogInit
  /\ IF part = "inside"
       THEN /\ DocumentInit  \* pages that are typed, or scanned, as a whole
            /\ \A p \in 1..Pages, c, e \in 1..Width :
                 doc.page[p][c].scanned = doc.page[p][e].scanned
       ELSE RestingDocument
  /\ IF part = "word" THEN WordInit ELSE RestingWord

Next ==
  /\ UNCHANGED part
  /\ \/ /\ part = "pages" /\ PagesNext
        /\ UNCHANGED <<watermarkVars, documentVars, wordVars, catalogVars>>
     \/ /\ part = "watermark" /\ WatermarkNext
        /\ UNCHANGED <<pageVars, documentVars, wordVars, catalogVars>>
     \/ /\ part = "inside" /\ DocumentNext
        /\ UNCHANGED <<pageVars, watermarkVars, wordVars, catalogVars>>
     \/ /\ part = "word" /\ WordNext
        /\ UNCHANGED <<pageVars, watermarkVars, documentVars, catalogVars>>
     \/ /\ part = "catalog" /\ CatalogNext
        /\ UNCHANGED <<pageVars, watermarkVars, documentVars, wordVars>>

Spec == Init /\ [][Next]_vars
=============================================================================
