----------------------------- MODULE DocumentTools -----------------------------
(* A user works on one document with the tools that look inside it: redact,    *)
(* metadata, forms, protect, unlock, repair, OCR, compress and compare, each   *)
(* on the output of the one before.  A page is a row of cells; a cell shows a  *)
(* word of the text layer, or a scanned one that only OCR can read, or what    *)
(* a redaction painted over it.                                                *)
EXTENDS Integers, Sequences, FiniteSets, SequencesExt

CONSTANTS
  Words,        \* the words a document may hold
  Pages, Width, \* the size of the document, in pages and cells
  Styles,       \* how an area is covered; a text is covered in black
  Passwords,
  Fields,       \* the metadata fields, and the form fields
  Values,
  Languages,    \* SUPPORTED_OCR_LANGUAGES
  English,      \* "eng"
  ScriptPacks,  \* _SCRIPT_LANGUAGES: the packs of a non-Latin script
  MaxLanguages, \* MAX_OCR_LANGUAGES
  SamplePages,  \* pages rendered to detect the language
  MaxTools      \* bound on the tools used in a session

NoText == ""  \* no word, password or value

ASSUME DocumentAssumption ==
  /\ {Pages, Width, MaxLanguages, SamplePages, MaxTools} \subseteq Nat \ {0}
  /\ English \in Languages /\ NoText \notin Words \cup Passwords
  /\ "black" \in Styles /\ "none" \notin Styles
  /\ DOMAIN ScriptPacks \cap {"Latin", "unknown", "blank"} = {}
  /\ \A s \in DOMAIN ScriptPacks : ToSet(ScriptPacks[s]) \subseteq Languages
  /\ \A s \in DOMAIN ScriptPacks : Len(ScriptPacks[s]) \in 1..MaxLanguages
  /\ SamplePages < MaxLanguages

VARIABLES doc,      \* the document
          outcome,  \* what the last tool ended in
          asked,    \* the texts and areas of the last redaction
          language, \* the languages of the last OCR
          used      \* how many tools were used

documentVars == <<doc, outcome, asked, language, used>>

Nothing == [terms |-> {}, areas |-> {}]

\* Documents as they are uploaded: with or without a form, sound or damaged.
DocumentInit ==
  /\ doc \in [page : [1..Pages -> [1..Width -> [word : Words, scanned : BOOLEAN,
                                                 cover : {"none"}]]],
              user : {NoText}, owner : {NoText}, meta : {[f \in Fields |-> NoText]},
              form : {[f \in Fields |-> NoText], <<>>}, state : {"sound", "damaged"}]
  /\ outcome = "uploaded" /\ asked = Nothing /\ language = <<>> /\ used = 0

Use == used < MaxTools /\ used' = used + 1

Refuse(why) == /\ outcome' = why /\ asked' = Nothing /\ language' = <<>>
             /\ UNCHANGED doc

-----------------------------------------------------------------------------
(* Opening *)

\* What every tool needs: a readable document without a user password.
OpenError == CASE doc.state = "damaged" -> "unreadable"
               [] doc.user # NoText -> "password-protected"
               [] OTHER -> NoText

Tool(Works) == /\ Use
               /\ IF OpenError # NoText THEN Refuse(OpenError) ELSE Works

Write(tool, result) == /\ doc' = result /\ outcome' = tool
                      /\ asked' = Nothing /\ language' = <<>>

\* A writer that appends the pages of a reader has no metadata of its own.
Rebuilt(d) == [d EXCEPT !.meta = [f \in Fields |-> NoText]]

-----------------------------------------------------------------------------
(* Redact *)

PageAreas == [page : 1..Pages + 1, from : 0..Width, to : 1..Width + 1,
          style : Styles]

\* The options take areas of a positive size, whatever their page.
AreaAccepted(a) == a.from < a.to

\* The cells of an area, clipped to the page.
AreaCells(a) == {c \in 1..Width : a.from < c /\ c <= a.to}

\* The text layer is what a search finds.
Shows(p, c, term) == /\ doc.page[p][c].word = term
                     /\ ~doc.page[p][c].scanned

Hits(term) == {cell \in (1..Pages) \X (1..Width) : Shows(cell[1], cell[2], term)}

\* The areas of a page, each clipped; one outside the page covers nothing.
Painted(p, c, areas) ==
  {a.style : a \in {b \in areas : b.page = p /\ c \in AreaCells(b)}}

\* Rasters are laid over what the redactions left.
Cover(p, c, terms, areas) ==
  LET styles == Painted(p, c, areas)
  IN IF "blurred" \in styles THEN "blurred"
     ELSE IF styles # {} THEN CHOOSE s \in styles : TRUE
     ELSE IF \E t \in terms : Shows(p, c, t) THEN "black" ELSE "none"

RedactedCell(p, c, terms, areas) ==
  IF Cover(p, c, terms, areas) = "none" THEN doc.page[p][c]
  ELSE [word |-> NoText, scanned |-> FALSE, cover |-> Cover(p, c, terms, areas)]

Regions(terms, areas) ==
  (UNION {Hits(t) : t \in terms})
    \cup {<<a.page, 0>> : a \in {b \in areas : AreaCells(b) # {}}}

\* Mutant: one term that is found will do.
MissingMutant(terms) ==
  IF \E t \in terms : Hits(t) # {} THEN {} ELSE terms

Missing(terms) == {t \in terms : Hits(t) = {}}

Redact(terms, areas) ==
  /\ terms # {} \/ areas # {}
  /\ \A a \in areas : AreaAccepted(a)
  /\ Tool(IF \E a \in areas : a.page > Pages THEN Refuse("no such page")
          ELSE IF Missing(terms) # {} THEN Refuse("missing terms")
          ELSE IF Regions(terms, areas) = {} THEN Refuse("nothing redacted")
          ELSE /\ doc' = [doc EXCEPT !.page =
                    [p \in 1..Pages |-> [c \in 1..Width |->
                       RedactedCell(p, c, terms, areas)]]]
               /\ asked' = [terms |-> terms, areas |-> areas]
               /\ outcome' = "redacted" /\ language' = <<>>)

-----------------------------------------------------------------------------
(* Metadata and forms *)

\* A field that is not given, or given as "", is not among the fields to set.
Metadata(given, clear) ==
  /\ clear \/ \E f \in Fields : given[f] # NoText
  /\ Tool(Write("metadata", [doc EXCEPT !.meta = [f \in Fields |->
            CASE given[f] # NoText -> given[f]
              [] clear -> NoText
              [] OTHER -> doc.meta[f]]]))

\* Names that the form does not have are left out while one is known.
FillForm(given) ==
  LET matched == DOMAIN given \cap DOMAIN doc.form
  IN /\ DOMAIN given # {}
     /\ Tool(IF DOMAIN doc.form = {} THEN Refuse("no form")
             ELSE IF matched = {} THEN Refuse("unknown fields")
             ELSE Write("filled", [Rebuilt(doc) EXCEPT !.form =
                    [f \in Fields |-> IF f \in matched THEN given[f] ELSE doc.form[f]]]))

-----------------------------------------------------------------------------
(* Protect and unlock *)

\* The owner password defaults to the user's.
Protect(user, owner) ==
  Tool(Write("protected", [doc EXCEPT !.user = user,
                            !.owner = IF owner = NoText THEN user ELSE owner]))

\* Either password opens the document; what is written has none.
Opens(password) == password \in {doc.user, doc.owner}

Unlock(password) ==
  /\ Use
  /\ CASE doc.state = "damaged" -> Refuse("unreadable")
       [] doc.user = NoText -> Refuse("not protected")
       [] ~Opens(password) -> Refuse("incorrect password")
       [] OTHER -> Write("unlocked", [Rebuilt(doc) EXCEPT !.user = NoText, !.owner = NoText])

-----------------------------------------------------------------------------
(* Repair: what libqpdf writes in recovery mode may itself be broken *)

Recovered == IF doc.state = "sound" THEN {"sound"} ELSE {"sound", "damaged", "none"}

\* The result is opened again, strictly, before it is handed out.
Reopens(result) == result = "sound"

Repair ==
  /\ Use
  /\ IF doc.user # NoText THEN Refuse("password-protected")
     ELSE \E result \in Recovered :
            IF result = "none" \/ ~Reopens(result) THEN Refuse("too damaged")
            ELSE Write("repaired", [doc EXCEPT !.state = result])

\* Ghostscript writes the document anew.
Compress == Tool(Write("compressed", doc))

-----------------------------------------------------------------------------
(* OCR *)

\* What the samples of the first pages give: a script, and a guess of the
\* language when it is Latin; "blank" is a page without one.
Samples == [script : {"Latin", "unknown", "blank"} \cup DOMAIN ScriptPacks,
            guess : Languages \cup {NoText}]

SampledScripts(samples) ==
  SelectSeq([k \in DOMAIN samples |-> samples[k].script],
            LAMBDA s : s = "Latin" \/ s \in DOMAIN ScriptPacks)

Guesses(samples) ==
  SelectSeq([k \in DOMAIN samples |->
               IF samples[k].script = "Latin" THEN samples[k].guess ELSE NoText],
            LAMBDA g : g # NoText)

Times(s, e) == Cardinality({k \in DOMAIN s : s[k] = e})

\* Each element once, the most frequent first, ties in the order of appearance.
MostCommon(s) ==
  LET First(e) == CHOOSE k \in DOMAIN s : s[k] = e /\ \A j \in 1..k - 1 : s[j] # e
  IN SetToSortSeq(ToSet(s), LAMBDA a, b :
       Times(s, a) > Times(s, b) \/ (Times(s, a) = Times(s, b) /\ First(a) < First(b)))

WithEnglish(languages) ==
  IF English \in ToSet(languages) THEN languages ELSE Append(languages, English)

Cut(languages) == SubSeq(languages, 1,
  IF Len(languages) < MaxLanguages THEN Len(languages) ELSE MaxLanguages)

Detected(samples, fallback) ==
  LET scripts == SampledScripts(samples)
  IN IF scripts = <<>> THEN fallback
     ELSE IF MostCommon(scripts)[1] # "Latin" THEN ScriptPacks[MostCommon(scripts)[1]]
     ELSE Cut(WithEnglish(MostCommon(Guesses(samples))))

\* What the options accept as a language, and OCRmyPDF as well.
ValidLanguages(languages) ==
  /\ languages # <<>> /\ ToSet(languages) \subseteq Languages
  /\ Cardinality(ToSet(languages)) = Len(languages)
  /\ Len(languages) <= MaxLanguages

\* Pages with text are left alone unless every page is read again.
Readable(p, force) == force \/ \A c \in 1..Width : doc.page[p][c].scanned
                                                    \/ doc.page[p][c].word = NoText

\* What detection may come to, by the fallback.
Detectable == [l \in Languages |->
  {Detected(samples, <<l>>) : samples \in [1..SamplePages -> Samples]}]

Ocr(detect, fallback, force) ==
  /\ ValidLanguages(<<fallback>>)
  /\ Tool(/\ language' \in IF detect THEN Detectable[fallback] ELSE {<<fallback>>}
          /\ doc' = [doc EXCEPT !.page = [p \in 1..Pages |-> [c \in 1..Width |->
                       IF Readable(p, force) THEN [@[p][c] EXCEPT !.scanned = FALSE]
                                             ELSE @[p][c]]]]
          /\ outcome' = "read" /\ asked' = Nothing)

-----------------------------------------------------------------------------
(* Compare with another version: the text layers, page by page *)

TextOf(page) == [c \in 1..Width |-> IF page[c].scanned THEN NoText ELSE page[c].word]

Compare(other) ==
  Tool(Write(IF \A p \in 1..Pages : TextOf(doc.page[p]) = TextOf(other[p])
              THEN "identical" ELSE "different", doc))

-----------------------------------------------------------------------------

FewAreas == {{}} \cup {{a} : a \in {b \in PageAreas : AreaAccepted(b)}}

DocumentNext ==
  \/ \E terms \in SUBSET Words, areas \in FewAreas : Redact(terms, areas)
  \/ \E given \in [Fields -> Values \cup {NoText}], clear \in BOOLEAN : Metadata(given, clear)
  \/ \E names \in (SUBSET Fields) \cup {{"other"}}, v \in Values :
       FillForm([f \in names |-> v])
  \/ \E user \in Passwords, owner \in Passwords \cup {NoText} : Protect(user, owner)
  \/ \E password \in Passwords : Unlock(password)
  \/ Repair
  \/ Compress
  \/ \E detect \in BOOLEAN, l \in Languages, force \in BOOLEAN : Ocr(detect, l, force)
  \/ \E p, q \in 1..Pages : Compare([doc.page EXCEPT ![p] = doc.page[q]])

DocumentSpec == DocumentInit /\ [][DocumentNext]_documentVars

-----------------------------------------------------------------------------
(* Properties *)

\* After a completed redaction no term is left in the text layer and nothing,
\* text or scan, is left under an area, on any page.
NothingSensitiveLeft ==
  outcome = "redacted" =>
    \A p \in 1..Pages, c \in 1..Width :
      /\ \A t \in asked.terms : ~Shows(p, c, t)
      /\ Painted(p, c, asked.areas) # {} => doc.page[p][c].word = NoText

\* A redaction leaves nothing of this kind behind.  If it could not find one of its
\* terms it hands out nothing, and if it could, however its areas lie beyond the
\* page, it leaves every other word.
RedactionIsExact ==
  [][outcome' = "redacted" /\ used' # used =>
       /\ NothingSensitiveLeft'
       /\ \A t \in asked'.terms : \E p \in 1..Pages, c \in 1..Width : Shows(p, c, t)
       /\ \A p \in 1..Pages, c \in 1..Width :
            \/ doc'.page[p][c] = doc.page[p][c]
            \/ \E t \in asked'.terms : Shows(p, c, t)
            \/ \E a \in asked'.areas : a.page = p /\ c \in a.from + 1..a.to
    ]_documentVars

\* "a user is never handed a file they believe is clean while a term they typed
\* still sits in it"
NoTermIsLeft ==
  outcome = "redacted" =>
    \A p \in 1..Pages, c \in 1..Width : doc.page[p][c].word \notin asked.terms
=============================================================================
