----------------------------- MODULE WordConversion -----------------------------
(* PDF to Word: how a document is prepared, converted, by pdf2docx or by the    *)
(* fallback that extracts its text, and finished, by marking right-to-left      *)
(* paragraphs and sorting the properties of each into the order of the schema.  *)
EXTENDS Integers, Sequences, FiniteSets, SequencesExt, FiniteSetsExt

CONSTANTS
  MaxPdfPages,   \* bound on the pages of a document
  MinParallel,   \* _MIN_PAGES_FOR_PARALLEL
  MaxConvertWorkers,
  PropertyOrder, \* _PPR_ORDER, the known properties in the order of the schema
  ForeignTags,   \* tags the order does not list
  MaxTags        \* bound on the properties of a paragraph

ASSUME WordAssumption ==
  /\ {MaxPdfPages, MinParallel, MaxConvertWorkers, MaxTags} \subseteq Nat \ {0}
  /\ PropertyOrder \in Seq(STRING)
  /\ "bidi" \in ToSet(PropertyOrder) /\ ToSet(PropertyOrder) \cap ForeignTags = {}
  /\ IsInjective(PropertyOrder) /\ MaxConvertWorkers > 1

VARIABLES source, \* the document, and the range that is asked for
          word,   \* the Word document, a sequence of pages
          tags,   \* the properties of a paragraph of it
          step    \* "asked", "prepared", "converted", "done", why it failed, or
                  \* "torn": done, but for the code, with a file that is broken

wordVars == <<source, word, tags, step>>

KnownTags == ToSet(PropertyOrder)
TagSeqs == UNION {{s \in [1..n -> KnownTags \cup ForeignTags] : IsInjective(s)} : n \in 1..MaxTags}

WordInit ==
  /\ source \in [pages : UNION {[1..n -> {"text", "scan"}] : n \in 0..MaxPdfPages},
                 lock : {"none", "owner", "user"}, readable : BOOLEAN,
                 first : 0..MaxPdfPages, last : 0..MaxPdfPages, rewritten : {FALSE},
                 daemon : BOOLEAN, workers : {0}]
  /\ source.last # 0 => source.first <= source.last
  /\ word = <<>> /\ tags = <<>> /\ step = "asked"

-----------------------------------------------------------------------------
(* Preparation *)

\* Daemonic processes have no children, so that they convert alone.
CanSpawn == ~source.daemon

PageWorkers(cpus) ==
  IF CanSpawn /\ Len(source.pages) >= MinParallel
  THEN LET few == IF cpus < MaxConvertWorkers THEN cpus ELSE MaxConvertWorkers
       IN IF few > 2 THEN few ELSE 2
  ELSE 0

\* A clean document is left as it is, and the only one that has to have pages; one
\* that is locked without a password or that cannot be read is written anew by
\* pikepdf, which may repair it.
Prepare(cpus) ==
  /\ step = "asked"
  /\ \/ /\ source.lock = "user" /\ step' = "password-protected" /\ UNCHANGED source
     \/ /\ source.lock = "none" /\ source.readable /\ source.pages = <<>>
        /\ step' = "empty" /\ UNCHANGED source
     \/ /\ source.lock = "none" /\ source.readable /\ source.pages # <<>>
        /\ step' = "prepared"
        /\ source' = [source EXCEPT !.workers = PageWorkers(cpus)]
     \/ /\ source.lock = "owner" \/ (source.lock = "none" /\ ~source.readable)
        /\ step' = "prepared"
        /\ source' = [source EXCEPT !.lock = "none", !.readable = TRUE,
                        !.rewritten = TRUE, !.workers = PageWorkers(cpus)]
     \/ /\ source.lock # "user" /\ ~source.readable
        /\ step' = "damaged" /\ UNCHANGED source
  /\ UNCHANGED <<word, tags>>

-----------------------------------------------------------------------------
(* Conversion *)

\* Mutant: the first page counts from zero.
StartMutant == source.first

Start == IF source.first = 0 THEN 0 ELSE source.first - 1
Stop == IF source.last \in 1..Len(source.pages) THEN source.last ELSE Len(source.pages)

\* The pages from Start to Stop, each as "layout", "text" or a "picture".
Pages2Docx(start, stop, how) ==
  [k \in 1..(IF stop > start THEN stop - start ELSE 0) |->
     [page |-> start + k, as |-> how[source.pages[start + k]]]]

ByLayout == Pages2Docx(Start, Stop, [kind \in {"text", "scan"} |-> "layout"])

\* Pages without text become a picture.
Fallback ==
  Pages2Docx(Start, Stop, [kind \in {"text", "scan"} |-> IF kind = "text" THEN "text" ELSE "picture"])

\* The converter may give up on a page and the fallback too; a paragraph has its
\* properties in any order.
Convert ==
  /\ step = "prepared" /\ UNCHANGED source
  /\ \/ /\ word' \in {ByLayout, Fallback} /\ step' = "converted" /\ tags' \in TagSeqs
     \/ step' = "could not convert" /\ UNCHANGED <<word, tags>>

-----------------------------------------------------------------------------
(* The finishing pass *)

Rank(tag) == CHOOSE k \in DOMAIN PropertyOrder : PropertyOrder[k] = tag

\* _RTL_DOMINANCE: a paragraph of which two fifths or more is right-to-left.
Dominant(rtl, letters) == letters > 0 /\ 5 * rtl >= 2 * letters

\* bidi goes before the first of the properties that follow it in the schema.
WithBidi(s) ==
  LET later == {k \in DOMAIN s : s[k] \in KnownTags /\ Rank(s[k]) > Rank("bidi")}
  IN IF Contains(s, "bidi") THEN s
     ELSE IF later = {} THEN Append(s, "bidi")
     ELSE InsertAt(s, Min(later), "bidi")

\* An unknown tag ranks as the one before it.
SortKey(s, k) == IF s[k] \in KnownTags THEN Rank(s[k])
                 ELSE IF k > 1 /\ s[k - 1] \in KnownTags THEN Rank(s[k - 1])
                 ELSE 0

\* The sort is stable.
Before(s, j, k) == \/ SortKey(s, j) < SortKey(s, k)
                   \/ SortKey(s, j) = SortKey(s, k) /\ j < k

Sorted(s) ==
  LET order == CHOOSE o \in [DOMAIN s -> DOMAIN s] :
                 \A j, k \in DOMAIN s : j < k => Before(s, o[j], o[k])
  IN [k \in DOMAIN s |-> s[order[k]]]

\* What goes wrong before the save leaves the document as it was converted; the
\* save is in place, if there is anything to save, and may break off.
Finish(rtl, letters) ==
  LET finished == Sorted(IF Dominant(rtl, letters) THEN WithBidi(tags) ELSE tags)
  IN /\ step = "converted" /\ UNCHANGED source
     /\ \/ step' = "done" /\ tags' \in {finished, tags} /\ UNCHANGED word
        \/ /\ Dominant(rtl, letters) \/ finished # tags
           /\ step' = "torn" /\ tags' = <<>> /\ word' = <<>>

\* Paragraphs without letters, and below and at the boundary.
WordNext == \/ \E cpus \in 1..MaxConvertWorkers + 1 : Prepare(cpus)
            \/ Convert
            \/ \E letters \in {0, 5} : \E rtl \in 0..Min({letters, 2}) : Finish(rtl, letters)

WordSpec == WordInit /\ [][WordNext]_wordVars

-----------------------------------------------------------------------------
(* Properties *)

\* Whichever way it was converted, the document holds the pages that were asked
\* for, all of them, in their order, and none of another.
PagesAreTheRequested ==
  step \in {"converted", "done"} =>
    /\ {word[k].page : k \in DOMAIN word} =
         {n \in DOMAIN source.pages : n >= source.first
                                      /\ (source.last = 0 \/ n <= source.last)}
    /\ \A j, k \in DOMAIN word : j < k => word[j].page < word[k].page

\* A conversion hands out these pages and, unless the save of its finishing pass
\* breaks off, every property the converter wrote: none is lost, and once the pass changed anything
\* the known ones are in the order of the schema, the new one included.
ConversionKeepsAll ==
  [][/\ step' \in {"converted", "done"} => PagesAreTheRequested'
     /\ step' = "done" =>
          /\ ToSet(tags) \subseteq ToSet(tags')
          /\ tags' # tags => \A j, k \in DOMAIN tags' :
               {tags'[j], tags'[k]} \subseteq KnownTags /\ j < k
                 => Rank(tags'[j]) < Rank(tags'[k])]_wordVars

\* "unrecognised extensions keep their relative position"
ForeignTagsKeepTheirOrder ==
  [][step' = "done" =>
       \A x, y \in ToSet(tags) \ KnownTags :
         LET At(s, e) == CHOOSE k \in DOMAIN s : s[k] = e
         IN At(tags, x) < At(tags, y) => At(tags', x) < At(tags', y)]_wordVars
=============================================================================
