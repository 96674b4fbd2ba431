--------------------------- MODULE WatermarkRemoval ---------------------------
(* remove_watermarks: two interpreters of a PDF's content streams.  The first  *)
(* follows the graphics state through every page and notes how texts and       *)
(* images are drawn; what looks like a watermark becomes a target.  The second *)
(* follows the state again and drops the targets, marked watermark artifacts   *)
(* and watermark layers.  A stream is a sequence of operations; a text object  *)
(* is one operation, with the graphics state it may set before its text, which *)
(* goes on after it.  Angles count in eighths of a turn (so diagonal is odd),  *)
(* alpha is "clear" or "opaque".  The document is written one operation at a   *)
(* time, and the first interpreter reads each as it is written.                *)
EXTENDS Integers, Sequences, FiniteSets, SequencesExt

CONSTANTS
  TextObjects,  \* the text objects a document may hold: the word they show, what
                \* pypdf reads of it, whether PyMuPDF finds it, where it is on
                \* the page, angle, size, and the alpha the object sets
  Images,       \* the image draws a document may hold: image, area, and whether
                \* it is tied to a watermark layer
  FormWord,     \* the text inside the one Form XObject
  FormPlace,    \* where it is on a page
  Texts,        \* the words a user may ask to have removed
  Saying,       \* pairs of words of which the first contains the second
  MaxOps,       \* bound on the operations of the document
  TileCount,    \* _TILE_COUNT
  MaxTargets    \* _MAX_AUTO_TARGETS

Sizes == {"small", "large", "huge"}   \* of text: huge is _STRONG_ALPHA_SIZE
\* Where an image lies on its page and how much it covers: "big" is centred
\* and within the two ratios, "full" is above _IMAGE_MAX_RATIO.
Areas == {"corner", "centre", "big", "full"}
Modes == {"annotations", "layers", "both"}
Alphas == {"clear", "opaque"}

ASSUME WatermarkAssumption ==
  /\ {MaxOps, TileCount, MaxTargets} \subseteq Nat \ {0}
  /\ \A t \in TextObjects : /\ t.angle \in 0..7 /\ t.size \in Sizes
                             /\ t.found \in BOOLEAN /\ t.sets \in Alphas \cup {"none"}
  /\ \A i \in Images : i.area \in Areas /\ i.layer \in BOOLEAN

NoWord == ""

\* A text contains what the user asked for.
Says(word, needle) == needle # NoWord /\ <<word, needle>> \in Saying

VARIABLES request,   \* the options: mode and text (or NoWord); and how many watermark
                     \* annotations the document has, and whether its form is
                     \* tied to a watermark layer; chosen when they first matter
          pages,     \* the source: a sequence of content streams
          graphics,  \* the state of the interpreter that reads the source
          seen,      \* the drawings it has noted
          targets,   \* [texts, images] to remove, once decided
          output,    \* the rewritten pages
          formKept,  \* the text of the form is still there
          marks,     \* the places PyMuPDF redacts on each page
          removed, userHits,
          stage      \* "read", "rewrite", "done", "failed"

watermarkVars == <<request, pages, graphics, seen, targets, output, formKept, marks,
                   removed, userHits, stage>>

Fresh == [angle |-> 0, alpha |-> "opaque", stack |-> <<>>]

\* A state dictionary may leave the alpha as it is.
Ops == [name : {"q", "Q", "EMC", "form", "cm"}]
         \cup [name : {"gs"}, alpha : Alphas \cup {"none"}]
         \cup [name : {"BDC"}, tag : {"artifact", "layer", "other"}]
         \cup [name : {"text"}, text : TextObjects]
         \cup [name : {"image"}, image : Images]

WatermarkInit ==
  /\ request = [mode |-> "both", text |-> NoWord, annots |-> 0, form |-> FALSE]
  /\ pages = <<<<>>>> /\ graphics = Fresh /\ seen = {}
  /\ targets = [texts |-> {}, images |-> {}]
  /\ output = <<>> /\ formKept = TRUE /\ marks = <<>>
  /\ removed = 0 /\ userHits = 0 /\ stage = "read"

-----------------------------------------------------------------------------
(* The graphics state, as both interpreters follow it *)

Diagonal(angle) == angle % 2 = 1

Track(g, op) ==
  CASE op.name = "q" ->
         [g EXCEPT !.stack = Append(@, [angle |-> g.angle, alpha |-> g.alpha])]
    [] op.name = "Q" /\ g.stack # <<>> ->
         [angle |-> Last(g.stack).angle, alpha |-> Last(g.stack).alpha,
          stack |-> Front(g.stack)]
    [] op.name = "cm" -> [g EXCEPT !.angle = (@ + 1) % 8]
    [] op.name = "gs" /\ op.alpha # "none" -> [g EXCEPT !.alpha = op.alpha]
    [] op.name = "text" /\ op.text.sets # "none" -> [g EXCEPT !.alpha = op.text.sets]
    [] OTHER -> g

\* How a text object or an image is shown in the state it comes upon; of a text
\* object the lower alpha counts, of its beginning and its text.
TextTraits(text, g) == [diagonal |-> Diagonal(text.angle + g.angle),
                        clear |-> "clear" \in {g.alpha, text.sets}, size |-> text.size]

ImageTraits(image, g) == [diagonal |-> Diagonal(g.angle),
                          clear |-> g.alpha = "clear", area |-> image.area]

-----------------------------------------------------------------------------
(* Reading: what the first interpreter notes *)

\* What an operation draws: a text, an image, or the form and the text in it.
\* "at" tells the drawings of a page apart.
Noted(op, g, page, at) ==
  CASE op.name = "text" /\ op.text.read # NoWord ->
         {[kind |-> "text", what |-> op.text.read, page |-> page, at |-> at,
           traits |-> TextTraits(op.text, g)]}
    [] op.name = "image" ->
         {[kind |-> "image", what |-> op.image.image, page |-> page, at |-> at,
           traits |-> ImageTraits(op.image, g)]}
    [] op.name = "form" ->
         {[kind |-> "form", what |-> FormWord, page |-> page, at |-> at,
           traits |-> TextTraits([angle |-> 0, size |-> "small", sets |-> "none"], g)]}
    [] OTHER -> {}

\* How deep the saved states are after a stream, and how deep they were where
\* each section of marked content that is still open began.
Nest(n, op) ==
  CASE op.name = "q" -> [n EXCEPT !.depth = @ + 1]
    [] op.name = "Q" -> [n EXCEPT !.depth = @ - 1]
    [] op.name = "BDC" -> [n EXCEPT !.open = Append(@, n.depth)]
    [] op.name = "EMC" -> [n EXCEPT !.open = Front(@)]
    [] OTHER -> n

Nesting(ops) == FoldLeft(Nest, [depth |-> 0, open |-> <<>>], ops)

\* What sets the transformation or the alpha.
Sets(op) == op.name \in {"cm", "gs"} \/ (op.name = "text" /\ op.text.sets # "none")

\* The documents of interest: operators nest, and marked content leaves the
\* graphics state as it found it.
Legal(n, op) ==
  LET base == IF n.open = <<>> THEN 0 ELSE Last(n.open)
  IN /\ op.name = "Q" => n.depth > base
     /\ op.name = "EMC" => n.open # <<>> /\ n.depth = base
     /\ Sets(op) => n.open = <<>> \/ n.depth > base

Length == FoldLeft(LAMBDA n, ops : n + Len(ops), Len(pages), pages)

Read(op) ==
  LET page == Len(pages)
      ops == pages[page]
  IN /\ stage = "read" /\ Length <= MaxOps /\ Legal(Nesting(ops), op)
     /\ pages' = [pages EXCEPT ![page] = Append(@, op)]
     /\ seen' = seen \cup Noted(op, graphics, page, Len(ops) + 1)
     /\ graphics' = Track(graphics, op)
     /\ UNCHANGED <<request, targets, output, formKept, marks, removed, userHits, stage>>

NextPage ==
  /\ stage = "read" /\ Length <= MaxOps /\ Nesting(Last(pages)).open = <<>>
  /\ pages' = Append(pages, <<>>) /\ graphics' = Fresh
  /\ UNCHANGED <<request, seen, targets, output, formKept, marks, removed, userHits, stage>>

-----------------------------------------------------------------------------
(* Deciding *)

\* Plain text is never a candidate.
Candidate(o) == o.kind # "image" /\ (o.traits.diagonal \/ o.traits.clear)

Strong(o) == \/ o.traits.diagonal /\ o.traits.clear
             \/ o.traits.diagonal /\ o.traits.size # "small"
             \/ o.traits.clear /\ o.traits.size = "huge"

PagesOf(drawings) == {o.page : o \in drawings}

Tiled(drawings) == \E p \in PagesOf(drawings) :
                     Cardinality({o \in drawings : o.page = p}) >= TileCount

CoversEnoughPages(drawings) ==
  LET total == Len(pages)
      needed == IF (total + 1) \div 2 > 2 THEN (total + 1) \div 2 ELSE 2
  IN total >= 2 /\ Cardinality(PagesOf(drawings)) >= needed

TextIsWatermark(drawings) ==
  (\E o \in drawings : Strong(o)) \/ Tiled(drawings) \/ CoversEnoughPages(drawings)

Centered(o) == o.traits.area \in {"centre", "big"}

Big(o) == o.traits.area = "big"

ImageIsWatermark(drawings) ==
  \/ \E o \in drawings : o.traits.diagonal
  \/ /\ \E o \in drawings : o.traits.clear
     /\ (\E o \in drawings : Centered(o) \/ Big(o)) \/ Tiled(drawings)
  \/ /\ CoversEnoughPages(drawings)
     /\ \E o \in drawings : Centered(o)
     /\ \E o \in drawings : Big(o)

Of(what, drawings) == {o \in drawings : o.what = what}

\* The cap keeps those seen on the most pages.
Capped(found, drawings) ==
  LET Spread(what) == Cardinality(PagesOf(Of(what, drawings)))
  IN {few \in SUBSET found :
        /\ Cardinality(few) = IF Cardinality(found) > MaxTargets
                                THEN MaxTargets ELSE Cardinality(found)
        /\ \A a \in few, b \in found \ few : Spread(a) >= Spread(b)}

Requests == [mode : Modes, text : Texts \cup {NoWord}, annots : {0, 1}, form : BOOLEAN]

Decide(asked) ==
  LET texts == {o \in seen : Candidate(o)}
      images == {o \in seen : o.kind = "image"}
      words == {o.what : o \in {o \in texts : TextIsWatermark(Of(o.what, texts))}}
      shots == {o.what : o \in {o \in images : ImageIsWatermark(Of(o.what, images))}}
  IN /\ stage = "read" /\ Nesting(Last(pages)).open = <<>>
     /\ asked.form => \E o \in seen : o.kind = "form"
     /\ request' = asked
     /\ IF asked.mode = "both"
          THEN \E t \in Capped(words, texts), i \in Capped(shots, images) :
                 targets' = [texts |-> t, images |-> i]
          ELSE UNCHANGED targets
     /\ stage' = "rewrite"
     /\ UNCHANGED <<pages, graphics, seen, output, formKept, marks, removed, userHits>>

-----------------------------------------------------------------------------
(* Rewriting *)

StripLayers == request.mode \in {"layers", "both"}

Deeper(skip, op) == CASE op.name = "BDC" -> skip + 1
                      [] op.name = "EMC" -> skip - 1
                      [] OTHER -> skip

\* What the second interpreter is told to remove.
RewritePlan == [needle |-> request.text, texts |-> targets.texts,
                images |-> targets.images, layers |-> StripLayers, form |-> request.form]

\* Marked content that goes as a whole.
Marked(plan, op) == /\ op.name = "BDC"
                    /\ op.tag = "artifact" \/ (op.tag = "layer" /\ plan.layers)

\* Mutant: every occurrence of a target goes.
TextGoesMutant(plan, read, traits) == Says(read, plan.needle) \/ read \in plan.texts

\* A heading that merely says the same word survives.
TextGoes(plan, read, traits) ==
  \/ Says(read, plan.needle)
  \/ read \in plan.texts /\ (traits.diagonal \/ traits.clear)

Drops(plan, op, g) ==
  CASE op.name = "text"  -> TextGoes(plan, op.text.read, TextTraits(op.text, g))
    [] op.name = "image" -> (plan.layers /\ op.image.layer) \/ op.image.image \in plan.images
    [] op.name = "form"  -> plan.layers /\ plan.form
    [] OTHER -> Marked(plan, op)

\* An occurrence of the user's text that pypdf reads.
IsUsersText(plan, op) == op.name = "text" /\ Says(op.text.read, plan.needle)

\* One operation of the second interpreter: r = [graphics, skip, kept, removed,
\* hits].  It follows the state of what it drops.
Filter(plan, r, op) ==
  LET g == Track(r.graphics, op)
  IN IF r.skip > 0 THEN [r EXCEPT !.skip = Deeper(@, op)]
     ELSE IF Drops(plan, op, r.graphics)
       THEN [r EXCEPT !.graphics = g, !.removed = @ + 1,
               !.skip = IF op.name = "BDC" THEN 1 ELSE 0,
               !.hits = @ + (IF IsUsersText(plan, op) THEN 1 ELSE 0)]
     ELSE [r EXCEPT !.graphics = g, !.kept = Append(@, op)]

Unread == [graphics |-> Fresh, skip |-> 0, kept |-> <<>>, removed |-> 0, hits |-> 0]

Rewritten(plan, ops) == FoldLeft(LAMBDA r, op : Filter(plan, r, op), Unread, ops)

\* The form is rewritten once, with the traits of all its draw sites together.
FormTraits ==
  LET sites == {o \in seen : o.kind = "form"}
  IN IF request.mode = "both"
       THEN [diagonal |-> \E o \in sites : o.traits.diagonal,
             clear |-> \E o \in sites : o.traits.clear]
       ELSE [diagonal |-> FALSE, clear |-> FALSE]

HasForm(ops) == \E k \in DOMAIN ops : ops[k].name = "form"

FormGoes(ops) == formKept /\ HasForm(ops) /\ TextGoes(RewritePlan, FormWord, FormTraits)

RewritePage ==
  LET ops == pages[Len(output) + 1]
      r == Rewritten(RewritePlan, ops)
      form == IF FormGoes(ops) THEN 1 ELSE 0
  IN /\ stage = "rewrite" /\ Len(output) < Len(pages)
     /\ output' = Append(output, r.kept)
     /\ removed' = removed + r.removed + form
     /\ formKept' = (formKept /\ form = 0)
     /\ userHits' = userHits + r.hits
                      + (IF form = 1 /\ Says(FormWord, request.text) THEN 1 ELSE 0)
     /\ UNCHANGED <<request, pages, graphics, seen, targets, marks, stage>>

StrippedAnnotations ==
  IF request.mode \in {"annotations", "both"} THEN request.annots ELSE 0

\* Something is tied to the watermark layer.
OnLayer(op) == \/ op.name = "BDC" /\ op.tag = "layer"
               \/ op.name = "image" /\ op.image.layer
               \/ op.name = "form" /\ request.form

\* The watermark layers that are switched off in the viewer's configuration.
DisabledLayers ==
  IF StripLayers /\ \E ops \in ToSet(pages) : \E k \in DOMAIN ops : OnLayer(ops[k])
    THEN 1 ELSE 0

\* What is in a set of a sequence, in its order.
Only(seq, set) ==
  FoldLeft(LAMBDA kept, x : IF x \in set THEN Append(kept, x) ELSE kept, <<>>, seq)

\* PyMuPDF finds more than pypdf reads, and less.
Matches(ops, said) ==
  {k \in DOMAIN ops : ops[k].name = "text" /\ ops[k].text.found /\ Says(ops[k].text.word, said)}

\* Redaction takes every text at the place of a match, whatever it says, and
\* leaves the state that its object sets.
Erase(places, op) == IF op.name = "text" /\ op.text.place \in places
                      THEN [name |-> "gs", alpha |-> op.text.sets] ELSE op

\* Mutant: no second look with PyMuPDF.
MarksMutant == [k \in DOMAIN output |-> {}]

\* PyMuPDF runs when the interpreters found no text of the user's, on what they
\* have left.  (The form says nothing of the user's then.)
Marks == [k \in DOMAIN output |->
            IF userHits = 0 THEN {output[k][j].text.place : j \in Matches(output[k], request.text)}
            ELSE {}]

Redacted(places, ops) == [j \in DOMAIN ops |-> Erase(places, ops[j])]

\* The job fails when it was to remove a text and nothing at all was removed.
Save ==
  LET matched == [k \in DOMAIN output |->
                    IF userHits = 0 THEN Cardinality(Matches(output[k], request.text)) ELSE 0]
      total == removed + StrippedAnnotations + DisabledLayers
                 + SumFunctionOnSet(matched, DOMAIN output)
  IN /\ stage = "rewrite" /\ Len(output) = Len(pages)
     /\ marks' = Marks
     /\ output' = [k \in DOMAIN output |-> Redacted(Marks[k], output[k])]
     /\ formKept' = (formKept /\ ~\E k \in DOMAIN output : HasForm(output[k]) /\ FormPlace \in Marks[k])
     /\ removed' = total
     /\ stage' = IF request.text # NoWord /\ total = 0 THEN "failed" ELSE "done"
     /\ UNCHANGED <<request, pages, graphics, seen, targets, userHits>>

WatermarkNext ==
  \/ \E op \in Ops : Read(op)
  \/ NextPage
  \/ \E asked \in Requests : Decide(asked)
  \/ RewritePage
  \/ Save

WatermarkSpec == WatermarkInit /\ [][WatermarkNext]_watermarkVars

-----------------------------------------------------------------------------
(* Properties *)

Drawn == {"text", "image", "form"}

\* A drawing with the state it comes upon.
Drawing(op, g) == [op |-> op, angle |-> g.angle, alpha |-> g.alpha]

Drawings == [op: {op \in Ops : op.name \in Drawn}, angle: 0..7, alpha: Alphas]

\* What a viewer shows of a stream, in order, each with the state it is drawn
\* in; the marked content that goes is left out.  v = [graphics, skip, shown].
View(plan, v, op) ==
  LET g == Track(v.graphics, op)
  IN IF v.skip > 0 \/ Marked(plan, op)
       THEN [v EXCEPT !.graphics = g,
               !.skip = @ + (CASE op.name = "BDC" -> 1 [] op.name = "EMC" -> -1
                               [] OTHER -> 0)]
     ELSE [v EXCEPT !.graphics = g,
             !.shown = IF op.name \in Drawn THEN Append(@, Drawing(op, v.graphics)) ELSE @]

Unseen == [graphics |-> Fresh, skip |-> 0, shown |-> <<>>]

Viewed(plan, ops) == FoldLeft(LAMBDA v, op : View(plan, v, op), Unseen, ops)

Shown(plan, ops) == Viewed(plan, ops).shown

IsTarget(plan, d) ==
  CASE d.op.name = "text" ->
         \/ Says(d.op.text.read, plan.needle)
         \/ /\ d.op.text.read \in plan.texts
            /\ Diagonal(d.op.text.angle + d.angle) \/ "clear" \in {d.alpha, d.op.text.sets}
    [] d.op.name = "image" -> (plan.layers /\ d.op.image.layer) \/ d.op.image.image \in plan.images
    [] d.op.name = "form" -> plan.layers /\ plan.form

\* What is to stay, on a page of which some places are redacted.
Spared(plan, places) ==
  {d \in Drawings : /\ ~IsTarget(plan, d)
                    /\ ~(d.op.name = "text" /\ d.op.text.place \in places)}

\* The drawings without their alpha.
Outline(drawings) == [i \in DOMAIN drawings |-> [op |-> drawings[i].op, angle |-> drawings[i].angle]]

\* Of a text that says a target the state it sets may go with it.
Strays(plan, ops) ==
  \E k \in DOMAIN ops : /\ ops[k].name = "text" /\ ops[k].text.sets # "none"
                        /\ Says(ops[k].text.read, plan.needle) \/ ops[k].text.read \in plan.texts

MarksOf(k) == IF stage = "done" THEN marks[k] ELSE {}

\* The new page shows everything but the targets and what is redacted, each
\* drawing where it was: neither a dropped operation nor a dropped section of
\* marked content, however nested, disturbs what follows it, but for the alpha
\* that a dropped text had set.  What is redacted is where the user's text was.
OnlyTargetsGo ==
  stage \in {"rewrite", "done"} =>
    \A k \in DOMAIN output :
      LET shown == Shown(RewritePlan, output[k])
          due   == Only(Shown(RewritePlan, pages[k]), Spared(RewritePlan, MarksOf(k)))
      IN /\ Outline(shown) = Outline(due)
         /\ ~Strays(RewritePlan, pages[k]) => shown = due
         /\ \A place \in MarksOf(k) :
              \E j \in Matches(pages[k], request.text) : pages[k][j].text.place = place

\* Upright text that is opaque from the beginning of its object, does not say
\* what the user wants gone, and is not where PyMuPDF found that.
Headings(plan, places) ==
  {d \in Drawings : /\ d.op.name = "text" /\ ~Says(d.op.text.read, plan.needle)
                    /\ ~Diagonal(d.op.text.angle + d.angle)
                    /\ d.alpha = "opaque" /\ d.op.text.sets # "clear"
                    /\ d.op.text.place \notin places}

\* Upright, opaque text is never removed for what other text looks like.
HeadingsSurvive ==
  stage \in {"rewrite", "done"} =>
    \A k \in DOMAIN output : ~Strays(RewritePlan, pages[k]) =>
      LET headings == Headings(RewritePlan, MarksOf(k))
      IN Only(Shown(RewritePlan, output[k]), headings) = Only(Shown(RewritePlan, pages[k]), headings)

\* A completed job leaves no occurrence of the user's text that pypdf reads, in
\* the form neither; with none of those, none that PyMuPDF finds.
UserTextGoes ==
  stage = "done" /\ request.text # NoWord =>
    /\ \A ops \in ToSet(output) : \A k \in DOMAIN ops :
         ops[k].name = "text" => ~Says(ops[k].text.read, request.text)
    /\ Says(FormWord, request.text) /\ (\E o \in seen : o.kind = "form") => ~formKept
    /\ userHits = 0 => \A ops \in ToSet(output) : Matches(ops, request.text) = {}

\* A job that reports nothing removed returns the document unchanged, and one
\* that was to remove a text does not complete then.
CountIsHonest ==
  stage \in {"done", "failed"} =>
    /\ removed = 0 => output = pages /\ formKept
    /\ (stage = "failed") = (removed = 0 /\ request.text # NoWord)

FullPage(o) == o.kind = "image" /\ o.traits.area = "full"

\* The image draws of the source that are still in the output.
Survives(o) ==
  LET draw == pages[o.page][o.at]
  IN Len(Only(output[o.page], {draw})) = Len(Only(pages[o.page], {draw}))

\* Drawn within marked content that goes.
Doomed(o) == Viewed(RewritePlan, SubSeq(pages[o.page], 1, o.at - 1)).skip > 0

\* A scan that is drawn straight and opaque, and on no watermark layer, is never
\* taken for a watermark.
StraightScansSurvive ==
  stage = "done" =>
    \A o \in seen : /\ FullPage(o) /\ ~(StripLayers /\ OnLayer(pages[o.page][o.at]))
                    /\ \A p \in seen : p.what = o.what /\ p.kind = "image" =>
                         FullPage(p) /\ ~p.traits.diagonal /\ ~p.traits.clear
      => Survives(o) \/ \E p \in seen : p.what = o.what /\ Doomed(p)

\* All of these: what is no watermark is on the page as it was.
TheRestIsKept == OnlyTargetsGo /\ HeadingsSurvive /\ StraightScansSurvive

\* Both: what the user wants gone is gone when the job says so.
RemovalIsHonest == UserTextGoes /\ CountIsHonest
=============================================================================
