------------------------------- MODULE PageTools -------------------------------
(* A user works on a document with the page tools, one job after another, each *)
(* on an output of the one before: merge, split, rotate, delete, extract,      *)
(* reorder, the stamping tools and the rendering to images.  A document is the *)
(* sequence of its pages; a page keeps which page of an upload it is, its      *)
(* /Rotate flag and the angle of what is drawn on it, in quarter turns, and    *)
(* the stamps on it.  A page selection such as '1,3-5' is a sequence of pairs. *)
EXTENDS Integers, Sequences, FiniteSets, SequencesExt

CONSTANTS
  UploadPages,   \* pages of the first document
  MaxLength,     \* bound on the pages of a document
  MaxCalls,      \* bound on the jobs of a session
  Selections,    \* page selections that pass the pattern of the options
  MaxWorkers,    \* RENDER_PARALLEL_WORKERS ranges over 1..MaxWorkers
  Threshold,     \* RENDER_PARALLEL_THRESHOLD_PAGES
  Crop,          \* the visible area of a page: left, bottom, width, height
  StampTexts,        \* the texts that are stamped, each the widths of its lines
  FontSize, LineStep,
  Picture,       \* width and height of the image that is stamped
  Margin

ASSUME PageAssumption ==
  /\ {UploadPages, MaxLength, MaxCalls, MaxWorkers} \subseteq Nat \ {0}
  /\ {Threshold, Margin} \subseteq Nat
  /\ Selections \subseteq Seq(Nat \X Nat) /\ StampTexts \subseteq Seq(Nat)
  /\ Crop \in [left : Nat, bottom : Nat, width : Nat, height : Nat]
  /\ {FontSize, LineStep} \subseteq Nat
  /\ Picture \in [width : Nat \ {0}, height : Nat \ {0}]

VARIABLES document,  \* the document the user works on
          shelf,     \* the outputs of the last job
          verdict,   \* "completed", or why the last job failed
          images,    \* the page numbers of the images of the last job
          box,       \* where the stamps of the last job lie, in half points
          calls

pageVars == <<document, shelf, verdict, images, box, calls>>

NoBox == [x0 |-> 0, y0 |-> 0, x1 |-> 0, y1 |-> 0]

Turned(angle, by) == (angle + by) % 4

PagesInit == /\ document = [n \in 1..UploadPages |->
                    [id |-> n, flag |-> 0, drawn |-> 0, stamps |-> <<>>]]
             /\ shelf = <<document>>
             /\ verdict = "completed" /\ images = <<>> /\ box = NoBox /\ calls = 0

-----------------------------------------------------------------------------
(* Selections *)

Ascending(first, last) == [k \in 1..(last - first + 1) |-> first + k - 1]

\* What '1,3-5' lists, in the order given; a reversed range lists nothing.
PageList(spec) == FlattenSeq([k \in 1..Len(spec) |->
                    IF spec[k][1] <= spec[k][2]
                      THEN Ascending(spec[k][1], spec[k][2]) ELSE <<>>])

PageSet(spec) == ToSet(PageList(spec))

Accepted == ""

\* Why the page tools refuse a selection.
SelectionError(spec, total) ==
  IF PageList(spec) = <<>> THEN "empty selection"
  ELSE IF PageSet(spec) \subseteq 1..total THEN Accepted ELSE "out of range"

\* The predicate of the stamping tools, which refuses no selection.
Targeted(pages, spec, n, total) ==
  CASE pages = "custom" \/ (pages = "all" /\ spec # <<>>) -> n \in PageSet(spec)
    [] pages = "first" -> n = 1
    [] pages = "last" -> n = total
    [] pages = "odd" -> n % 2 = 1
    [] pages = "even" -> n % 2 = 0
    [] OTHER -> TRUE

Pick(doc, list) == [k \in 1..Len(list) |-> doc[list[k]]]

\* The numbers of a set, in their order.
AscendingOrder(set) == CHOOSE f \in [1..Cardinality(set) -> set] :
                  \A j, k \in DOMAIN f : j < k => f[j] < f[k]

Without(doc, doomed) == Pick(doc, AscendingOrder((1..Len(doc)) \ doomed))

-----------------------------------------------------------------------------
(* What a job leaves behind: its outputs, or the error alone *)

Job == calls < MaxCalls /\ calls' = calls + 1

Produce(outputs) ==
  /\ \A d \in ToSet(outputs) : Len(d) \in 1..MaxLength
  /\ shelf' = outputs /\ verdict' = "completed" /\ images' = <<>>
  /\ \E d \in ToSet(outputs) : document' = d

Fail(why) == /\ verdict' = why /\ images' = <<>>
             /\ box' = NoBox /\ UNCHANGED <<document, shelf>>

-----------------------------------------------------------------------------
(* The organize tools *)

\* The outputs of the last job, in their order; the tool asks for two to twenty.
Merge == /\ Job /\ Len(shelf) \in 2..20
         /\ Produce(<<FlattenSeq(shelf)>>) /\ box' = NoBox

\* Every page, or one part for every entry of the ranges.
SplitSelections(total, everyPage, ranges) ==
  IF everyPage THEN [n \in 1..total |-> <<<<n, n>>>>] ELSE ranges

Split(everyPage, ranges) ==
  LET total == Len(document)
      chosen == SplitSelections(total, everyPage, ranges)
      bad == {k \in DOMAIN chosen : SelectionError(chosen[k], total) # Accepted}
  IN /\ Job
     /\ IF bad # {} THEN Fail(SelectionError(chosen[Min(bad)], total))
        ELSE /\ Produce([k \in 1..Len(chosen) |->
                           Pick(document, PageList(chosen[k]))])
             /\ box' = NoBox

\* Pages chosen by both the selection, if any, and odd or even.
RotatedPage(page, n, spec, applyTo, quarters) ==
  IF /\ spec = <<>> \/ n \in PageSet(spec)
     /\ applyTo # "odd" \/ n % 2 = 1
     /\ applyTo # "even" \/ n % 2 = 0
    THEN [page EXCEPT !.flag = Turned(@, quarters)] ELSE page

Rotate(quarters, spec, applyTo) ==
  LET error == IF spec = <<>> THEN Accepted ELSE SelectionError(spec, Len(document))
  IN /\ Job
     /\ IF error # Accepted THEN Fail(error)
        ELSE /\ Produce(<<[n \in 1..Len(document) |->
                   RotatedPage(document[n], n, spec, applyTo, quarters)]>>)
             /\ box' = NoBox

Delete(spec) ==
  LET error == SelectionError(spec, Len(document))
      doomed == PageSet(spec)
  IN /\ Job
     /\ IF error # Accepted THEN Fail(error)
        ELSE IF Cardinality(doomed) >= Len(document) THEN Fail("every page")
        ELSE Produce(<<Without(document, doomed)>>) /\ box' = NoBox

Extract(spec) ==
  LET error == SelectionError(spec, Len(document))
  IN /\ Job
     /\ IF error # Accepted THEN Fail(error)
        ELSE Produce(<<Pick(document, PageList(spec))>>) /\ box' = NoBox

Reorder(order) ==
  /\ Job /\ order # <<>>
  /\ IF Len(order) = Len(document) /\ ToSet(order) = 1..Len(document)
       THEN Produce(<<Pick(document, order)>>) /\ box' = NoBox
       ELSE Fail("not a permutation")

-----------------------------------------------------------------------------
(* The stamping tools: an overlay on every targeted page.  "on", a history     *)
(* field, is how the page's content was shown when the stamp was made.         *)

\* The angle at which a viewer shows what is drawn on a page.
Seen(page) == Turned(page.drawn, page.flag)

\* Mutant: the flag is left as it is.
BakedMutant(page) == page

\* The /Rotate flag is drawn into the content, stamps included.
Baked(page) ==
  [page EXCEPT !.drawn = Seen(page), !.flag = 0,
     !.stamps = [k \in 1..Len(page.stamps) |->
                   [page.stamps[k] EXCEPT !.turn = Turned(@, page.flag)]]]

Overlaid(page, tool, shows) ==
  LET upright == Baked(page)
  IN [upright EXCEPT !.stamps = Append(@,
        [tool |-> tool, shows |-> shows, turn |-> 0, on |-> Seen(page)])]

\* The drawing space of an overlay is the crop box, moved to its corner.
Placed(x, y, width, height) ==
  [x0 |-> 2 * Crop.left + x, y0 |-> 2 * Crop.bottom + y,
   x1 |-> 2 * Crop.left + x + 2 * width, y1 |-> 2 * Crop.bottom + y + 2 * height]

Positions == {"top", "center", "bottom"} \X {"left", "center", "right"}

Larger(a, b) == IF a > b THEN a ELSE b
Smaller(a, b) == IF a > b THEN b ELSE a

TextBlock(widths) ==
  [width |-> FoldSeq(Larger, 0, widths), height |-> FontSize + LineStep * (Len(widths) - 1)]

\* A share of the short side, in quarters, for the image's long one; or of the page.
ImageBlock(keepAspect, quarters) ==
  IF keepAspect
    THEN LET side == Smaller(Crop.width, Crop.height) * quarters
             most == 4 * Larger(Picture.width, Picture.height)
         IN [width |-> (Picture.width * side) \div most,
             height |-> (Picture.height * side) \div most]
    ELSE [width |-> (Crop.width * quarters) \div 4, height |-> (Crop.height * quarters) \div 4]

\* Twice the centre of a block at one of nine places, without an offset.
AnchorPoint(position, block) ==
  [x |-> CASE position[2] = "left" -> 2 * Margin + block.width
           [] position[2] = "right" -> 2 * (Crop.width - Margin) - block.width
           [] OTHER -> Crop.width,
   y |-> CASE position[1] = "top" -> 2 * (Crop.height - Margin) - block.height
           [] position[1] = "bottom" -> 2 * Margin + block.height
           [] OTHER -> Crop.height]

AnchoredBox(position, block) ==
  LET c == AnchorPoint(position, block)
  IN Placed(c.x - block.width, c.y - block.height, block.width, block.height)

\* A signature's lower left corner, doubled; its width is a share of the page's.
SignatureBox(position, quarters) ==
  LET width == (Crop.width * quarters) \div 4
      height == (width * Picture.height) \div Picture.width
  IN Placed(CASE position[2] = "left" -> 2 * Margin
              [] position[2] = "right" -> 2 * (Crop.width - Margin - width)
              [] OTHER -> Crop.width - width,
            IF position[1] = "top" THEN 2 * (Crop.height - Margin - height)
                                   ELSE 2 * Margin,
            width, height)

\* shows: what is shown on each page that is stamped
Stamp(tool, shows, where) ==
  /\ Job
  /\ Produce(<<[n \in 1..Len(document) |->
                  IF n \in DOMAIN shows THEN Overlaid(document[n], tool, shows[n])
                                        ELSE document[n]]>>)
  /\ box' = IF shows = <<>> THEN NoBox ELSE where

Chosen(pages, spec) ==
  {n \in 1..Len(document) : Targeted(pages, spec, n, Len(document))}

\* The text or the image at one place, or tiled over the page.
Watermark(pages, spec, position, block, tile) ==
  /\ pages = "custom" => spec # <<>>
  /\ Stamp("watermark", [n \in Chosen(pages, spec) |-> 0],
           IF tile THEN NoBox ELSE AnchoredBox(position, block))

\* Both templates may show the number of the page.
HeaderFooter(pages, spec) ==
  /\ pages = "custom" => spec # <<>>
  /\ Stamp("header", [n \in Chosen(pages, spec) |-> n], NoBox)

NumberShown(n, startAt) == n + startAt - 1

PageNumbers(startAt, skipFirst) ==
  Stamp("number",
        [n \in (IF skipFirst THEN 2 ELSE 1)..Len(document) |-> NumberShown(n, startAt)],
        NoBox)

\* The overlay is merged into every page, but drawn on one: 0 is the last.
Sign(target, position, quarters) ==
  LET signed == IF target = 0 THEN Len(document) ELSE target
  IN /\ Job
     /\ Produce(<<[n \in 1..Len(document) |->
                     IF n = signed THEN Overlaid(document[n], "signature", 0)
                                   ELSE Baked(document[n])]>>)
     /\ box' = IF signed <= Len(document) THEN SignatureBox(position, quarters) ELSE NoBox

-----------------------------------------------------------------------------
(* Rendering to images; 0 stands for a page option that is not given *)

\* pdftoppm renders a range that starts within the document.
Rendered(first, last, total) ==
  IF first > last THEN <<>> ELSE Ascending(first, IF last < total THEN last ELSE total)

RenderStart(first) == IF first = 0 THEN 1 ELSE first

RenderEnd(last, total) == IF last = 0 \/ last > total THEN total ELSE last

\* Mutant: a chunk ends with the first page of the next.
ChunkRangesMutant(start, end, workers) ==
  LET size == (end - start + workers) \div workers
      count == (end - start + size) \div size
  IN [k \in 1..count |->
        LET from == start + (k - 1) * size
        IN <<from, IF from + size < end THEN from + size ELSE end>>]

\* The ranges of the threads: ceil(span / workers) pages each.
ChunkRanges(start, end, workers) ==
  LET size == (end - start + workers) \div workers
      count == (end - start + size) \div size
  IN [k \in 1..count |->
        LET from == start + (k - 1) * size
        IN <<from, IF from + size - 1 < end THEN from + size - 1 ELSE end>>]

Render(first, last, workers) ==
  LET total == Len(document)
      start == RenderStart(first)
      end == RenderEnd(last, total)
      ranges == IF end - start + 1 <= Threshold THEN <<<<start, end>>>>
                ELSE ChunkRanges(start, end, workers)
      rendered == FlattenSeq([k \in 1..Len(ranges) |->
                                Rendered(ranges[k][1], ranges[k][2], total)])
  IN /\ Job /\ (first # 0 /\ last # 0 => first <= last)
     /\ IF rendered = <<>> THEN Fail("no pages rendered")
        ELSE /\ images' = rendered /\ verdict' = "completed"
             /\ box' = NoBox /\ UNCHANGED <<document, shelf>>

-----------------------------------------------------------------------------

Targets == {"all", "first", "last", "odd", "even", "custom"}

PageOption == 0..MaxLength + 1

Orders(n) == {f \in [1..n -> 1..n] : IsInjective(f)}

OrganizeNext ==
  \/ Merge
  \/ \E s \in Selections, t \in Selections, everyPage \in BOOLEAN :
       Split(everyPage, IF everyPage THEN <<>> ELSE <<s, t>>)
  \/ \E q \in 1..3, s \in Selections \cup {<<>>}, a \in {"all", "odd", "even"} :
       Rotate(q, s, a)
  \/ \E s \in Selections : Delete(s)
  \/ \E s \in Selections : Extract(s)
  \/ \E order \in Orders(Len(document)) : Reorder(order)
  \/ \E s \in Selections : Reorder(PageList(s))

StampNext ==
  \/ \E pages \in Targets, s \in Selections \cup {<<>>}, p \in Positions, w \in StampTexts :
       Watermark(pages, s, p, TextBlock(w), FALSE)
  \/ \E p \in Positions, keepAspect \in BOOLEAN, quarters \in 1..3, tile \in BOOLEAN :
       Watermark("all", <<>>, p, ImageBlock(keepAspect, quarters), tile)
  \/ \E pages \in Targets, s \in Selections \cup {<<>>} : HeaderFooter(pages, s)
  \/ \E n \in {1, 5}, skip \in BOOLEAN : PageNumbers(n, skip)
  \/ \E target \in PageOption, p \in {"top", "bottom"} \X {"left", "center", "right"} :
       Sign(target, p, 2)

PagesNext ==
  \/ OrganizeNext
  \/ StampNext
  \/ \E f \in PageOption, l \in PageOption, w \in 1..MaxWorkers : Render(f, l, w)

PagesSpec == PagesInit /\ [][PagesNext]_pageVars

-----------------------------------------------------------------------------
(* Properties *)

\* Whatever was rotated before or after, a stamp stands to the content of its
\* page as upright text stood to what the viewer showed when it was stamped.
StampsReadUpright ==
  \A n \in 1..Len(document) : \A k \in 1..Len(document[n].stamps) :
    LET stamp == document[n].stamps[k]
    IN (document[n].drawn - stamp.turn) % 4 = stamp.on

\* A stamp without an offset that fits between the margins lies within what a
\* viewer shows of the page, on documents cropped away from the corner of their
\* media box too.
StampsStayVisible ==
  /\ box.x1 - box.x0 <= 2 * (Crop.width - 2 * Margin)
  /\ box.y1 - box.y0 <= 2 * (Crop.height - 2 * Margin)
  /\ box # NoBox
  => /\ 2 * Crop.left <= box.x0
     /\ 2 * Crop.bottom <= box.y0
     /\ box.x1 <= 2 * (Crop.left + Crop.width)
     /\ box.y1 <= 2 * (Crop.bottom + Crop.height)

\* Both: a stamp is read where and as its user placed it.
StampsFit == StampsReadUpright /\ StampsStayVisible

\* The threads of a rendering produce every requested page once, in order, as
\* a single pdftoppm would.
ImagesAreThePages ==
  [][images' # <<>> =>
     \A f \in PageOption, l \in PageOption, w \in 1..MaxWorkers : Render(f, l, w) =>
         images' = Rendered(RenderStart(f), RenderEnd(l, Len(document)),
                            Len(document))]_pageVars

\* "Number shown on the first stamped page" (of start_at).
NumberingStartsAtStart ==
  [][\A s \in {1, 5}, skip \in BOOLEAN : PageNumbers(s, skip) =>
       LET numbered == {n \in 1..Len(document) : skip => n # 1}
       IN \A n \in numbered : (\A k \in numbered : n <= k) =>
            LET stamps == document'[n].stamps
            IN stamps[Len(stamps)].shows = s]_pageVars
=============================================================================
