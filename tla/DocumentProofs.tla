---------------------------- MODULE DocumentProofs ----------------------------
(***************************************************************************)
(* Theorems about the tools that work on documents, for documents and page  *)
(* selections of any size: stamps, the rendering to images, redaction, the   *)
(* conversion to Word, the admission of a job to its plan, its results, and  *)
(* the removal of watermarks.                                                *)
(***************************************************************************)
EXTENDS PageTools, DocumentTools, WordConversion, ToolCatalog, WatermarkRemoval, Inductions

(* Admission                                                                *)

LEMMA SameTotal ==
  ASSUME NEW inputs
  PROVE  Total(inputs) = MapThenSumSet(LAMBDA i : inputs[i].size, DOMAIN inputs)
BY DEF Total, FoldSeq, FoldFunction, FoldFunctionOnSet, MapThenSumSet, MapThenFoldSet

LEMMA TotalIsNatural ==
  ASSUME NEW inputs \in Seq(Uploads)
  PROVE  Total(inputs) \in Nat
<1>1. PICK S : S = DOMAIN inputs
  OBVIOUS
<1>2. PICK f : f = [i \in S |-> inputs[i].size]
  OBVIOUS
<1>3. f \in [S -> Nat] /\ \A i \in S : f[i] = inputs[i].size
  BY <1>1, <1>2, CatalogAssumption
<1>4. IsFiniteSet(S)
  <2>1. Len(inputs) \in Nat /\ S = 1..Len(inputs)
    BY <1>1
  <2> QED  BY <2>1, FS_Interval
<1>5. PICK g \in [SUBSET S -> Nat] : Adds(g, f, S)
  BY <1>3, <1>4, AddsExists
<1> DEFINE Eq(h) == h = [s \in SUBSET S |-> IF s = {} THEN 0
                           ELSE inputs[AnyOf(s)].size + h[s \ {AnyOf(s)}]]
<1>6. \A s \in SUBSET S : s # {} => AnyOf(s) \in S
  BY DEF AnyOf
<1>7. Eq(g)
  BY <1>3, <1>5, <1>6 DEF Adds
<1>8. PICK h : h = CHOOSE i : Eq(i)
  OBVIOUS
<1>9. Eq(h)
  <2> HIDE DEF Eq
  <2> QED  BY <1>7, <1>8
<1>10. Adds(h, f, S)
  BY <1>3, <1>6, <1>9 DEF Adds
<1>11. Total(inputs) = h[S]
  BY <1>1, <1>8 DEF Total, FoldSeq, FoldFunction, FoldFunctionOnSet, MapThenFoldSet, AnyOf
<1>12. h[S] = g[S]
  <2>1. \A x \in S : f[x] \in Nat
    BY <1>3
  <2>2. \A s \in SUBSET S : h[s] = g[s]
    BY <1>4, <1>5, <1>10, <2>1, AddsUnique
  <2>3. S \in SUBSET S
    OBVIOUS
  <2> QED  BY <2>2, <2>3
<1> QED
  BY <1>5, <1>11, <1>12

LEMMA ErrorsAreErrors ==
  NoError \notin {"options", "tool range", "plan files", "plan total",
                  "not found", "not accepted", "too large"}
BY Zenon DEF NoError

LEMMA AcceptedInputs ==
  ASSUME NEW slug, NEW inputs \in Seq(Uploads), NEW caller, InputError(slug, inputs, caller) = NoError
  PROVE  /\ \A i \in DOMAIN inputs : FileError(slug, inputs[i], caller) = NoError
         /\ Len(inputs) \in Catalog[slug].least..Catalog[slug].most
         /\ ~ (Len(inputs) > LimitsFor(caller).files)
         /\ ~ (Total(inputs) > LimitsFor(caller).total)
<1>1. PICK bad : bad = {k \in DOMAIN inputs : FileError(slug, inputs[k], caller) # NoError}
  OBVIOUS
<1>2. InputError(slug, inputs, caller) =
        IF Len(inputs) \notin Catalog[slug].least..Catalog[slug].most THEN "tool range"
        ELSE IF Len(inputs) > LimitsFor(caller).files THEN "plan files"
        ELSE IF bad # {} THEN FileError(slug, inputs[Min(bad)], caller)
        ELSE IF Total(inputs) > LimitsFor(caller).total THEN "plan total" ELSE NoError
  BY <1>1 DEF InputError
<1>3. bad # {} => FileError(slug, inputs[Min(bad)], caller) # NoError
  <2> SUFFICES ASSUME bad # {} PROVE FileError(slug, inputs[Min(bad)], caller) # NoError
    OBVIOUS
  <2>1. bad \subseteq Nat
    <3>1. PICK S : S = DOMAIN inputs
      OBVIOUS
    <3>2. S = 1..Len(inputs) /\ Len(inputs) \in Nat
      BY <3>1
    <3>3. S \subseteq Nat
      BY <3>2
    <3> QED  BY <1>1, <3>1, <3>3
  <2>2. \E n \in bad : \A m \in bad : n <= m
    BY <2>1, LeastNumber
  <2>3. Min(bad) \in bad
    BY <2>2 DEF Min
  <2> QED  BY <1>1, <2>3
<1>4. Len(inputs) \in Catalog[slug].least..Catalog[slug].most
  BY <1>2, ErrorsAreErrors
<1>5. ~ (Len(inputs) > LimitsFor(caller).files)
  BY <1>2, <1>4, ErrorsAreErrors
<1>6. bad = {}
  BY <1>2, <1>3, <1>4, <1>5
<1>7. ~ (Total(inputs) > LimitsFor(caller).total)
  BY <1>2, <1>4, <1>5, <1>6, ErrorsAreErrors
<1> QED
  BY <1>1, <1>4, <1>5, <1>6, <1>7

WithinPlan(job) ==
  job.stage = "queued" =>
    /\ \A i \in DOMAIN job.inputs : job.inputs[i].owner = job.caller
    /\ Len(job.inputs) <= LimitsFor(job.caller).files
    /\ Total(job.inputs) <= LimitsFor(job.caller).total

\* Whatever a client names as inputs, those of a job that create_job admits are all
\* its caller's own, and neither their number nor their sizes together pass the
\* limits of the caller's plan, though a file may be named more than once.
THEOREM JobsStayWithinPlan == CatalogSpec => []AdmittedWithinPlan
<1>1. CatalogInit => WithinPlan(task)
  BY DEF CatalogInit, Idle, WithinPlan
<1>2. WithinPlan(task) /\ [CatalogNext]_catalogVars => WithinPlan(task)'
  <2> SUFFICES ASSUME WithinPlan(task), [CatalogNext]_catalogVars
               PROVE  WithinPlan(task')
    BY DEF WithinPlan
  <2>1. CASE UNCHANGED task
    BY <2>1
  <2>2. CASE task'.stage # "queued"
    BY <2>2 DEF WithinPlan
  <2>3. ASSUME NEW slug \in DOMAIN Catalog, NEW o, NEW inputs \in BoundedSeq(Uploads, MaxInputs),
               NEW caller \in Callers, CreateJob(slug, o, inputs, caller), task'.stage = "queued"
        PROVE  WithinPlan(task')
    <3>1. inputs \in Seq(Uploads) /\ Len(inputs) \in Nat
      BY <2>3 DEF BoundedSeq, SeqOf
    <3>2. PICK error : error = IF OptionsValid(slug, o) THEN InputError(slug, inputs, caller)
                               ELSE "options"
      OBVIOUS
    <3>3. task' = IF error # NoError THEN [stage |-> "refused", why |-> error]
                  ELSE [stage |-> "queued", tool |-> slug, options |-> o,
                        inputs |-> inputs, caller |-> caller]
      BY <2>3, <3>2 DEF CreateJob
    <3>4. error = NoError /\ InputError(slug, inputs, caller) = NoError
      BY <2>3, <3>2, <3>3, ErrorsAreErrors
    <3>5. task'.inputs = inputs /\ task'.caller = caller
      BY <3>3, <3>4
    <3>6. /\ \A i \in DOMAIN inputs : FileError(slug, inputs[i], caller) = NoError
          /\ ~ (Len(inputs) > LimitsFor(caller).files)
          /\ ~ (Total(inputs) > LimitsFor(caller).total)
      BY <3>1, <3>4, AcceptedInputs
    <3>7. \A i \in DOMAIN inputs : inputs[i].owner = caller
      BY <3>6, ErrorsAreErrors DEF FileError, GetActive
    <3>8. LimitsFor(caller) \in [files : Nat, size : Nat, total : Nat]
      BY CatalogAssumption DEF LimitsFor
    <3>9. Total(inputs) \in Nat
      BY <3>1, TotalIsNatural
    <3>10. LimitsFor(caller).files \in Nat /\ LimitsFor(caller).total \in Nat
      BY <3>8
    <3>11. Len(inputs) <= LimitsFor(caller).files
      BY <3>1, <3>6, <3>10
    <3>12. Total(inputs) <= LimitsFor(caller).total
      BY <3>6, <3>9, <3>10
    <3> QED
      BY <3>5, <3>7, <3>11, <3>12 DEF WithinPlan
  <2>4. task'.stage = "queued" =>
          \/ UNCHANGED task
          \/ \E slug \in DOMAIN Catalog : \E o \in SUBSET Catalog[slug].keys,
               inputs \in BoundedSeq(Uploads, MaxInputs), caller \in Callers :
                 CreateJob(slug, o, inputs, caller)
    <3>1. ASSUME Run
          PROVE  task'.stage # "queued"
      <4>1. \E why, outputs : End("failed", why, outputs) \/ End("completed", why, outputs)
        BY <3>1 DEF Run
      <4> QED  BY <4>1 DEF End
    <3>2. ASSUME NEW files, NEW caller, FilesArchive(files, caller)
          PROVE  task'.stage # "queued"
      BY <3>2 DEF FilesArchive
    <3>3. (\E u \in Uploads : Vanish(u)) \/ JobArchive => UNCHANGED task
      BY DEF Vanish, JobArchive
    <3>4. CASE CatalogNext
      BY <3>1, <3>2, <3>3, <3>4 DEF CatalogNext
    <3> QED
      BY <3>4 DEF catalogVars
  <2> QED
    BY <2>1, <2>2, <2>3, <2>4
<1>3. WithinPlan(task) => AdmittedWithinPlan
  BY SameTotal DEF WithinPlan, AdmittedWithinPlan
<1> QED
  BY <1>1, <1>2, <1>3, PTL DEF CatalogSpec

-----------------------------------------------------------------------------
(* Redaction                                                                *)

HasPages == "page" \in DOMAIN doc

LEMMA DocumentsHavePages == DocumentSpec => []HasPages
<1>1. DocumentInit => HasPages
  BY DEF DocumentInit, HasPages
<1>2. HasPages /\ [DocumentNext]_documentVars => HasPages'
  <2> SUFFICES ASSUME HasPages, [DocumentNext]_documentVars
               PROVE  DOMAIN doc' = DOMAIN doc
    BY DEF HasPages
  <2>1. ASSUME NEW why, Refuse(why)
        PROVE  DOMAIN doc' = DOMAIN doc
    BY <2>1 DEF Refuse
  <2>2. ASSUME NEW tool, NEW result, Write(tool, result), DOMAIN result = DOMAIN doc
        PROVE  DOMAIN doc' = DOMAIN doc
    BY <2>2 DEF Write
  <2>3. ASSUME NEW terms, NEW areas, Redact(terms, areas)
        PROVE  DOMAIN doc' = DOMAIN doc
    BY <2>1, <2>3 DEF Redact, Tool
  <2>4. ASSUME NEW given, NEW clear, Metadata(given, clear)
        PROVE  DOMAIN doc' = DOMAIN doc
    BY <2>1, <2>2, <2>4 DEF Metadata, Tool
  <2>5. ASSUME NEW given, FillForm(given)
        PROVE  DOMAIN doc' = DOMAIN doc
    BY <2>1, <2>2, <2>5 DEF FillForm, Tool, Rebuilt
  <2>6. ASSUME NEW user, NEW owner, Protect(user, owner)
        PROVE  DOMAIN doc' = DOMAIN doc
    BY <2>1, <2>2, <2>6 DEF Protect, Tool
  <2>7. ASSUME NEW password, Unlock(password)
        PROVE  DOMAIN doc' = DOMAIN doc
    BY <2>1, <2>2, <2>7 DEF Unlock, Rebuilt
  <2>8. CASE Repair
    BY <2>1, <2>2, <2>8 DEF Repair
  <2>9. CASE Compress
    BY <2>1, <2>2, <2>9 DEF Compress, Tool
  <2>10. ASSUME NEW detect, NEW l, NEW force, Ocr(detect, l, force)
         PROVE  DOMAIN doc' = DOMAIN doc
    BY <2>1, <2>10 DEF Ocr, Tool
  <2>11. ASSUME NEW other, Compare(other)
         PROVE  DOMAIN doc' = DOMAIN doc
    BY <2>1, <2>2, <2>11 DEF Compare, Tool
  <2>12. CASE UNCHANGED documentVars
    BY <2>12 DEF documentVars
  <2> QED
    BY <2>3, <2>4, <2>5, <2>6, <2>7, <2>8, <2>9, <2>10, <2>11, <2>12 DEF DocumentNext
<1> QED
  BY <1>1, <1>2, PTL DEF DocumentSpec

LEMMA RefusalsAreNamed == OpenError # "redacted"
<1>1. NoText # "redacted"
  BY Zenon DEF NoText
<1> QED
  BY <1>1 DEF OpenError

\* What covers a cell, and when.
LEMMA CoverIs ==
  ASSUME NEW p \in 1..Pages, NEW c \in 1..Width, NEW terms, NEW areas \in SUBSET PageAreas
  PROVE  /\ Painted(p, c, areas) # {} => Cover(p, c, terms, areas) # "none"
         /\ (\E t \in terms : Shows(p, c, t)) => Cover(p, c, terms, areas) # "none"
         /\ Cover(p, c, terms, areas) # "none" =>
              \/ \E t \in terms : Shows(p, c, t)
              \/ \E a \in areas : a.page = p /\ c \in a.from + 1..a.to
<1>1. PICK styles : styles = Painted(p, c, areas)
  OBVIOUS
<1>2. "none" \notin styles
  BY <1>1, DocumentAssumption DEF Painted, PageAreas
<1>3. Cover(p, c, terms, areas) =
        IF "blurred" \in styles THEN "blurred"
        ELSE IF styles # {} THEN CHOOSE s \in styles : TRUE
        ELSE IF \E t \in terms : Shows(p, c, t) THEN "black" ELSE "none"
  BY <1>1 DEF Cover
<1>4. styles # {} => Cover(p, c, terms, areas) # "none"
  BY <1>2, <1>3
<1>5. ASSUME styles # {}
      PROVE  \E a \in areas : a.page = p /\ c \in a.from + 1..a.to
  <2>1. PICK a \in areas : a.page = p /\ c \in AreaCells(a)
    BY <1>1, <1>5 DEF Painted
  <2>2. a.from \in Nat /\ a.to \in Nat /\ c \in Nat /\ a.from < c /\ c <= a.to
    BY <2>1, DocumentAssumption DEF AreaCells, PageAreas
  <2> QED  BY <2>1, <2>2
<1> QED
  BY <1>1, <1>3, <1>4, <1>5

\* A redaction that completes found every term it was asked for, leaves none of
\* them in the text layer and no word under an area, and alters no cell but those:
\* redact_text, for pages of any number and width.
THEOREM RedactionsAreExact == DocumentSpec => RedactionIsExact
<1> DEFINE Exact ==
      /\ NothingSensitiveLeft'
      /\ \A t \in asked'.terms : \E p \in 1..Pages, c \in 1..Width : Shows(p, c, t)
      /\ \A p \in 1..Pages, c \in 1..Width :
           \/ doc'.page[p][c] = doc.page[p][c]
           \/ \E t \in asked'.terms : Shows(p, c, t)
           \/ \E a \in asked'.areas : a.page = p /\ c \in a.from + 1..a.to
<1>1. HasPages /\ [DocumentNext]_documentVars =>
        [outcome' = "redacted" /\ used' # used => Exact]_documentVars
  <2> SUFFICES ASSUME HasPages, DocumentNext, outcome' = "redacted"
               PROVE  Exact
    BY DEF documentVars
  <2>1. \A why : Refuse(why) => outcome' = why
    BY DEF Refuse
  <2>2. \A tool, result : Write(tool, result) => outcome' = tool
    BY DEF Write
  <2>3. OpenError # "redacted"
    BY RefusalsAreNamed
  <2>4. \E terms \in SUBSET Words, areas \in SUBSET PageAreas : Redact(terms, areas)
    <3>1. ASSUME NEW terms \in SUBSET Words, NEW areas \in FewAreas, Redact(terms, areas)
          PROVE  \E t \in SUBSET Words, a \in SUBSET PageAreas : Redact(t, a)
      <4>1. areas \in SUBSET PageAreas
        BY <3>1 DEF FewAreas
      <4> QED  BY <3>1, <4>1
    <3>2. \A given, clear : ~ Metadata(given, clear)
      BY <2>1, <2>2, <2>3 DEF Metadata, Tool
    <3>3. \A given : ~ FillForm(given)
      BY <2>1, <2>2, <2>3 DEF FillForm, Tool
    <3>4. \A user, owner : ~ Protect(user, owner)
      BY <2>1, <2>2, <2>3 DEF Protect, Tool
    <3>5. \A password : ~ Unlock(password)
      BY <2>1, <2>2 DEF Unlock
    <3>6. ~ Repair
      BY <2>1, <2>2 DEF Repair
    <3>7. ~ Compress
      BY <2>1, <2>2, <2>3 DEF Compress, Tool
    <3>8. \A detect, l, force : ~ Ocr(detect, l, force)
      BY <2>1, <2>3 DEF Ocr, Tool
    <3>9. \A other : ~ Compare(other)
      BY <2>1, <2>2, <2>3 DEF Compare, Tool
    <3> QED
      BY <3>1, <3>2, <3>3, <3>4, <3>5, <3>6, <3>7, <3>8, <3>9 DEF DocumentNext
  <2>5. PICK terms \in SUBSET Words, areas \in SUBSET PageAreas : Redact(terms, areas)
    BY <2>4
  <2>6. /\ Missing(terms) = {}
        /\ asked' = [terms |-> terms, areas |-> areas]
        /\ doc' = [doc EXCEPT !.page = [p \in 1..Pages |-> [c \in 1..Width |->
                     RedactedCell(p, c, terms, areas)]]]
    BY <2>1, <2>3, <2>5 DEF Redact, Tool
  <2>7. asked'.terms = terms /\ asked'.areas = areas
    BY <2>6
  <2>8. \A p \in 1..Pages, c \in 1..Width :
          doc'.page[p][c] = RedactedCell(p, c, terms, areas)
    BY <2>6 DEF HasPages
  <2>9. NothingSensitiveLeft'
    <3>1. ASSUME NEW p \in 1..Pages, NEW c \in 1..Width, Cover(p, c, terms, areas) # "none"
          PROVE  doc'.page[p][c].word = NoText
      <4>1. doc'.page[p][c] = RedactedCell(p, c, terms, areas)
        BY <2>8
      <4>2. RedactedCell(p, c, terms, areas).word = NoText
        BY <3>1 DEF RedactedCell
      <4> QED  BY <4>1, <4>2
    <3>2. ASSUME NEW p \in 1..Pages, NEW c \in 1..Width, NEW t \in terms, Shows(p, c, t)'
          PROVE  FALSE
      <4>1. doc'.page[p][c].word = t /\ ~ doc'.page[p][c].scanned
        BY <3>2 DEF Shows
      <4>2. t # NoText
        BY DocumentAssumption
      <4>3. doc'.page[p][c] = doc.page[p][c]
        BY <2>8, <3>1, <4>1, <4>2 DEF RedactedCell
      <4>4. Shows(p, c, t)
        BY <4>1, <4>3 DEF Shows
      <4> QED  BY <3>1, <4>1, <4>2, <4>4, CoverIs
    <3>3. ASSUME NEW p \in 1..Pages, NEW c \in 1..Width, Painted(p, c, areas) # {}
          PROVE  doc'.page[p][c].word = NoText
      BY <3>1, <3>3, CoverIs
    <3>4. \A p, c : Painted(p, c, asked.areas)' = Painted(p, c, areas)
      BY <2>7 DEF Painted, AreaCells
    <3> QED  BY <2>7, <3>2, <3>3, <3>4 DEF NothingSensitiveLeft
  <2>10. \A t \in terms : \E p \in 1..Pages, c \in 1..Width : Shows(p, c, t)
    BY <2>6 DEF Missing, Hits
  <2>11. ASSUME NEW p \in 1..Pages, NEW c \in 1..Width
         PROVE  \/ doc'.page[p][c] = doc.page[p][c]
                \/ \E t \in terms : Shows(p, c, t)
                \/ \E a \in areas : a.page = p /\ c \in a.from + 1..a.to
    <3>1. CASE Cover(p, c, terms, areas) = "none"
      <4>1. doc'.page[p][c] = RedactedCell(p, c, terms, areas)
        BY <2>8
      <4>2. RedactedCell(p, c, terms, areas) = doc.page[p][c]
        BY <3>1 DEF RedactedCell
      <4> QED  BY <4>1, <4>2
    <3>2. CASE Cover(p, c, terms, areas) # "none"
      BY <3>2, CoverIs
    <3> QED  BY <3>1, <3>2
  <2> QED
    BY <2>7, <2>9, <2>10, <2>11
<1> QED
  BY <1>1, DocumentsHavePages, PTL DEF DocumentSpec, RedactionIsExact

-----------------------------------------------------------------------------
(* Stamps                                                                   *)

Quarters == 0..3

StampRecords == [tool : {"watermark", "header", "number", "signature"}, shows : Int,
                 turn : Quarters, on : Quarters]

PageRecords == [id : Nat, flag : Quarters, drawn : Quarters, stamps : Seq(StampRecords)]

Upright(page) ==
  \A k \in 1..Len(page.stamps) :
    (page.drawn - page.stamps[k].turn) % 4 = page.stamps[k].on

UprightPages == {page \in PageRecords : Upright(page)}
Documents == Seq(UprightPages)

LEMMA Turns ==
  ASSUME NEW a \in Quarters, NEW t \in Quarters, NEW by \in Quarters
  PROVE  /\ Turned(a, by) \in Quarters
         /\ (Turned(a, by) - Turned(t, by)) % 4 = (a - t) % 4
         /\ (a - 0) % 4 = a
BY DEF Quarters, Turned

LEMMA BakedIsUpright ==
  ASSUME NEW page \in UprightPages
  PROVE  Baked(page) \in UprightPages /\ Baked(page).drawn = Seen(page)
<1>1. /\ page \in PageRecords /\ page.flag \in Quarters /\ page.drawn \in Quarters
      /\ page.stamps \in Seq(StampRecords) /\ Len(page.stamps) \in Nat
  BY DEF UprightPages, PageRecords
<1>2. PICK s : s = [k \in 1..Len(page.stamps) |->
                      [page.stamps[k] EXCEPT !.turn = Turned(@, page.flag)]]
  OBVIOUS
<1>3. PICK d : d = Seen(page)
  OBVIOUS
<1>4. Baked(page) = [page EXCEPT !.drawn = d, !.flag = 0, !.stamps = s]
  BY <1>2, <1>3 DEF Baked
<1>5. d = Turned(page.drawn, page.flag) /\ d \in Quarters /\ 0 \in Quarters
  BY <1>1, <1>3, Turns DEF Quarters, Seen
<1>6. ASSUME NEW k \in 1..Len(page.stamps)
      PROVE  /\ s[k] \in StampRecords
             /\ s[k].turn = Turned(page.stamps[k].turn, page.flag)
             /\ s[k].on = page.stamps[k].on
             /\ (d - s[k].turn) % 4 = s[k].on
  <2>1. page.stamps[k] \in StampRecords
    BY <1>1
  <2>2. page.stamps[k].turn \in Quarters /\ page.stamps[k].on \in Quarters
    BY <2>1 DEF StampRecords
  <2>3. PICK q : q = Turned(page.stamps[k].turn, page.flag)
    OBVIOUS
  <2>4. q \in Quarters /\ (d - q) % 4 = (page.drawn - page.stamps[k].turn) % 4
    BY <1>1, <1>5, <2>2, <2>3, Turns
  <2>5. s[k] = [page.stamps[k] EXCEPT !.turn = q]
    BY <1>2, <2>3
  <2>6. s[k] \in StampRecords /\ s[k].turn = q /\ s[k].on = page.stamps[k].on
    BY <2>1, <2>4, <2>5 DEF StampRecords
  <2>7. (page.drawn - page.stamps[k].turn) % 4 = page.stamps[k].on
    BY DEF UprightPages, Upright
  <2> QED  BY <2>3, <2>4, <2>6, <2>7
<1>7. s \in Seq(StampRecords) /\ Len(s) = Len(page.stamps)
  <2>1. PICK n \in Nat : n = Len(page.stamps)
    BY <1>1
  <2>2. s \in [1..n -> StampRecords]
    BY <1>2, <1>6, <2>1
  <2> QED  BY <2>1, <2>2
<1>8. PICK b : b = Baked(page)
  OBVIOUS
<1>9. b \in PageRecords /\ b.drawn = d /\ b.stamps = s
  BY <1>1, <1>4, <1>5, <1>7, <1>8 DEF PageRecords
<1>10. Upright(b)
  BY <1>6, <1>7, <1>9 DEF Upright
<1> QED
  BY <1>3, <1>8, <1>9, <1>10 DEF UprightPages

LEMMA OverlaidIsUpright ==
  ASSUME NEW page \in UprightPages, NEW shows \in Int,
         NEW tool \in {"watermark", "header", "number", "signature"}
  PROVE  Overlaid(page, tool, shows) \in UprightPages
<1>1. PICK b : b = Baked(page)
  OBVIOUS
<1>2. /\ b \in PageRecords /\ Upright(b) /\ b.drawn = Seen(page) /\ b.drawn \in Quarters
      /\ b.stamps \in Seq(StampRecords) /\ Len(b.stamps) \in Nat
  BY <1>1, BakedIsUpright DEF UprightPages, PageRecords
<1>3. PICK new : new = [tool |-> tool, shows |-> shows, turn |-> 0, on |-> Seen(page)]
  OBVIOUS
<1>4. new \in StampRecords /\ new.turn = 0 /\ new.on = b.drawn
  BY <1>2, <1>3 DEF StampRecords, Quarters
<1>5. PICK s : s = Append(b.stamps, new)
  OBVIOUS
<1>6. PICK o : o = Overlaid(page, tool, shows)
  OBVIOUS
<1>7. o = [b EXCEPT !.stamps = s]
  BY <1>1, <1>3, <1>5, <1>6 DEF Overlaid
<1>8. s \in Seq(StampRecords) /\ Len(s) = Len(b.stamps) + 1
  BY <1>2, <1>4, <1>5
<1>9. o \in PageRecords /\ o.drawn = b.drawn /\ o.stamps = s
  BY <1>2, <1>7, <1>8 DEF PageRecords
<1>10. ASSUME NEW k \in 1..Len(s)
       PROVE  (b.drawn - s[k].turn) % 4 = s[k].on
  <2>1. CASE k = Len(b.stamps) + 1
    <3>1. s[k] = new
      BY <1>2, <1>5, <2>1
    <3>2. (b.drawn - 0) % 4 = b.drawn
      BY <1>2, Turns
    <3> QED  BY <1>4, <3>1, <3>2
  <2>2. CASE k # Len(b.stamps) + 1
    <3>1. k \in 1..Len(b.stamps)
      BY <1>2, <1>8, <2>2
    <3>2. s[k] = b.stamps[k]
      BY <1>2, <1>5, <3>1
    <3> QED  BY <1>2, <3>1, <3>2 DEF Upright
  <2> QED  BY <2>1, <2>2
<1>11. Upright(o)
  BY <1>9, <1>10 DEF Upright
<1> QED
  BY <1>6, <1>9, <1>11 DEF UprightPages

LEMMA RotatedIsUpright ==
  ASSUME NEW page \in UprightPages, NEW n, NEW spec, NEW applyTo, NEW quarters \in 1..3
  PROVE  RotatedPage(page, n, spec, applyTo, quarters) \in UprightPages
<1>1. page \in PageRecords /\ page.flag \in Quarters /\ Upright(page)
  BY DEF UprightPages, PageRecords
<1>2. PICK f : f = Turned(page.flag, quarters)
  OBVIOUS
<1>3. f \in Quarters
  BY <1>1, <1>2, Turns DEF Quarters
<1>4. PICK r : r = [page EXCEPT !.flag = f]
  OBVIOUS
<1>5. r \in PageRecords /\ r.drawn = page.drawn /\ r.stamps = page.stamps
  BY <1>1, <1>3, <1>4 DEF PageRecords
<1>6. Upright(r)
  BY <1>1, <1>5 DEF Upright
<1>7. RotatedPage(page, n, spec, applyTo, quarters) \in {page, r}
  BY <1>2, <1>4 DEF RotatedPage
<1> QED
  BY <1>5, <1>6, <1>7 DEF UprightPages

LEMMA PageListIs ==
  ASSUME NEW spec \in Seq(Nat \X Nat)
  PROVE  PageList(spec) \in Seq(Nat)
<1>1. PICK n \in Nat : n = Len(spec)
  OBVIOUS
<1>2. PICK parts : parts = [k \in 1..Len(spec) |->
                    IF spec[k][1] <= spec[k][2]
                      THEN Ascending(spec[k][1], spec[k][2]) ELSE <<>>]
  OBVIOUS
<1>3. ASSUME NEW k \in 1..n
      PROVE  parts[k] \in Seq(Nat)
  <2>1. spec[k] \in Nat \X Nat
    BY <1>1
  <2>2. PICK first \in Nat, last \in Nat : first = spec[k][1] /\ last = spec[k][2]
    BY <2>1
  <2>3. CASE first <= last
    <3>1. PICK m \in Nat : m = last - first + 1
      BY <2>3
    <3>2. Ascending(first, last) \in [1..m -> Nat]
      BY <3>1 DEF Ascending
    <3>3. Ascending(first, last) \in Seq(Nat)
      BY <3>2
    <3> QED  BY <1>1, <1>2, <2>2, <2>3, <3>3
  <2>4. CASE ~ (first <= last)
    <3>1. parts[k] = <<>>
      BY <1>1, <1>2, <2>2, <2>4
    <3> QED  BY <3>1
  <2> QED  BY <2>3, <2>4
<1>4. parts \in [1..n -> Seq(Nat)]
  BY <1>1, <1>2, <1>3
<1>5. parts \in Seq(Seq(Nat))
  BY <1>4
<1> QED
  BY <1>2, <1>5, FlattenType DEF PageList

LEMMA PickIs ==
  ASSUME NEW d \in Documents, NEW list \in Seq(Nat), ToSet(list) \subseteq 1..Len(d)
  PROVE  Pick(d, list) \in Documents
<1>1. PICK n \in Nat : n = Len(list)
  OBVIOUS
<1>2. PICK p : p = Pick(d, list)
  OBVIOUS
<1>3. ASSUME NEW k \in 1..n
      PROVE  p[k] \in UprightPages
  <2>1. list[k] \in 1..Len(d)
    BY <1>1 DEF ToSet
  <2>2. d[list[k]] \in UprightPages
    BY <2>1 DEF Documents
  <2> QED  BY <1>1, <1>2, <2>2 DEF Pick
<1>4. p \in [1..n -> UprightPages]
  BY <1>1, <1>2, <1>3 DEF Pick
<1> QED
  BY <1>2, <1>4 DEF Documents

LEMMA SelectedPages ==
  ASSUME NEW d \in Documents, NEW spec \in Seq(Nat \X Nat), SelectionError(spec, Len(d)) = Accepted
  PROVE  Pick(d, PageList(spec)) \in Documents
<1>1. Accepted \notin {"empty selection", "out of range"}
  BY Zenon DEF Accepted
<1>2. PageSet(spec) \subseteq 1..Len(d)
  BY <1>1 DEF SelectionError
<1> QED
  BY <1>2, PageListIs, PickIs DEF PageSet

LEMMA WithoutIs ==
  ASSUME NEW d \in Documents, NEW doomed
  PROVE  Without(d, doomed) \in Documents
<1>1. Len(d) \in Nat
  BY DEF Documents
<1>2. PICK S : S = (1..Len(d)) \ doomed
  OBVIOUS
<1>3. S \in SUBSET (1..Len(d))
  BY <1>2
<1>4. \E f \in [1..Cardinality(S) -> S] : \A j, k \in DOMAIN f : j < k => f[j] < f[k]
  BY <1>1, <1>3, NumbersInOrder
<1>5. AscendingOrder(S) \in [1..Cardinality(S) -> S]
  BY <1>4 DEF AscendingOrder
<1>6. PICK c \in Nat : c = Cardinality(S)
  <2>1. IsFiniteSet(1..Len(d))
    BY <1>1, FS_Interval
  <2>2. IsFiniteSet(S)
    BY <1>3, <2>1, FS_Subset
  <2> QED  BY <2>2, FS_CardinalityType
<1>7. PICK f : f = AscendingOrder(S)
  OBVIOUS
<1>8. f \in [1..c -> S] /\ S \subseteq Nat
  BY <1>1, <1>3, <1>5, <1>6, <1>7
<1>9. f \in Seq(Nat) /\ ToSet(f) \subseteq S
  <2>1. f \in [1..c -> Nat]
    BY <1>8
  <2> QED  BY <1>6, <1>8, <2>1 DEF ToSet
<1> QED
  BY <1>2, <1>3, <1>7, <1>9, PickIs DEF Without

PagesInv == document \in Documents /\ shelf \in Seq(Documents)

LEMMA ProducedMany ==
  ASSUME NEW outputs \in Seq(Documents), Produce(outputs)
  PROVE  PagesInv'
<1>1. shelf' = outputs /\ document' \in ToSet(outputs)
  BY DEF Produce
<1>2. document' \in Documents
  BY <1>1 DEF ToSet
<1> QED
  BY <1>1, <1>2 DEF PagesInv

LEMMA ProducedOne ==
  ASSUME NEW d \in Documents, Produce(<<d>>)
  PROVE  PagesInv'
<1>1. <<d>> \in Seq(Documents)
  OBVIOUS
<1> QED
  BY <1>1, ProducedMany

\* A sequence over the pages of a document, each upright.
LEMMA EachPageUpright ==
  ASSUME PagesInv, NEW d, DOMAIN d = 1..Len(document), \A n \in 1..Len(document) : d[n] \in UprightPages,
         d = [n \in 1..Len(document) |-> d[n]]
  PROVE  d \in Documents
<1>1. PICK m \in Nat : m = Len(document)
  BY DEF PagesInv, Documents
<1>2. d \in [1..m -> UprightPages]
  BY <1>1
<1> QED
  BY <1>2 DEF Documents

LEMMA FailedKeeps ==
  ASSUME PagesInv, NEW why, Fail(why)
  PROVE  PagesInv'
BY DEF PagesInv, Fail

LEMMA StampKeeps ==
  ASSUME PagesInv, NEW tool \in {"watermark", "header", "number", "signature"}, NEW shows, NEW where,
         \A n \in DOMAIN shows : shows[n] \in Int, Stamp(tool, shows, where)
  PROVE  PagesInv'
<1>1. PICK d : d = [n \in 1..Len(document) |->
                  IF n \in DOMAIN shows THEN Overlaid(document[n], tool, shows[n])
                                        ELSE document[n]]
  OBVIOUS
<1>2. ASSUME NEW n \in 1..Len(document)
      PROVE  d[n] \in UprightPages
  <2>1. document[n] \in UprightPages
    BY DEF PagesInv, Documents
  <2> QED  BY <1>1, <2>1, OverlaidIsUpright
<1>3. d \in Documents
  BY <1>1, <1>2, EachPageUpright
<1>4. Produce(<<d>>)
  BY <1>1 DEF Stamp
<1> QED
  BY <1>3, <1>4, ProducedOne

LEMMA PagesKept ==
  ASSUME PagesInv, [PagesNext]_pageVars
  PROVE  PagesInv'
<1>0. /\ \A n \in 1..Len(document) : document[n] \in UprightPages
      /\ Len(document) \in Nat /\ document \in Documents
  BY DEF PagesInv, Documents
<1>1. CASE Merge
  <2>1. FlattenSeq(shelf) \in Documents
    BY FlattenType DEF PagesInv, Documents
  <2> QED  BY <1>1, <2>1, ProducedOne DEF Merge
<1>2. ASSUME NEW everyPage \in BOOLEAN, NEW ranges \in Seq(Seq(Nat \X Nat)), Split(everyPage, ranges)
      PROVE  PagesInv'
  <2>1. PICK chosen : chosen = SplitSelections(Len(document), everyPage, ranges)
    OBVIOUS
  <2>2. PICK bad : bad = {k \in DOMAIN chosen : SelectionError(chosen[k], Len(document)) # Accepted}
    OBVIOUS
  <2>3. chosen \in Seq(Seq(Nat \X Nat))
    <3>1. CASE everyPage
      <4>1. PICK m \in Nat : m = Len(document)
        BY <1>0
      <4>2. \A n \in 1..m : <<<<n, n>>>> \in Seq(Nat \X Nat)
        OBVIOUS
      <4>3. chosen = [n \in 1..m |-> <<<<n, n>>>>]
        BY <2>1, <3>1, <4>1 DEF SplitSelections
      <4>4. chosen \in [1..m -> Seq(Nat \X Nat)]
        BY <4>2, <4>3
      <4> QED  BY <4>4
    <3>2. CASE ~ everyPage
      BY <1>2, <2>1, <3>2 DEF SplitSelections
    <3> QED  BY <3>1, <3>2
  <2>4. CASE bad # {}
    <3>1. \E why : Fail(why)
      BY <1>2, <2>1, <2>2, <2>4 DEF Split
    <3> QED  BY <3>1, FailedKeeps
  <2>5. CASE bad = {}
    <3>1. PICK n \in Nat : n = Len(chosen)
      BY <2>3
    <3>2. DOMAIN chosen = 1..n
      BY <2>3, <3>1
    <3>3. PICK outputs : outputs = [k \in 1..Len(chosen) |-> Pick(document, PageList(chosen[k]))]
      OBVIOUS
    <3>4. ASSUME NEW k \in 1..n
          PROVE  outputs[k] \in Documents
      <4>1. SelectionError(chosen[k], Len(document)) = Accepted
        BY <2>2, <2>5, <3>2
      <4>2. chosen[k] \in Seq(Nat \X Nat)
        BY <2>3, <3>1
      <4>3. Pick(document, PageList(chosen[k])) \in Documents
        BY <1>0, <4>1, <4>2, SelectedPages
      <4> QED  BY <3>1, <3>3, <4>3
    <3>5. outputs \in [1..n -> Documents]
      BY <3>1, <3>3, <3>4
    <3>6. outputs \in Seq(Documents)
      BY <3>5
    <3>7. Produce(outputs)
      BY <1>2, <2>1, <2>2, <2>5, <3>3 DEF Split
    <3> QED  BY <3>6, <3>7, ProducedMany
  <2> QED  BY <2>4, <2>5
<1>3. ASSUME NEW quarters \in 1..3, NEW spec, NEW applyTo, Rotate(quarters, spec, applyTo)
      PROVE  PagesInv'
  <2>1. PICK d : d = [n \in 1..Len(document) |->
                        RotatedPage(document[n], n, spec, applyTo, quarters)]
    OBVIOUS
  <2>2. \A n \in 1..Len(document) : d[n] \in UprightPages
    BY <1>0, <2>1, RotatedIsUpright
  <2>3. d \in Documents
    BY <2>1, <2>2, EachPageUpright
  <2>4. (\E why : Fail(why)) \/ Produce(<<d>>)
    BY <1>3, <2>1 DEF Rotate
  <2> QED  BY <2>3, <2>4, FailedKeeps, ProducedOne
<1>4. ASSUME NEW spec, Delete(spec)
      PROVE  PagesInv'
  <2>1. Without(document, PageSet(spec)) \in Documents
    BY <1>0, WithoutIs
  <2>2. (\E why : Fail(why)) \/ Produce(<<Without(document, PageSet(spec))>>)
    BY <1>4 DEF Delete
  <2> QED  BY <2>1, <2>2, FailedKeeps, ProducedOne
<1>5. ASSUME NEW spec \in Seq(Nat \X Nat), Extract(spec)
      PROVE  PagesInv'
  <2>1. CASE SelectionError(spec, Len(document)) = Accepted
    <3>1. Pick(document, PageList(spec)) \in Documents
      BY <1>0, <2>1, SelectedPages
    <3>2. Produce(<<Pick(document, PageList(spec))>>)
      BY <1>5, <2>1 DEF Extract
    <3> QED  BY <3>1, <3>2, ProducedOne
  <2>2. CASE SelectionError(spec, Len(document)) # Accepted
    BY <1>5, <2>2, FailedKeeps DEF Extract
  <2> QED  BY <2>1, <2>2
<1>6. ASSUME NEW order \in Seq(Nat), Reorder(order)
      PROVE  PagesInv'
  <2>1. CASE ToSet(order) = 1..Len(document) /\ Produce(<<Pick(document, order)>>)
    <3>1. Pick(document, order) \in Documents
      BY <1>0, <2>1, PickIs
    <3> QED  BY <2>1, <3>1, ProducedOne
  <2>2. CASE Fail("not a permutation")
    BY <2>2, FailedKeeps
  <2> QED  BY <1>6, <2>1, <2>2 DEF Reorder
<1>7. ASSUME NEW spec, NEW selected, NEW position, NEW block, NEW tile,
             Watermark(selected, spec, position, block, tile)
      PROVE  PagesInv'
  <2>1. PICK shows : shows = [n \in Chosen(selected, spec) |-> 0]
    OBVIOUS
  <2>2. \A n \in DOMAIN shows : shows[n] \in Int
    BY <2>1
  <2>3. \E where : Stamp("watermark", shows, where)
    BY <1>7, <2>1 DEF Watermark
  <2> QED  BY <2>2, <2>3, StampKeeps
<1>8. ASSUME NEW spec, NEW selected, HeaderFooter(selected, spec)
      PROVE  PagesInv'
  <2>1. PICK shows : shows = [n \in Chosen(selected, spec) |-> n]
    OBVIOUS
  <2>2. \A n \in DOMAIN shows : shows[n] \in Int
    BY <1>0, <2>1 DEF Chosen
  <2>3. \E where : Stamp("header", shows, where)
    BY <1>8, <2>1 DEF HeaderFooter
  <2> QED  BY <2>2, <2>3, StampKeeps
<1>9. ASSUME NEW startAt \in {1, 5}, NEW skipFirst \in BOOLEAN, PageNumbers(startAt, skipFirst)
      PROVE  PagesInv'
  <2>1. PICK shows : shows = [n \in (IF skipFirst THEN 2 ELSE 1)..Len(document) |->
                                NumberShown(n, startAt)]
    OBVIOUS
  <2>2. \A n \in DOMAIN shows : shows[n] \in Int
    BY <1>0, <2>1 DEF NumberShown
  <2>3. \E where : Stamp("number", shows, where)
    BY <1>9, <2>1 DEF PageNumbers
  <2> QED  BY <2>2, <2>3, StampKeeps
<1>10. ASSUME NEW target, NEW position, NEW quarters, Sign(target, position, quarters)
       PROVE  PagesInv'
  <2>1. PICK signed : signed = IF target = 0 THEN Len(document) ELSE target
    OBVIOUS
  <2>2. PICK d : d = [n \in 1..Len(document) |->
                        IF n = signed THEN Overlaid(document[n], "signature", 0)
                                      ELSE Baked(document[n])]
    OBVIOUS
  <2>3. ASSUME NEW n \in 1..Len(document)
        PROVE  d[n] \in UprightPages
    <3>1. document[n] \in UprightPages /\ 0 \in Int
      BY <1>0
    <3>2. Overlaid(document[n], "signature", 0) \in UprightPages
      BY <3>1, OverlaidIsUpright
    <3>3. Baked(document[n]) \in UprightPages
      BY <3>1, BakedIsUpright
    <3> QED  BY <2>2, <3>2, <3>3
  <2>4. d \in Documents
    BY <2>2, <2>3, EachPageUpright
  <2>5. Produce(<<d>>)
    BY <1>10, <2>1, <2>2 DEF Sign
  <2> QED  BY <2>4, <2>5, ProducedOne
<1>11. ASSUME NEW first, NEW last, NEW workers, Render(first, last, workers)
       PROVE  PagesInv'
  <2>1. (\E why : Fail(why)) \/ UNCHANGED <<document, shelf>>
    BY <1>11 DEF Render
  <2> QED  BY <2>1, FailedKeeps DEF PagesInv
<1>12. CASE UNCHANGED pageVars
  BY <1>12 DEF pageVars, PagesInv
<1>13. CASE OrganizeNext
  <2>1. Selections \subseteq Seq(Nat \X Nat)
    BY PageAssumption
  <2>2. \A s \in Selections, t \in Selections : <<s, t>> \in Seq(Seq(Nat \X Nat))
    BY <2>1
  <2>3. <<>> \in Seq(Seq(Nat \X Nat))
    OBVIOUS
  <2>4. ASSUME NEW s \in Selections, NEW t \in Selections, NEW everyPage \in BOOLEAN,
               Split(everyPage, IF everyPage THEN <<>> ELSE <<s, t>>)
        PROVE  PagesInv'
    <3>1. PICK ranges : ranges = IF everyPage THEN <<>> ELSE <<s, t>>
      OBVIOUS
    <3>2. ranges \in Seq(Seq(Nat \X Nat))
      BY <2>2, <2>3, <3>1
    <3> QED  BY <1>2, <2>4, <3>1, <3>2
  <2>5. ASSUME NEW order \in Orders(Len(document)), Reorder(order)
        PROVE  PagesInv'
    <3>1. PICK m \in Nat : m = Len(document)
      BY <1>0
    <3>2. order \in [1..m -> Nat]
      BY <3>1 DEF Orders
    <3>3. order \in Seq(Nat)
      BY <3>2
    <3> QED  BY <1>6, <2>5, <3>3
  <2>6. ASSUME NEW s \in Selections, Reorder(PageList(s))
        PROVE  PagesInv'
    BY <1>6, <2>1, <2>6, PageListIs
  <2>7. ASSUME NEW s \in Selections, Extract(s)
        PROVE  PagesInv'
    BY <1>5, <2>1, <2>7
  <2> QED
    BY <1>1, <1>3, <1>4, <1>13, <2>4, <2>5, <2>6, <2>7 DEF OrganizeNext
<1>14. CASE StampNext
  BY <1>7, <1>8, <1>9, <1>10, <1>14 DEF StampNext
<1> QED
  BY <1>11, <1>12, <1>13, <1>14 DEF PagesNext

LEMMA PagesStart ==
  ASSUME PagesInit
  PROVE  PagesInv
<1>1. PICK m \in Nat : m = UploadPages
  BY PageAssumption
<1>2. \A n \in 1..m : [id |-> n, flag |-> 0, drawn |-> 0, stamps |-> <<>>] \in UprightPages
  BY DEF UprightPages, PageRecords, Upright, Quarters
<1>3. document = [n \in 1..m |-> [id |-> n, flag |-> 0, drawn |-> 0, stamps |-> <<>>]]
  BY <1>1 DEF PagesInit
<1>4. document \in [1..m -> UprightPages]
  BY <1>2, <1>3
<1>5. document \in Documents
  BY <1>4 DEF Documents
<1>6. shelf = <<document>> /\ <<document>> \in Seq(Documents)
  BY <1>5 DEF PagesInit
<1> QED
  BY <1>5, <1>6 DEF PagesInv

\* Boxes: b fits between the margins only if it is visible.
Visible(b) ==
  /\ b.x1 - b.x0 <= 2 * (Crop.width - 2 * Margin)
  /\ b.y1 - b.y0 <= 2 * (Crop.height - 2 * Margin)
  /\ b # NoBox
  => /\ 2 * Crop.left <= b.x0
     /\ 2 * Crop.bottom <= b.y0
     /\ b.x1 <= 2 * (Crop.left + Crop.width)
     /\ b.y1 <= 2 * (Crop.bottom + Crop.height)

LEMMA CropIs ==
  /\ Crop.left \in Nat /\ Crop.bottom \in Nat /\ Crop.width \in Nat /\ Crop.height \in Nat
  /\ Margin \in Nat /\ FontSize \in Nat /\ LineStep \in Nat
  /\ Picture.width \in Nat \ {0} /\ Picture.height \in Nat \ {0}
BY PageAssumption

\* A placed block that lies between the margins.
LEMMA PlacedIsVisible ==
  ASSUME NEW x \in Int, NEW y \in Int, NEW width \in Int, NEW height \in Int,
         width <= Crop.width - 2 * Margin => 0 <= x /\ x + 2 * width <= 2 * Crop.width,
         height <= Crop.height - 2 * Margin => 0 <= y /\ y + 2 * height <= 2 * Crop.height
  PROVE  Visible(Placed(x, y, width, height))
<1>1. PICK b : b = Placed(x, y, width, height)
  OBVIOUS
<1>2. /\ b.x0 = 2 * Crop.left + x /\ b.x1 = 2 * Crop.left + x + 2 * width
      /\ b.y0 = 2 * Crop.bottom + y /\ b.y1 = 2 * Crop.bottom + y + 2 * height
  BY <1>1 DEF Placed
<1>3. b.x1 - b.x0 <= 2 * (Crop.width - 2 * Margin) =>
        2 * Crop.left <= b.x0 /\ b.x1 <= 2 * (Crop.left + Crop.width)
  BY <1>2, CropIs
<1>4. b.y1 - b.y0 <= 2 * (Crop.height - 2 * Margin) =>
        2 * Crop.bottom <= b.y0 /\ b.y1 <= 2 * (Crop.bottom + Crop.height)
  BY <1>2, CropIs
<1> QED
  BY <1>1, <1>3, <1>4 DEF Visible

LEMMA AnchoredIsVisible ==
  ASSUME NEW position \in Positions, NEW block, block.width \in Int, block.height \in Int
  PROVE  Visible(AnchoredBox(position, block))
<1>1. PICK w \in Int, h \in Int : w = block.width /\ h = block.height
  OBVIOUS
<1>2. PICK cx, cy : cx = AnchorPoint(position, block).x /\ cy = AnchorPoint(position, block).y
  OBVIOUS
<1>3. /\ cx \in {2 * Margin + w, 2 * (Crop.width - Margin) - w, Crop.width}
      /\ cy \in {2 * Margin + h, 2 * (Crop.height - Margin) - h, Crop.height}
  BY <1>1, <1>2 DEF AnchorPoint
<1>4. /\ cx - w \in Int
      /\ w <= Crop.width - 2 * Margin => 0 <= cx - w /\ (cx - w) + 2 * w <= 2 * Crop.width
  BY <1>3, CropIs
<1>5. /\ cy - h \in Int
      /\ h <= Crop.height - 2 * Margin => 0 <= cy - h /\ (cy - h) + 2 * h <= 2 * Crop.height
  BY <1>3, CropIs
<1>6. Visible(Placed(cx - w, cy - h, w, h))
  BY <1>4, <1>5, PlacedIsVisible
<1> QED
  BY <1>1, <1>2, <1>6 DEF AnchoredBox

LEMMA Quotients ==
  ASSUME NEW a \in Nat, NEW b \in Nat, NEW c \in Nat \ {0}
  PROVE  a * b \in Nat /\ a \div c \in Nat
OBVIOUS

LEMMA SignatureIsVisible ==
  ASSUME NEW position \in {"top", "bottom"} \X {"left", "center", "right"}
  PROVE  Visible(SignatureBox(position, 2))
<1>1. PICK w \in Nat : w = (Crop.width * 2) \div 4
  BY CropIs
<1>2. PICK h \in Nat : h = (w * Picture.height) \div Picture.width
  BY <1>1, CropIs, Quotients
<1>3. PICK x : x = CASE position[2] = "left" -> 2 * Margin
                     [] position[2] = "right" -> 2 * (Crop.width - Margin - w)
                     [] OTHER -> Crop.width - w
  OBVIOUS
<1>4. PICK y : y = IF position[1] = "top" THEN 2 * (Crop.height - Margin - h) ELSE 2 * Margin
  OBVIOUS
<1>5. x \in {2 * Margin, 2 * (Crop.width - Margin - w), Crop.width - w}
  BY <1>3
<1>6. y \in {2 * (Crop.height - Margin - h), 2 * Margin}
  BY <1>4
<1>7. x \in Int /\ (w <= Crop.width - 2 * Margin => 0 <= x /\ x + 2 * w <= 2 * Crop.width)
  BY <1>5, CropIs
<1>8. y \in Int /\ (h <= Crop.height - 2 * Margin => 0 <= y /\ y + 2 * h <= 2 * Crop.height)
  BY <1>6, CropIs
<1>9. Visible(Placed(x, y, w, h))
  BY <1>7, <1>8, PlacedIsVisible
<1> QED
  BY <1>1, <1>2, <1>3, <1>4, <1>9 DEF SignatureBox

LEMMA LargestIs ==
  ASSUME NEW widths \in Seq(Nat)
  PROVE  FoldSeq(Larger, 0, widths) \in Nat
<1>1. PICK S : S = DOMAIN widths
  OBVIOUS
<1>2. IsFiniteSet(S) /\ \A i \in S : widths[i] \in Nat
  BY <1>1, Indices
<1>3. PICK pick : pick = [s \in SUBSET S |-> AnyOf(s)]
  OBVIOUS
<1>4. \A s \in SUBSET S : s # {} => AnyOf(s) \in S /\ AnyOf(s) \in s
  BY DEF AnyOf
<1>5. Picks(pick, S)
  BY <1>3, <1>4 DEF Picks
<1>6. PICK G : G = [s \in SUBSET S |-> [n \in Nat |->
                      IF s = {} THEN 0 ELSE Larger(widths[AnyOf(s)], n)]]
  OBVIOUS
<1>7. \A a, b \in Nat : Larger(a, b) \in Nat
  BY DEF Larger
<1>8. ASSUME NEW s \in SUBSET S, NEW n \in Nat
      PROVE  (IF s = {} THEN 0 ELSE Larger(widths[AnyOf(s)], n)) \in Nat
  BY <1>2, <1>4, <1>7
<1>9. G \in [SUBSET S -> [Nat -> Nat]]
  BY <1>6, <1>8
<1> DEFINE Eq(h) == h = [s \in SUBSET S |-> IF s = {} THEN 0
                           ELSE Larger(widths[AnyOf(s)], h[s \ {AnyOf(s)}])]
<1>10. \E g \in [SUBSET S -> Nat] : Folds(g, Nat, 0, G, pick, S)
  BY <1>2, <1>5, <1>9, FoldExists
<1>11. PICK g \in [SUBSET S -> Nat] : Folds(g, Nat, 0, G, pick, S)
  BY <1>10
<1>12. ASSUME NEW s \in SUBSET S
       PROVE  g[s] = IF s = {} THEN 0 ELSE Larger(widths[AnyOf(s)], g[s \ {AnyOf(s)}])
  <2>1. CASE s = {}
    BY <1>11, <2>1 DEF Folds
  <2>2. CASE s # {}
    <3>1. PICK r : r = s \ {pick[s]}
      OBVIOUS
    <3>2. pick[s] = AnyOf(s) /\ r \in SUBSET S /\ g[r] \in Nat
      BY <1>3, <1>11, <3>1
    <3>3. g[s] = G[s][g[r]]
      BY <1>11, <2>2, <3>1, <3>2 DEF Folds
    <3>4. G[s][g[r]] = Larger(widths[AnyOf(s)], g[r])
      BY <1>6, <2>2, <3>2
    <3> QED  BY <2>2, <3>1, <3>2, <3>3, <3>4
  <2> QED  BY <2>1, <2>2
<1>13. Eq(g)
  BY <1>12
<1>14. PICK h : h = CHOOSE i : Eq(i)
  OBVIOUS
<1>15. Eq(h)
  <2> HIDE DEF Eq
  <2> QED  BY <1>13, <1>14
<1>16. Folds(h, Nat, 0, G, pick, S)
  BY <1>3, <1>6, <1>15 DEF Folds
<1>17. SameFold(g, h, Nat, S)
  BY <1>2, <1>5, <1>9, <1>11, <1>16, FoldUnique
<1>18. FoldSeq(Larger, 0, widths) = h[S]
  BY <1>1, <1>14 DEF FoldSeq, FoldFunction, FoldFunctionOnSet, MapThenFoldSet, AnyOf
<1> QED
  BY <1>17, <1>18 DEF SameFold

LEMMA BlocksAreIntegers ==
  /\ \A w \in StampTexts : TextBlock(w).width \in Int /\ TextBlock(w).height \in Int
  /\ \A keepAspect \in BOOLEAN, quarters \in 1..3 :
       /\ ImageBlock(keepAspect, quarters).width \in Int
       /\ ImageBlock(keepAspect, quarters).height \in Int
<1>1. ASSUME NEW w \in StampTexts
      PROVE  TextBlock(w).width \in Int /\ TextBlock(w).height \in Int
  <2>1. w \in Seq(Nat) /\ Len(w) \in Nat
    BY PageAssumption
  <2>2. LineStep * (Len(w) - 1) \in Int /\ FontSize \in Int
    BY <2>1, CropIs
  <2>3. FoldSeq(Larger, 0, w) \in Nat
    BY <2>1, LargestIs
  <2> QED  BY <2>2, <2>3 DEF TextBlock
<1>2. ASSUME NEW keepAspect \in BOOLEAN, NEW quarters \in 1..3
      PROVE  /\ ImageBlock(keepAspect, quarters).width \in Int
             /\ ImageBlock(keepAspect, quarters).height \in Int
  <2>1. CASE ~ keepAspect
    BY <2>1, CropIs, Quotients DEF ImageBlock
  <2>2. CASE keepAspect
    <3>1. PICK side \in Nat : side = Smaller(Crop.width, Crop.height) * quarters
      BY CropIs, Quotients DEF Smaller
    <3>2. PICK most \in Nat \ {0} : most = 4 * Larger(Picture.width, Picture.height)
      BY CropIs DEF Larger
    <3>3. Picture.width * side \in Nat /\ Picture.height * side \in Nat
      BY <3>1, CropIs, Quotients
    <3>4. /\ (Picture.width * side) \div most \in Nat
          /\ (Picture.height * side) \div most \in Nat
      BY <3>2, <3>3, Quotients
    <3>5. ImageBlock(keepAspect, quarters) = [width |-> (Picture.width * side) \div most,
                                              height |-> (Picture.height * side) \div most]
      BY <2>2, <3>1, <3>2 DEF ImageBlock
    <3> QED  BY <3>4, <3>5
  <2> QED  BY <2>1, <2>2
<1> QED
  BY <1>1, <1>2

\* Through any sequence of page tools a stamp reads upright against what its
\* viewer saw, for overlay_pdf draws the /Rotate flag into the content first, and
\* a block that fits between the margins lies within the crop box, for the drawing
\* space of every position is moved to the corner of that box.
THEOREM StampsAlwaysFit == PagesSpec => []StampsFit
<1>1. PagesInit => PagesInv /\ StampsStayVisible
  BY PagesStart DEF PagesInit, StampsStayVisible
<1>2. PagesInv /\ StampsStayVisible /\ [PagesNext]_pageVars => (PagesInv /\ StampsStayVisible)'
  <2> SUFFICES ASSUME PagesInv, StampsStayVisible, [PagesNext]_pageVars
               PROVE  StampsStayVisible'
    BY PagesKept
  <2>1. ASSUME NEW b, Visible(b), box' \in {b, NoBox}
        PROVE  StampsStayVisible'
    BY <2>1 DEF Visible, StampsStayVisible, NoBox
  <2>2. CASE box' = NoBox
    BY <2>2 DEF StampsStayVisible
  <2>3. ASSUME NEW selected, NEW spec, NEW position \in Positions, NEW block, NEW tile \in BOOLEAN,
               block.width \in Int, block.height \in Int,
               Watermark(selected, spec, position, block, tile)
        PROVE  StampsStayVisible'
    <3>1. box' \in {AnchoredBox(position, block), NoBox}
      BY <2>3 DEF Watermark, Stamp
    <3> QED  BY <2>1, <2>3, <3>1, AnchoredIsVisible
  <2>4. ASSUME NEW target, NEW position \in {"top", "bottom"} \X {"left", "center", "right"},
               Sign(target, position, 2)
        PROVE  StampsStayVisible'
    <3>1. box' \in {SignatureBox(position, 2), NoBox}
      BY <2>4 DEF Sign
    <3> QED  BY <2>1, <3>1, SignatureIsVisible
  <2>5. CASE OrganizeNext
    <3>1. \A why : Fail(why) => box' = NoBox
      BY DEF Fail
    <3>2. \A everyPage, ranges : Split(everyPage, ranges) => box' = NoBox
      BY <3>1 DEF Split
    <3>3. \A quarters, spec, applyTo : Rotate(quarters, spec, applyTo) => box' = NoBox
      BY <3>1 DEF Rotate
    <3>4. \A spec : (Delete(spec) => box' = NoBox) /\ (Extract(spec) => box' = NoBox)
      BY <3>1 DEF Delete, Extract
    <3>5. \A order : Reorder(order) => box' = NoBox
      BY <3>1 DEF Reorder
    <3>6. box' = NoBox
      BY <2>5, <3>2, <3>3, <3>4, <3>5 DEF OrganizeNext, Merge
    <3> QED  BY <2>2, <3>6
  <2>6. CASE StampNext
    <3>1. \A selected, spec : HeaderFooter(selected, spec) => box' = NoBox
      BY DEF HeaderFooter, Stamp
    <3>2. \A startAt, skipFirst : PageNumbers(startAt, skipFirst) => box' = NoBox
      BY DEF PageNumbers, Stamp
    <3>3. ASSUME NEW selected, NEW s, NEW p \in Positions, NEW w \in StampTexts,
                 Watermark(selected, s, p, TextBlock(w), FALSE)
          PROVE  StampsStayVisible'
      <4>1. PICK block : block = TextBlock(w)
        OBVIOUS
      <4>2. block.width \in Int /\ block.height \in Int
        BY <4>1, BlocksAreIntegers
      <4>3. Watermark(selected, s, p, block, FALSE)
        BY <3>3, <4>1
      <4> QED  BY <2>3, <4>2, <4>3
    <3>4. ASSUME NEW p \in Positions, NEW keepAspect \in BOOLEAN, NEW quarters \in 1..3,
                 NEW tile \in BOOLEAN,
                 Watermark("all", <<>>, p, ImageBlock(keepAspect, quarters), tile)
          PROVE  StampsStayVisible'
      <4>1. PICK block : block = ImageBlock(keepAspect, quarters)
        OBVIOUS
      <4>2. block.width \in Int /\ block.height \in Int
        BY <4>1, BlocksAreIntegers
      <4>3. Watermark("all", <<>>, p, block, tile)
        BY <3>4, <4>1
      <4> QED  BY <2>3, <4>2, <4>3
    <3> QED  BY <2>2, <2>4, <2>6, <3>1, <3>2, <3>3, <3>4 DEF StampNext
  <2>7. ASSUME NEW first, NEW last, NEW workers, Render(first, last, workers)
        PROVE  StampsStayVisible'
    <3>1. box' = NoBox
      BY <2>7 DEF Render, Fail
    <3> QED  BY <2>2, <3>1
  <2>8. CASE UNCHANGED pageVars
    BY <2>8 DEF pageVars, StampsStayVisible
  <2> QED
    BY <2>5, <2>6, <2>7, <2>8 DEF PagesNext
<1>3. PagesInv /\ StampsStayVisible => StampsFit
  <2>1. ASSUME PagesInv, NEW n \in 1..Len(document)
        PROVE  Upright(document[n])
    BY <2>1 DEF PagesInv, Documents, UprightPages
  <2> QED  BY <2>1 DEF StampsFit, StampsReadUpright, Upright
<1> QED
  BY <1>1, <1>2, <1>3, PTL DEF PagesSpec

-----------------------------------------------------------------------------
(* Rendering                                                                *)

LEMMA Products ==
  ASSUME NEW a \in Nat, NEW b \in Nat, NEW c \in Nat, a <= b
  PROVE  a * c <= b * c /\ a * c \in Nat /\ b * c \in Nat /\ (a + 1) * c = a * c + c
<1>1. PICK d \in Nat : b = a + d
  <2>1. b - a \in Nat /\ b = a + (b - a)
    OBVIOUS
  <2> QED  BY <2>1
<1>2. b * c = a * c + d * c /\ d * c \in Nat /\ a * c \in Nat
  BY <1>1
<1> QED
  BY <1>2

\* How the chunks divide a span of s + 1 pages.
LEMMA ChunkSizes ==
  ASSUME NEW s \in Nat, NEW workers \in Nat \ {0}, NEW size, NEW count,
         size = (s + workers) \div workers, count = (s + size) \div size
  PROVE  /\ size \in Nat \ {0} /\ count \in Nat \ {0}
         /\ (count - 1) * size <= s /\ s + 1 <= count * size
<1>1. size \in Nat \ {0}
  <2>1. PICK rest : rest = (s + workers) % workers
    OBVIOUS
  <2>2. size \in Int /\ s + workers = workers * size + rest /\ rest \in 0..workers - 1
    BY <2>1
  <2>3. workers * size >= s + 1
    BY <2>1, <2>2
  <2>4. size <= 0 => workers * size <= 0
    BY <2>2
  <2> QED  BY <2>2, <2>3, <2>4
<1>2. PICK rest : rest = (s + size) % size
  OBVIOUS
<1>3. count \in Int /\ s + size = size * count + rest /\ rest \in 0..size - 1
  BY <1>1, <1>2
<1>4. size * count >= s + 1 /\ size * count <= s + size
  BY <1>1, <1>3
<1>5. count \in Nat \ {0}
  <2>1. count <= 0 => size * count <= 0
    BY <1>1, <1>3
  <2> QED  BY <1>3, <1>4, <2>1
<1>6. (count - 1) * size = size * count - size /\ count * size = size * count
  BY <1>1, <1>3
<1> QED
  BY <1>1, <1>4, <1>5, <1>6

LEMMA AscendingIs ==
  ASSUME NEW a \in Nat, NEW b \in Nat, a <= b
  PROVE  /\ Ascending(a, b) \in Seq(Nat) /\ Len(Ascending(a, b)) = b - a + 1
         /\ \A k \in 1..b - a + 1 : Ascending(a, b)[k] = a + k - 1
<1>1. PICK m \in Nat : m = b - a + 1
  OBVIOUS
<1>2. Ascending(a, b) = [k \in 1..m |-> a + k - 1]
  BY <1>1 DEF Ascending
<1>3. Ascending(a, b) \in [1..m -> Nat]
  BY <1>2
<1> QED
  BY <1>1, <1>2, <1>3

LEMMA AscendingJoin ==
  ASSUME NEW a \in Nat, NEW b \in Nat, NEW c \in Nat, a <= b, b + 1 <= c
  PROVE  Ascending(a, b) \o Ascending(b + 1, c) = Ascending(a, c)
<1>1. PICK l : l = Ascending(a, b)
  OBVIOUS
<1>2. PICK r : r = Ascending(b + 1, c)
  OBVIOUS
<1>3. PICK w : w = Ascending(a, c)
  OBVIOUS
<1>4. /\ l \in Seq(Nat) /\ Len(l) = b - a + 1
      /\ \A k \in 1..b - a + 1 : l[k] = a + k - 1
  BY <1>1, AscendingIs
<1>5. /\ w \in Seq(Nat) /\ Len(w) = c - a + 1
      /\ \A k \in 1..c - a + 1 : w[k] = a + k - 1
  <2>1. a <= c
    OBVIOUS
  <2> QED  BY <1>3, <2>1, AscendingIs
<1>6. /\ r \in Seq(Nat) /\ Len(r) = c - b
      /\ \A k \in 1..c - b : r[k] = b + k
  <2>1. PICK d \in Nat : d = b + 1
    OBVIOUS
  <2>2. d <= c /\ r = Ascending(d, c) /\ c - d + 1 = c - b
    BY <1>2, <2>1
  <2>3. /\ Ascending(d, c) \in Seq(Nat) /\ Len(Ascending(d, c)) = c - d + 1
        /\ \A k \in 1..c - d + 1 : Ascending(d, c)[k] = d + k - 1
    BY <2>2, AscendingIs
  <2> QED  BY <2>1, <2>2, <2>3
<1>7. PICK j : j = l \o r
  OBVIOUS
<1>8. /\ j \in Seq(Nat) /\ Len(j) = c - a + 1
      /\ \A k \in 1..c - a + 1 : j[k] = IF k <= b - a + 1 THEN l[k] ELSE r[k - (b - a + 1)]
  <2>1. /\ j \in Seq(Nat) /\ Len(j) = Len(l) + Len(r)
        /\ \A k \in 1..Len(l) + Len(r) : j[k] = IF k <= Len(l) THEN l[k] ELSE r[k - Len(l)]
    BY <1>4, <1>6, <1>7, ConcatProperties
  <2>2. Len(l) + Len(r) = c - a + 1
    BY <1>4, <1>6
  <2> QED  BY <1>4, <2>1, <2>2
<1>9. ASSUME NEW k \in 1..c - a + 1
      PROVE  j[k] = w[k]
  <2>1. CASE k <= b - a + 1
    BY <1>4, <1>5, <1>8, <2>1
  <2>2. CASE ~ (k <= b - a + 1)
    <3>1. k - (b - a + 1) \in 1..c - b
      BY <2>2
    <3>2. j[k] = r[k - (b - a + 1)]
      BY <1>8, <2>2
    <3> QED  BY <1>4, <1>5, <1>6, <3>1, <3>2
  <2> QED  BY <2>1, <2>2
<1>10. j = w
  BY <1>5, <1>8, <1>9, SeqEqual
<1> QED
  BY <1>1, <1>2, <1>3, <1>7, <1>10

\* What the threads render, chunk after chunk.
Chunks(ranges, total) ==
  [k \in 1..Len(ranges) |-> Rendered(ranges[k][1], ranges[k][2], total)]

LEMMA ChunksAreTheSpan ==
  ASSUME NEW start \in Nat \ {0}, NEW end \in Nat, NEW total \in Nat, start <= end, end <= total,
         NEW workers \in Nat \ {0}
  PROVE  FlattenSeq(Chunks(ChunkRanges(start, end, workers), total)) = Ascending(start, end)
<1> PICK ranges : ranges = ChunkRanges(start, end, workers)
  OBVIOUS
<1> PICK parts : parts = Chunks(ranges, total)
  OBVIOUS
<1>1. PICK s \in Nat : s = end - start
  OBVIOUS
<1>2. PICK size : size = (s + workers) \div workers
  OBVIOUS
<1>3. PICK count : count = (s + size) \div size
  OBVIOUS
<1>4. /\ size \in Nat \ {0} /\ count \in Nat \ {0}
      /\ (count - 1) * size <= s /\ s + 1 <= count * size
  BY <1>1, <1>2, <1>3, ChunkSizes
<1>5. PICK From : From = [k \in 1..count |-> start + (k - 1) * size]
  OBVIOUS
<1>6. PICK To : To = [k \in 1..count |-> IF From[k] + size - 1 < end THEN From[k] + size - 1 ELSE end]
  OBVIOUS
<1>7. ranges = [k \in 1..count |-> <<From[k], To[k]>>] /\ Len(ranges) = count
  <2>1. ranges = [k \in 1..count |-> LET from == start + (k - 1) * size
                    IN <<from, IF from + size - 1 < end THEN from + size - 1 ELSE end>>]
    BY <1>1, <1>2, <1>3 DEF ChunkRanges
  <2>2. ranges = [k \in 1..count |-> <<From[k], To[k]>>]
    BY <1>5, <1>6, <2>1
  <2>3. Len(ranges) = count
    BY <1>4, <2>2
  <2> QED  BY <2>2, <2>3
<1>8. ASSUME NEW k \in 1..count
      PROVE  /\ From[k] \in Nat /\ To[k] \in Nat /\ From[k] <= To[k] /\ To[k] <= end
             /\ start <= From[k]
             /\ k < count => To[k] = From[k] + size - 1
  <2>1. k - 1 \in Nat /\ count - 1 \in Nat /\ k - 1 <= count - 1
    BY <1>4
  <2>2. (k - 1) * size <= (count - 1) * size /\ (k - 1) * size \in Nat /\ (count - 1) * size \in Nat
    BY <1>4, <2>1, Products
  <2>3. From[k] = start + (k - 1) * size
    BY <1>5
  <2>4. From[k] \in Nat /\ From[k] <= end /\ start <= From[k]
    BY <1>1, <1>4, <2>2, <2>3
  <2>5. To[k] = IF From[k] + size - 1 < end THEN From[k] + size - 1 ELSE end
    BY <1>6
  <2>6. ASSUME k < count
        PROVE  From[k] + size - 1 < end
    <3>1. k \in Nat /\ k <= count - 1
      BY <1>4, <2>6
    <3>2. k * size <= (count - 1) * size /\ k * size \in Nat
      BY <1>4, <2>1, <3>1, Products
    <3>3. (k - 1 + 1) * size = (k - 1) * size + size
      BY <1>4, <2>1, Products
    <3>4. k * size = (k - 1) * size + size
      BY <3>1, <3>3
    <3> QED  BY <1>1, <1>4, <2>2, <2>3, <3>2, <3>4
  <2> QED  BY <1>4, <2>4, <2>5, <2>6
<1>9. To[count] = end
  <2>1. count \in 1..count /\ count - 1 \in Nat
    BY <1>4
  <2>2. (count - 1 + 1) * size = (count - 1) * size + size /\ (count - 1) * size \in Nat
    BY <1>4, <2>1, Products
  <2>3. count * size = (count - 1) * size + size
    BY <1>4, <2>2
  <2>4. From[count] = start + (count - 1) * size
    BY <1>5, <2>1
  <2>5. From[count] \in Nat /\ From[count] + size - 1 >= end
    BY <1>1, <1>4, <2>2, <2>3, <2>4
  <2>6. To[count] = IF From[count] + size - 1 < end THEN From[count] + size - 1 ELSE end
    BY <1>6, <2>1
  <2> QED  BY <1>4, <2>5, <2>6
<1>10. From[1] = start
  <2>1. 1 \in 1..count /\ From[1] = start + (1 - 1) * size
    BY <1>4, <1>5
  <2>2. (1 - 1) * size = 0
    BY <1>4
  <2> QED  BY <2>1, <2>2
<1>11. ASSUME NEW k \in 1..count, k < count
       PROVE  k + 1 \in 1..count /\ From[k + 1] = To[k] + 1
  <2>1. k + 1 \in 1..count /\ k - 1 \in Nat /\ k \in Nat
    BY <1>4, <1>11
  <2>2. From[k + 1] = start + k * size
    <3>1. From[k + 1] = start + (k + 1 - 1) * size
      BY <1>5, <2>1
    <3>2. k + 1 - 1 = k
      BY <2>1
    <3> QED  BY <3>1, <3>2
  <2>3. From[k] = start + (k - 1) * size
    BY <1>5
  <2>4. (k - 1 + 1) * size = (k - 1) * size + size /\ (k - 1) * size \in Nat
    BY <1>4, <2>1, Products
  <2>5. k - 1 + 1 = k
    BY <2>1
  <2>6. To[k] = From[k] + size - 1
    BY <1>8, <1>11
  <2> QED  BY <1>4, <2>1, <2>2, <2>3, <2>4, <2>5, <2>6
<1>12. ASSUME NEW k \in 1..count
       PROVE  parts[k] = Ascending(From[k], To[k])
  <2>1. ranges[k][1] = From[k] /\ ranges[k][2] = To[k]
    BY <1>7
  <2>2. parts[k] = Rendered(From[k], To[k], total)
    BY <1>7, <2>1 DEF Chunks
  <2>3. /\ ~ (From[k] > To[k])
        /\ (IF To[k] < total THEN To[k] ELSE total) = To[k]
    BY <1>8
  <2> QED  BY <2>2, <2>3 DEF Rendered
<1>13. parts \in Seq(Seq(Nat)) /\ Len(parts) = count /\ DOMAIN parts = 1..count
  <2>1. \A k \in 1..count : Ascending(From[k], To[k]) \in Seq(Nat)
    BY <1>8, AscendingIs
  <2>2. PICK n \in Nat : n = count
    BY <1>4
  <2>3. parts \in [1..n -> Seq(Nat)]
    BY <1>7, <1>12, <2>1, <2>2 DEF Chunks
  <2>4. DOMAIN parts = 1..n
    BY <2>3
  <2>5. parts \in Seq(Seq(Nat))
    BY <2>3
  <2>6. Len(parts) = n
    BY <2>4, <2>5
  <2> QED  BY <2>2, <2>4, <2>5, <2>6
<1>14. PICK h : Joins(h, parts) /\ FlattenSeq(parts) = h[count]
  <2>1. Len(parts) # 0
    BY <1>4, <1>13
  <2> QED  BY <1>13, <2>1, FlattenSteps
<1> DEFINE M == {m \in Nat : \A k \in 1..count : k <= m => h[k] = Ascending(start, To[k])}
<1>15. 0 \in M
  BY <1>4
<1>16. ASSUME NEW m \in Nat, m \in M
       PROVE  m + 1 \in M
  <2> SUFFICES ASSUME NEW k \in 1..count, k <= m + 1
               PROVE  h[k] = Ascending(start, To[k])
    OBVIOUS
  <2>1. CASE k = 1
    BY <1>10, <1>12, <1>13, <1>14, <2>1 DEF Joins
  <2>2. CASE k # 1
    <3>1. PICK j : j = k - 1
      OBVIOUS
    <3>2. j \in 1..count /\ j <= m /\ j < count /\ j + 1 = k
      BY <1>4, <2>2, <3>1
    <3>3. h[j] = Ascending(start, To[j])
      BY <1>16, <3>2
    <3>4. From[k] = To[j] + 1
      BY <1>11, <3>2
    <3>5. h[k] = Ascending(start, To[j]) \o Ascending(To[j] + 1, To[k])
      <4>1. h[k] = h[k - 1] \o parts[k]
        BY <1>13, <1>14, <2>2 DEF Joins
      <4>2. h[k] = h[j] \o parts[k]
        BY <3>1, <4>1
      <4> QED  BY <1>12, <3>3, <3>4, <4>2
    <3>6. /\ To[j] \in Nat /\ To[k] \in Nat /\ start <= To[j] /\ To[j] + 1 <= To[k]
      <4>1. /\ From[j] \in Nat /\ To[j] \in Nat /\ From[j] <= To[j] /\ start <= From[j]
        BY <1>8, <3>2
      <4>2. To[k] \in Nat /\ From[k] <= To[k]
        BY <1>8
      <4> QED  BY <3>4, <4>1, <4>2
    <3> QED  BY <3>5, <3>6, AscendingJoin
  <2> QED  BY <2>1, <2>2
<1>17. Nat \subseteq M
  <2> HIDE DEF M
  <2> QED  BY <1>15, <1>16, Induction
<1>18. count \in M /\ count \in 1..count /\ count <= count
  <2> HIDE DEF M
  <2> QED  BY <1>4, <1>17
<1>19. h[count] = Ascending(start, To[count])
  BY <1>18
<1> QED
  BY <1>9, <1>14, <1>19

\* Below the threshold one pdftoppm renders the span, above it the chunks do.
LEMMA RenderedWhole ==
  ASSUME PagesInv, NEW f \in Nat, NEW l \in Nat, NEW w \in Nat \ {0}, Render(f, l, w), images' # <<>>
  PROVE  images' = Rendered(RenderStart(f), RenderEnd(l, Len(document)), Len(document))
<1>1. PICK total \in Nat : total = Len(document)
  BY DEF PagesInv, Documents
<1>2. PICK start \in Nat \ {0} : start = RenderStart(f)
  BY DEF RenderStart
<1>3. PICK end \in Nat : end = RenderEnd(l, total) /\ end <= total
  BY DEF RenderEnd
<1>4. PICK ranges : ranges = IF end - start + 1 <= Threshold THEN <<<<start, end>>>>
                             ELSE ChunkRanges(start, end, w)
  OBVIOUS
<1>5. PICK parts : parts = Chunks(ranges, total)
  OBVIOUS
<1>6. images' = FlattenSeq(parts)
  BY <1>1, <1>2, <1>3, <1>4, <1>5 DEF Render, Fail, Chunks
<1>7. PICK whole : whole = Rendered(start, end, total)
  OBVIOUS
<1>8. (start <= end => whole = Ascending(start, end)) /\ (start > end => whole = <<>>)
  BY <1>3, <1>7 DEF Rendered
<1>9. whole \in Seq(Nat)
  <2>1. CASE start <= end
    <3>1. Ascending(start, end) \in Seq(Nat)
      BY <2>1, AscendingIs
    <3> QED  BY <1>8, <2>1, <3>1
  <2>2. CASE start > end
    BY <1>8, <2>2
  <2> QED  BY <2>1, <2>2
<1>10. CASE end - start + 1 <= Threshold
  <2>1. ranges = <<<<start, end>>>>
    BY <1>4, <1>10
  <2>2. parts = <<whole>>
    BY <1>5, <1>7, <2>1 DEF Chunks
  <2>3. parts \in Seq(Seq(Nat)) /\ Len(parts) = 1
    BY <1>9, <2>2
  <2>4. PICK h : Joins(h, parts) /\ FlattenSeq(parts) = h[Len(parts)]
    <3>1. Len(parts) # 0
      BY <2>3
    <3> QED  BY <2>3, <3>1, FlattenSteps
  <2>5. FlattenSeq(parts) = whole
    BY <2>2, <2>3, <2>4 DEF Joins
  <2>6. images' = Rendered(start, end, total)
    BY <1>6, <1>7, <2>5, Zenon
  <2> QED  BY <1>1, <1>2, <1>3, <2>6, Zenon
<1>11. CASE ~ (end - start + 1 <= Threshold)
  <2>1. ranges = ChunkRanges(start, end, w)
    BY <1>4, <1>11
  <2>2. start <= end
    <3>1. Threshold \in Nat
      BY PageAssumption
    <3> QED  BY <1>11, <3>1
  <2>3. FlattenSeq(parts) = Ascending(start, end)
    <3>1. FlattenSeq(Chunks(ChunkRanges(start, end, w), total)) = Ascending(start, end)
      BY <1>3, <2>2, ChunksAreTheSpan
    <3> QED  BY <1>5, <2>1, <3>1
  <2>4. images' = whole
    BY <1>6, <1>8, <2>2, <2>3
  <2> QED  BY <1>1, <1>2, <1>3, <1>7, <2>4, Zenon
<1> QED
  BY <1>10, <1>11

\* However many threads pdf_to_images_auto starts, and however the span divides
\* among them, their chunks one after another are the requested pages, each once
\* and in order.
THEOREM ChunksRenderEveryPage == PagesSpec => ImagesAreThePages
<1>1. PagesInit => PagesInv
  BY PagesStart
<1>2. PagesInv /\ [PagesNext]_pageVars => PagesInv'
  BY PagesKept
<1>3. PagesInv /\ [PagesNext]_pageVars =>
        [images' # <<>> =>
           \A f \in PageOption, l \in PageOption, w \in 1..MaxWorkers : Render(f, l, w) =>
               images' = Rendered(RenderStart(f), RenderEnd(l, Len(document)),
                                  Len(document))]_pageVars
  <2> SUFFICES ASSUME PagesInv, images' # <<>>, NEW f \in PageOption, NEW l \in PageOption,
                      NEW w \in 1..MaxWorkers, Render(f, l, w)
               PROVE  images' = Rendered(RenderStart(f), RenderEnd(l, Len(document)), Len(document))
    OBVIOUS
  <2>1. f \in Nat /\ l \in Nat /\ w \in Nat \ {0}
    BY PageAssumption DEF PageOption
  <2> QED  BY <2>1, RenderedWhole
<1> QED
  BY <1>1, <1>2, <1>3, PTL DEF PagesSpec, ImagesAreThePages

-----------------------------------------------------------------------------
(* PDF to Word                                                              *)

\* The pages of the Word document are a range of the n of the source.
Requested(w, n, first, last) ==
  /\ {w[k].page : k \in DOMAIN w} = {p \in 1..n : p >= first /\ (last = 0 \/ p <= last)}
  /\ \A j, k \in DOMAIN w : j < k => w[j].page < w[k].page

IsRange(w, start, stop) ==
  /\ DOMAIN w = 1..(IF stop > start THEN stop - start ELSE 0)
  /\ \A k \in DOMAIN w : w[k].page = start + k

LEMMA RangeIsTheRequested ==
  ASSUME NEW n \in Nat, NEW first \in Nat, NEW last \in Nat, last # 0 => first <= last,
         NEW start, start = IF first = 0 THEN 0 ELSE first - 1,
         NEW stop, stop = IF last \in 1..n THEN last ELSE n,
         NEW w, IsRange(w, start, stop)
  PROVE  Requested(w, n, first, last)
<1>1. start \in Nat /\ stop \in Nat
  OBVIOUS
<1>2. ASSUME NEW k \in DOMAIN w
      PROVE  /\ k \in Nat /\ w[k].page \in 1..n
             /\ w[k].page >= first /\ (last = 0 \/ w[k].page <= last)
  <2>1. w[k].page = start + k
    BY DEF IsRange
  <2>2. k \in 1..(IF stop > start THEN stop - start ELSE 0)
    BY DEF IsRange
  <2>3. k \in Nat /\ k >= 1 /\ stop > start /\ k <= stop - start
    BY <1>1, <2>2
  <2> QED  BY <1>1, <2>1, <2>3
<1>3. ASSUME NEW p \in 1..n, p >= first /\ (last = 0 \/ p <= last)
      PROVE  p - start \in DOMAIN w /\ w[p - start].page = p
  <2>1. p > start /\ p <= stop
    BY <1>3
  <2>2. p - start \in 1..(IF stop > start THEN stop - start ELSE 0)
    BY <1>1, <2>1
  <2>3. PICK k : k = p - start
    OBVIOUS
  <2>4. k \in DOMAIN w /\ w[k].page = start + k
    BY <2>2, <2>3 DEF IsRange
  <2>5. start + k = p
    BY <1>1, <2>3
  <2> QED  BY <2>3, <2>4, <2>5
<1>4. {w[k].page : k \in DOMAIN w} \subseteq {p \in 1..n : p >= first /\ (last = 0 \/ p <= last)}
  BY <1>2
<1>5. {p \in 1..n : p >= first /\ (last = 0 \/ p <= last)} \subseteq {w[k].page : k \in DOMAIN w}
  BY <1>3
<1>6. ASSUME NEW j \in DOMAIN w, NEW k \in DOMAIN w, j < k
      PROVE  w[j].page < w[k].page
  <2>1. w[j].page = start + j /\ w[k].page = start + k /\ j \in Nat /\ k \in Nat
    BY <1>2 DEF IsRange
  <2> QED  BY <1>1, <1>6, <2>1
<1> QED  BY <1>4, <1>5, <1>6 DEF Requested

LEMMA KnownRanks ==
  ASSUME NEW t \in KnownTags
  PROVE  /\ Rank(t) \in DOMAIN PropertyOrder /\ Rank(t) \in Nat
         /\ PropertyOrder[Rank(t)] = t
<1>1. \E k \in DOMAIN PropertyOrder : PropertyOrder[k] = t
  BY DEF KnownTags, ToSet
<1>2. Rank(t) \in DOMAIN PropertyOrder /\ PropertyOrder[Rank(t)] = t
  BY <1>1 DEF Rank
<1>3. DOMAIN PropertyOrder \subseteq Nat
  BY WordAssumption
<1> QED  BY <1>2, <1>3

AllTags == KnownTags \cup ForeignTags

LEMMA SortKeys ==
  ASSUME NEW s \in Seq(AllTags), NEW k \in 1..Len(s)
  PROVE  SortKey(s, k) \in Nat
BY KnownRanks DEF SortKey

\* The order in which the sort puts the properties of a paragraph.
LEMMA SortedInOrder ==
  ASSUME NEW s \in Seq(AllTags), NEW n \in Nat, n = Len(s)
  PROVE  \E o \in [1..n -> 1..n] :
           /\ \A j, k \in 1..n : j < k => Before(s, o[j], o[k])
           /\ Onto(o, n)
           /\ Sorted(s) = [k \in 1..n |-> s[o[k]]]
<1>1. PICK R : R = {p \in (1..n) \X (1..n) : Before(s, p[1], p[2])}
  OBVIOUS
<1>2. \A i, j \in 1..n : <<i, j>> \in R <=> Before(s, i, j)
  BY <1>1
<1>3. \A k \in 1..n : SortKey(s, k) \in Nat
  BY SortKeys
<1>4. \A i \in 1..n : ~Before(s, i, i)
  BY <1>3 DEF Before
<1>5. \A i, j \in 1..n : i # j => Before(s, i, j) \/ Before(s, j, i)
  BY <1>3 DEF Before
<1>6. \A i, j, k \in 1..n : Before(s, i, j) /\ Before(s, j, k) => Before(s, i, k)
  BY <1>3 DEF Before
<1>7. TotalOrder(R, n)
  BY <1>2, <1>4, <1>5, <1>6 DEF TotalOrder
<1>8. \E f \in [1..n -> 1..n] : OrderedBy(f, R, n)
  BY <1>7, OrderExists
<1>9. DOMAIN s = 1..n
  OBVIOUS
<1>10. PICK o : o = CHOOSE p \in [DOMAIN s -> DOMAIN s] :
                      \A j, k \in DOMAIN s : j < k => Before(s, p[j], p[k])
  OBVIOUS
<1>11. \E p \in [DOMAIN s -> DOMAIN s] :
         \A j, k \in DOMAIN s : j < k => Before(s, p[j], p[k])
  BY <1>2, <1>8, <1>9 DEF OrderedBy
<1>12. o \in [1..n -> 1..n] /\ \A j, k \in 1..n : j < k => Before(s, o[j], o[k])
  BY <1>9, <1>10, <1>11
<1>13. OrderedBy(o, R, n)
  BY <1>2, <1>12 DEF OrderedBy
<1>14. Onto(o, n)
  BY <1>7, <1>12, <1>13, OrderIsOnto
<1>15. Sorted(s) = [k \in 1..n |-> s[o[k]]]
  BY <1>9, <1>10 DEF Sorted
<1> QED  BY <1>12, <1>14, <1>15

KnownInOrder(s) == \A j, k \in DOMAIN s :
  {s[j], s[k]} \subseteq KnownTags /\ j < k => Rank(s[j]) < Rank(s[k])

LEMMA SortedIsGood ==
  ASSUME NEW s \in Seq(AllTags), IsInjective(s)
  PROVE  ToSet(s) \subseteq ToSet(Sorted(s)) /\ KnownInOrder(Sorted(s))
<1>1. PICK n \in Nat : n = Len(s)
  OBVIOUS
<1>2. PICK o \in [1..n -> 1..n] :
           /\ \A j, k \in 1..n : j < k => Before(s, o[j], o[k])
           /\ Onto(o, n)
           /\ Sorted(s) = [k \in 1..n |-> s[o[k]]]
  BY <1>1, SortedInOrder
<1>3. DOMAIN s = 1..n /\ DOMAIN Sorted(s) = 1..n
  BY <1>1, <1>2
<1>4. \A k \in 1..n : Sorted(s)[k] = s[o[k]] /\ o[k] \in 1..n
  BY <1>2
<1>5. ToSet(s) \subseteq ToSet(Sorted(s))
  BY <1>2, <1>3, <1>4 DEF ToSet, Onto
<1>6. ASSUME NEW j \in 1..n, NEW k \in 1..n, j < k,
             {Sorted(s)[j], Sorted(s)[k]} \subseteq KnownTags
      PROVE  Rank(Sorted(s)[j]) < Rank(Sorted(s)[k])
  <2>1. PICK x \in 1..n, y \in 1..n : x = o[j] /\ y = o[k]
    BY <1>4
  <2>2. Sorted(s)[j] = s[x] /\ Sorted(s)[k] = s[y] /\ s[x] \in KnownTags /\ s[y] \in KnownTags
    BY <1>4, <1>6, <2>1
  <2>3. Before(s, x, y)
    BY <1>2, <1>6, <2>1
  <2>4. SortKey(s, x) = Rank(s[x]) /\ SortKey(s, y) = Rank(s[y])
    BY <2>2 DEF SortKey
  <2>5. x # y
    BY <1>2, <1>6, <2>1 DEF Onto
  <2>6. s[x] # s[y]
    BY <1>3, <2>5 DEF IsInjective
  <2>7. Rank(s[x]) # Rank(s[y]) /\ Rank(s[x]) \in Nat /\ Rank(s[y]) \in Nat
    BY <2>2, <2>6, KnownRanks
  <2> QED  BY <2>2, <2>3, <2>4, <2>7 DEF Before
<1> QED  BY <1>3, <1>5, <1>6 DEF KnownInOrder

\* bidi is set among the properties, which all stay.
LEMMA BidiIsGood ==
  ASSUME NEW s \in Seq(AllTags), IsInjective(s)
  PROVE  /\ WithBidi(s) \in Seq(AllTags) /\ IsInjective(WithBidi(s))
         /\ ToSet(s) \subseteq ToSet(WithBidi(s))
<1> DEFINE b == "bidi"
           later == {k \in DOMAIN s : s[k] \in KnownTags /\ Rank(s[k]) > Rank(b)}
<1>1. b \in AllTags
  BY WordAssumption DEF AllTags, KnownTags
<1>2. CASE Contains(s, b)
  BY <1>2 DEF WithBidi
<1>3. CASE ~Contains(s, b)
  <2>1. PICK n \in Nat : n = Len(s) /\ DOMAIN s = 1..n
    OBVIOUS
  <2>2. \A k \in 1..n : s[k] # b /\ s[k] \in AllTags
    BY <1>3, <2>1 DEF Contains
  <2>3. CASE later = {}
    <3>1. WithBidi(s) = Append(s, b)
      BY <1>3, <2>3 DEF WithBidi
    <3>2. PICK t : t = Append(s, b)
      OBVIOUS
    <3>3. /\ t \in Seq(AllTags) /\ DOMAIN t = 1..n + 1 /\ t[n + 1] = b
          /\ \A k \in 1..n : t[k] = s[k]
      BY <1>1, <2>1, <3>2
    <3>4. IsInjective(t)
      BY <2>1, <2>2, <3>3 DEF IsInjective
    <3>5. ToSet(s) \subseteq ToSet(t)
      BY <2>1, <3>3 DEF ToSet
    <3> QED  BY <3>1, <3>2, <3>3, <3>4, <3>5
  <2>4. CASE later # {}
    <3>1. PICK c \in later : \A k \in later : c <= k
      <4>1. later \subseteq Nat
        BY <2>1
      <4> HIDE DEF later
      <4> QED  BY <2>4, <4>1, LeastNumber
    <3>2. Min(later) = c
      <4>1. \A k \in later : k \in Nat
        BY <2>1
      <4> HIDE DEF later
      <4> QED  BY <3>1, <4>1 DEF Min
    <3>3. WithBidi(s) = SubSeq(s, 1, c - 1) \o <<b>> \o SubSeq(s, c, Len(s))
      BY <1>3, <2>4, <3>2 DEF WithBidi, InsertAt
    <3>4. c \in 1..n
      BY <2>1, <3>1
    <3> HIDE DEF later
    <3>5. PICK p : p = SubSeq(s, 1, c - 1)
      OBVIOUS
    <3>6. PICK q : q = SubSeq(s, c, n)
      OBVIOUS
    <3>7. p \in Seq(AllTags) /\ Len(p) = c - 1 /\ \A k \in 1..c - 1 : p[k] = s[k]
      BY <2>1, <3>4, <3>5
    <3>8. q \in Seq(AllTags) /\ Len(q) = n - c + 1 /\ \A k \in 1..n - c + 1 : q[k] = s[c + k - 1]
      BY <2>1, <3>4, <3>6
    <3>9. PICK u : u = p \o <<b>>
      OBVIOUS
    <3>10. /\ u \in Seq(AllTags) /\ Len(u) = c /\ u[c] = b
           /\ \A k \in 1..c - 1 : u[k] = s[k]
      BY <1>1, <3>4, <3>7, <3>9
    <3>11. PICK t : t = u \o q
      OBVIOUS
    <3>12. /\ t \in Seq(AllTags) /\ Len(t) = n + 1
           /\ \A k \in 1..c : t[k] = u[k]
           /\ \A k \in c + 1..n + 1 : t[k] = q[k - c]
      <4>1. t \in Seq(AllTags)
        BY <3>8, <3>10, <3>11
      <4>2. Len(t) = c + (n - c + 1)
        <5>1. Len(u \o q) = Len(u) + Len(q)
          BY <3>8, <3>10
        <5> QED  BY <3>8, <3>10, <3>11, <5>1
      <4>3. \A k \in 1..c : t[k] = u[k]
        BY <2>1, <3>4, <3>8, <3>10, <3>11
      <4>4. ASSUME NEW k \in c + 1..n + 1
            PROVE  t[k] = q[k - c]
        <5>1. k \in Nat /\ k > c /\ k <= c + (n - c + 1)
          BY <3>4
        <5> QED  BY <2>1, <3>4, <3>8, <3>10, <3>11, <5>1
      <4> QED  BY <2>1, <3>4, <4>1, <4>2, <4>3, <4>4
    <3>13. /\ DOMAIN t = 1..n + 1 /\ t[c] = b
           /\ \A k \in 1..c - 1 : t[k] = s[k]
           /\ \A k \in c + 1..n + 1 : t[k] = s[k - 1]
      <4>1. ASSUME NEW k \in c + 1..n + 1
            PROVE  t[k] = s[k - 1]
        <5>1. k - c \in 1..n - c + 1 /\ c + (k - c) - 1 = k - 1
          BY <3>4
        <5> QED  BY <3>8, <3>12, <5>1
      <4> QED  BY <3>4, <3>10, <3>12, <4>1
    <3>14. \A k \in 1..n : t[IF k < c THEN k ELSE k + 1] = s[k]
      BY <3>4, <3>13
    <3>15. ToSet(s) \subseteq ToSet(t)
      <4>1. \A k \in 1..n : (IF k < c THEN k ELSE k + 1) \in 1..n + 1
        BY <3>4
      <4> QED  BY <2>1, <3>13, <3>14, <4>1 DEF ToSet
    <3>16. ASSUME NEW j \in 1..n + 1, NEW k \in 1..n + 1, t[j] = t[k], j < k
           PROVE  FALSE
      <4> DEFINE Past(i) == IF i < c THEN i ELSE i - 1
      <4>1. \A i \in 1..n + 1 : i # c => Past(i) \in 1..n /\ t[i] = s[Past(i)]
        BY <3>4, <3>13
      <4>2. j # c /\ k # c
        BY <2>2, <3>13, <3>16, <4>1
      <4>3. Past(j) # Past(k)
        BY <3>4, <3>16, <4>2
      <4> QED  BY <2>1, <3>16, <4>1, <4>2, <4>3 DEF IsInjective
    <3>17. IsInjective(t)
      BY <3>13, <3>16 DEF IsInjective
    <3> QED  BY <2>1, <3>3, <3>5, <3>6, <3>9, <3>11, <3>12, <3>15, <3>17
  <2> QED  BY <2>3, <2>4
<1> QED  BY <1>2, <1>3

WordInv ==
  /\ {"pages", "first", "last"} \subseteq DOMAIN source
  /\ source.pages \in Seq({"text", "scan"})
  /\ source.first \in Nat /\ source.last \in Nat
  /\ source.last # 0 => source.first <= source.last
  /\ step = "converted" => tags \in Seq(AllTags) /\ IsInjective(tags)
  /\ PagesAreTheRequested

LEMMA WordStarts == WordInit => WordInv
<1> SUFFICES ASSUME WordInit
             PROVE  WordInv
  OBVIOUS
<1>1. /\ source.pages \in UNION {[1..n -> {"text", "scan"}] : n \in 0..MaxPdfPages}
      /\ source.first \in 0..MaxPdfPages /\ source.last \in 0..MaxPdfPages
      /\ source.last # 0 => source.first <= source.last
      /\ {"pages", "first", "last"} \subseteq DOMAIN source
      /\ step = "asked"
  BY DEF WordInit
<1>2. \A n \in 0..MaxPdfPages : [1..n -> {"text", "scan"}] \subseteq Seq({"text", "scan"})
  BY WordAssumption
<1>3. source.pages \in Seq({"text", "scan"})
  BY <1>1, <1>2
<1>4. source.first \in Nat /\ source.last \in Nat
  BY <1>1, WordAssumption
<1> QED  BY <1>1, <1>3, <1>4 DEF WordInv, PagesAreTheRequested

LEMMA PreparationKeeps == ASSUME WordInv, NEW cpus, Prepare(cpus) PROVE WordInv'
<1>1. /\ source'.pages = source.pages /\ source'.first = source.first
      /\ source'.last = source.last /\ DOMAIN source' = DOMAIN source
      /\ step' \notin {"converted", "done"}
  BY DEF WordInv, Prepare
<1> QED  BY <1>1 DEF WordInv, PagesAreTheRequested

LEMMA TagSeqsAreGood ==
  ASSUME NEW s \in TagSeqs
  PROVE  s \in Seq(AllTags) /\ IsInjective(s)
<1>1. PICK n \in 1..MaxTags : s \in [1..n -> AllTags] /\ IsInjective(s)
  BY DEF TagSeqs, AllTags
<1>2. n \in Nat
  BY WordAssumption
<1> QED  BY <1>1, <1>2

LEMMA RangeOf ==
  ASSUME NEW start, NEW stop, NEW how, NEW w, w = Pages2Docx(start, stop, how)
  PROVE  IsRange(w, start, stop)
BY DEF Pages2Docx, IsRange

LEMMA ConversionConverts == ASSUME WordInv, Convert PROVE WordInv'
<1>1. source' = source
  BY DEF Convert
<1>2. CASE step' = "could not convert" /\ UNCHANGED <<word, tags>>
  BY <1>1, <1>2 DEF WordInv, PagesAreTheRequested
<1>3. CASE word' \in {ByLayout, Fallback} /\ step' = "converted" /\ tags' \in TagSeqs
  <2>1. tags' \in Seq(AllTags) /\ IsInjective(tags')
    BY <1>3, TagSeqsAreGood
  <2>2. PICK n \in Nat : n = Len(source.pages) /\ DOMAIN source.pages = 1..n
    BY DEF WordInv
  <2>3. PICK w : w = word'
    OBVIOUS
  <2>4. PICK start, stop : start = Start /\ stop = Stop
    OBVIOUS
  <2>5. \E how : w = Pages2Docx(start, stop, how)
    BY <1>3, <2>3, <2>4 DEF ByLayout, Fallback
  <2>6. IsRange(w, start, stop)
    BY <2>5, RangeOf
  <2>7. PICK first, last : first = source.first /\ last = source.last
    OBVIOUS
  <2>8. first \in Nat /\ last \in Nat /\ (last # 0 => first <= last)
    BY <2>7 DEF WordInv
  <2>9. start = IF first = 0 THEN 0 ELSE first - 1
    BY <2>4, <2>7 DEF Start
  <2>10. stop = IF last \in 1..n THEN last ELSE n
    BY <2>2, <2>4, <2>7 DEF Stop
  <2>11. Requested(w, n, first, last)
    BY <2>6, <2>8, <2>9, <2>10, RangeIsTheRequested
  <2>12. PagesAreTheRequested'
    BY <1>1, <2>2, <2>3, <2>7, <2>11 DEF PagesAreTheRequested, Requested
  <2> QED  BY <1>1, <1>3, <2>1, <2>12 DEF WordInv
<1> QED  BY <1>2, <1>3 DEF Convert

LEMMA FinishKeeps ==
  ASSUME WordInv, NEW rtl, NEW letters, Finish(rtl, letters)
  PROVE  /\ WordInv'
         /\ step' = "done" => /\ ToSet(tags) \subseteq ToSet(tags')
                              /\ tags' # tags => KnownInOrder(tags')
<1>1. /\ source' = source /\ step = "converted"
      /\ step' = "torn" \/ (step' = "done" /\ word' = word)
      /\ step' = "done" =>
           tags' \in {Sorted(IF Dominant(rtl, letters) THEN WithBidi(tags) ELSE tags), tags}
  BY DEF Finish
<1>2. WordInv'
  BY <1>1 DEF WordInv, PagesAreTheRequested
<1>3. tags \in Seq(AllTags) /\ IsInjective(tags)
  BY <1>1 DEF WordInv
<1>4. CASE tags' = tags
  BY <1>2, <1>4
<1>5. CASE tags' = Sorted(IF Dominant(rtl, letters) THEN WithBidi(tags) ELSE tags)
  <2>1. PICK s : s = IF Dominant(rtl, letters) THEN WithBidi(tags) ELSE tags
    OBVIOUS
  <2>2. s \in Seq(AllTags) /\ IsInjective(s) /\ ToSet(tags) \subseteq ToSet(s)
    BY <1>3, <2>1, BidiIsGood
  <2>3. tags' = Sorted(s)
    BY <1>5, <2>1
  <2>4. ToSet(s) \subseteq ToSet(Sorted(s)) /\ KnownInOrder(Sorted(s))
    BY <2>2, SortedIsGood
  <2>5. KnownInOrder(tags')
    BY <2>3, <2>4
  <2> QED  BY <1>2, <2>2, <2>3, <2>4, <2>5
<1> QED  BY <1>1, <1>2, <1>4, <1>5

LEMMA WordStep == WordInv /\ [WordNext]_wordVars => WordInv'
<1> SUFFICES ASSUME WordInv, [WordNext]_wordVars
             PROVE  WordInv'
  OBVIOUS
<1>1. ASSUME NEW cpus, Prepare(cpus)
      PROVE  WordInv'
  BY <1>1, PreparationKeeps
<1>2. CASE Convert
  BY <1>2, ConversionConverts
<1>3. ASSUME NEW rtl, NEW letters, Finish(rtl, letters)
      PROVE  WordInv'
  BY <1>3, FinishKeeps
<1>4. CASE UNCHANGED wordVars
  BY <1>4 DEF wordVars, WordInv, PagesAreTheRequested
<1> QED  BY <1>1, <1>2, <1>3, <1>4 DEF WordNext

DoneWell ==
  /\ step' \in {"converted", "done"} => PagesAreTheRequested'
  /\ step' = "done" => /\ ToSet(tags) \subseteq ToSet(tags')
                       /\ tags' # tags => KnownInOrder(tags')

\* Whatever document is converted, in whichever way, every page that was asked
\* for is in the Word document, and the pass over the paragraphs
\* (utils/pdf_convert.py) drops no property and leaves the known ones in order.
THEOREM ConversionsKeepAll == WordSpec => ConversionKeepsAll
<1>1. WordInv /\ WordInv' /\ [WordNext]_wordVars => [DoneWell]_wordVars
  <2> SUFFICES ASSUME WordInv, WordInv', WordNext
               PROVE  DoneWell
    BY DEF wordVars
  <2>1. PagesAreTheRequested'
    BY DEF WordInv
  <2>2. ASSUME step' = "done"
        PROVE  ToSet(tags) \subseteq ToSet(tags') /\ (tags' # tags => KnownInOrder(tags'))
    <3>1. PICK rtl, letters : Finish(rtl, letters)
      BY <2>2 DEF WordNext, Prepare, Convert
    <3> QED  BY <2>2, <3>1, FinishKeeps
  <2> QED  BY <2>1, <2>2 DEF DoneWell
<1>2. DoneWell =>
        /\ step' \in {"converted", "done"} => PagesAreTheRequested'
        /\ step' = "done" =>
             /\ ToSet(tags) \subseteq ToSet(tags')
             /\ tags' # tags => \A j, k \in DOMAIN tags' :
                  {tags'[j], tags'[k]} \subseteq KnownTags /\ j < k
                    => Rank(tags'[j]) < Rank(tags'[k])
  BY DEF DoneWell, KnownInOrder
<1> QED  BY <1>1, <1>2, WordStarts, WordStep, PTL DEF WordSpec, ConversionKeepsAll

-----------------------------------------------------------------------------
(* The archive                                                              *)

Counters == {Number(k) : k \in Nat}
StemParts == UNION {ToSet(u.stem) : u \in Uploads}
AddedWords == {Word(w) : w \in {"images", "stamped", "signed"} \cup DOMAIN Catalog}
NameParts == StemParts \cup AddedWords \cup Counters
Names == Seq(NameParts)

\* The name, or the name with one of the counters up to c.
LEMMA NumberedNames ==
  ASSUME NEW name \in Names, NEW c \in Nat, NEW f, f = Numbered(name, c)
  PROVE  /\ f \in [0..c -> Names]
         /\ \A j, k \in 0..c : f[j] = f[k] => j = k
<1>1. f = [k \in 0..c |-> IF k = 0 THEN name ELSE Append(name, Number(k))]
  BY DEF Numbered
<1>2. name \in Seq(NameParts) /\ Len(name) \in Nat /\ Names = Seq(NameParts)
  BY DEF Names
<1>3. \A k \in 0..c : Number(k) \in NameParts /\ Number(k).number = k
  <2>1. \A k \in 0..c : k \in Nat
    OBVIOUS
  <2>2. \A k \in Nat : Number(k) \in NameParts
    <3>1. \A k \in Nat : Number(k) \in Counters
      BY Zenon DEF Counters
    <3> QED  BY <3>1 DEF NameParts
  <2>3. \A k \in Nat : Number(k).number = k
    BY DEF Number
  <2> QED  BY <2>1, <2>2, <2>3
<1>4. \A k \in 0..c : /\ Append(name, Number(k)) \in Seq(NameParts)
                      /\ Len(Append(name, Number(k))) = Len(name) + 1
                      /\ Append(name, Number(k))[Len(name) + 1] = Number(k)
  BY <1>2, <1>3
<1>5. f \in [0..c -> Names]
  BY <1>1, <1>2, <1>4
<1>6. \A k \in 0..c : k # 0 => f[k] = Append(name, Number(k))
  BY <1>1
<1>7. f[0] = name
  BY <1>1
<1>8. ASSUME NEW j \in 0..c, NEW k \in 0..c, f[j] = f[k]
      PROVE  j = k
  <2>1. CASE j # 0 /\ k # 0
    <3>1. Append(name, Number(j)) = Append(name, Number(k))
      BY <1>6, <1>8, <2>1
    <3>2. Number(j) = Number(k)
      BY <1>4, <3>1
    <3> QED  BY <1>3, <3>2
  <2>2. CASE j = 0 /\ k # 0
    <3>1. name = Append(name, Number(k))
      BY <1>6, <1>7, <1>8, <2>2
    <3> QED  BY <1>2, <1>4, <3>1
  <2>3. CASE j # 0 /\ k = 0
    <3>1. name = Append(name, Number(j))
      BY <1>6, <1>7, <1>8, <2>3
    <3> QED  BY <1>2, <1>4, <3>1
  <2> QED  BY <2>1, <2>2, <2>3
<1> QED  BY <1>5, <1>8

LEMMA ArchiveNameIsFree ==
  ASSUME NEW taken, IsFiniteSet(taken), NEW name \in Names
  PROVE  ArchiveName(taken, name) \in Names /\ ArchiveName(taken, name) \notin taken
<1>1. PICK c \in Nat : c = Cardinality(taken)
  BY FS_CardinalityType
<1>2. PICK f : f = Numbered(name, c)
  OBVIOUS
<1>3. f \in [0..c -> Names] /\ \A j, k \in 0..c : f[j] = f[k] => j = k
  BY <1>2, NumberedNames
<1>4. \E k \in 0..c : f[k] \notin taken
  <2> SUFFICES ASSUME \A k \in 0..c : f[k] \in taken
               PROVE  FALSE
    OBVIOUS
  <2>1. f \in [0..c -> taken]
    BY <1>3
  <2>2. IsFiniteSet(0..c) /\ Cardinality(0..c) = c + 1
    BY FS_Interval
  <2>3. Cardinality(taken) < Cardinality(0..c)
    BY <1>1, <2>2
  <2>4. \E j, k \in 0..c : j # k /\ f[j] = f[k]
    BY <2>1, <2>2, <2>3, FS_PigeonHole
  <2> QED  BY <1>3, <2>4
<1>5. PICK S : S = {k \in 0..c : f[k] \notin taken}
  OBVIOUS
<1>6. S \subseteq Nat /\ S # {}
  BY <1>4, <1>5
<1>7. PICK n \in S : \A m \in S : n <= m
  BY <1>6, LeastNumber
<1>8. n \in 0..c /\ f[n] \notin taken /\ \A j \in 0..n - 1 : f[j] \in taken
  <2>1. n \in 0..c /\ f[n] \notin taken
    BY <1>5
  <2>2. ASSUME NEW j \in 0..n - 1
        PROVE  f[j] \in taken
    <3>1. j \in 0..c /\ ~(n <= j)
      BY <2>1
    <3> QED  BY <1>5, <1>7, <3>1
  <2> QED  BY <2>1, <2>2
<1>9. PICK k : k = CHOOSE m \in DOMAIN f : /\ f[m] \notin taken
                                           /\ \A j \in 0..m - 1 : f[j] \in taken
  OBVIOUS
<1>10. DOMAIN f = 0..c
  BY <1>3
<1>11. k \in 0..c /\ f[k] \notin taken
  BY <1>8, <1>9, <1>10
<1>12. ArchiveName(taken, name) = f[k]
  BY <1>1, <1>2, <1>9 DEF ArchiveName
<1> QED  BY <1>3, <1>11, <1>12

LEMMA FiniteParts ==
  ASSUME NEW T, NEW s \in Seq(T)
  PROVE  IsFiniteSet(ToSet(s))
<1>1. PICK n \in Nat : n = Len(s) /\ DOMAIN s = 1..n
  OBVIOUS
<1>2. IsFiniteSet(1..n)
  BY FS_Interval
<1>3. PICK f : f = [i \in 1..n |-> s[i]]
  OBVIOUS
<1>4. ToSet(s) = {f[i] : i \in 1..n}
  BY <1>1, <1>3 DEF ToSet
<1>5. f \in [1..n -> ToSet(s)] /\ \A x \in ToSet(s) : \E i \in 1..n : f[i] = x
  BY <1>1, <1>3 DEF ToSet
<1>6. f \in Surjection(1..n, ToSet(s))
  BY <1>5 DEF Surjection
<1> QED  BY <1>2, <1>6, FS_Surjection

\* One more name, which no name before it is.
LEMMA OneMoreName ==
  ASSUME NEW s \in Seq(Names), NEW m \in Nat, Len(s) = m, IsInjective(s), NEW name \in Names,
         NEW t, t = Append(s, ArchiveName(ToSet(s), name))
  PROVE  t \in Seq(Names) /\ Len(t) = m + 1 /\ IsInjective(t)
<1>1. PICK x : x = ArchiveName(ToSet(s), name)
  OBVIOUS
<1>2. x \in Names /\ x \notin ToSet(s)
  BY <1>1, ArchiveNameIsFree, FiniteParts
<1>3. DOMAIN s = 1..m
  OBVIOUS
<1>4. \A k \in 1..m : s[k] # x
  BY <1>2, <1>3 DEF ToSet
<1>5. /\ t \in Seq(Names) /\ Len(t) = m + 1 /\ DOMAIN t = 1..m + 1 /\ t[m + 1] = x
      /\ \A k \in 1..m : t[k] = s[k]
  BY <1>1, <1>2
<1>6. \A k \in 1..m + 1 : k \in 1..m \/ k = m + 1
  OBVIOUS
<1>7. IsInjective(t)
  BY <1>3, <1>4, <1>5, <1>6 DEF IsInjective
<1> QED  BY <1>5, <1>7

\* Every file of an archive has a name of its own, however many share one.
LEMMA ArchivedIsGood ==
  ASSUME NEW names \in Seq(Names)
  PROVE  Len(Archived(names)) = Len(names) /\ IsInjective(Archived(names))
<1>1. PICK n \in Nat : n = Len(names)
  OBVIOUS
<1>2. \A k \in 1..n : names[k] \in Names
  BY <1>1
<1> DEFINE V == Seq(Names)
           Eq(g) == g = [k \in 0..n |-> IF k = 0 THEN <<>>
                           ELSE Append(g[k - 1], ArchiveName(ToSet(g[k - 1]), names[k]))]
<1>3. PICK G : G = [k \in 1..n |-> [s \in V |-> Append(s, ArchiveName(ToSet(s), names[k]))]]
  OBVIOUS
<1>4. G \in [1..n -> [V -> V]]
  <2>1. ASSUME NEW k \in 1..n, NEW s \in V
        PROVE  Append(s, ArchiveName(ToSet(s), names[k])) \in V
    <3>1. ArchiveName(ToSet(s), names[k]) \in Names
      BY <1>2, ArchiveNameIsFree, FiniteParts
    <3> QED  BY <3>1
  <2> HIDE DEF V
  <2> QED  BY <1>3, <2>1
<1>5. <<>> \in V
  OBVIOUS
<1>6. PICK h \in [0..n -> V] : h[0] = <<>> /\ \A k \in 1..n : h[k] = G[k][h[k - 1]]
  <2>1. PICK base \in V : base = <<>>
    BY <1>5
  <2> HIDE DEF V
  <2>2. CanBeMade(n, V, base, G)
    BY <1>4, StepsExist
  <2>3. \E h \in [0..n -> V] : h[0] = base /\ \A k \in 1..n : h[k] = G[k][h[k - 1]]
    BY <2>2 DEF CanBeMade
  <2> QED  BY <2>1, <2>3, Zenon
<1>7. \A k \in 0..n : h[k] = IF k = 0 THEN <<>>
                             ELSE Append(h[k - 1], ArchiveName(ToSet(h[k - 1]), names[k]))
  <2> HIDE DEF V
  <2> SUFFICES ASSUME NEW k \in 0..n, k # 0
               PROVE  h[k] = Append(h[k - 1], ArchiveName(ToSet(h[k - 1]), names[k]))
    BY <1>6
  <2>1. k \in 1..n /\ k - 1 \in 0..n
    OBVIOUS
  <2>2. h[k - 1] \in V
    BY <1>6, <2>1
  <2>3. h[k] = G[k][h[k - 1]]
    BY <1>6, <2>1
  <2> QED  BY <1>3, <2>1, <2>2, <2>3
<1>8. Eq(h)
  <2> HIDE DEF V
  <2> QED  BY <1>6, <1>7
<1>9. PICK first : first = CHOOSE g : Eq(g)
  OBVIOUS
<1>10. Eq(first)
  <2> HIDE DEF Eq
  <2> QED  BY <1>8, <1>9
<1>11. Archived(names) = first[n]
  BY <1>1, <1>9 DEF Archived
<1> DEFINE Fine(m) == first[m] \in V /\ Len(first[m]) = m /\ IsInjective(first[m])
           T == {m \in Nat : m <= n => Fine(m)}
<1>12. 0 \in T
  <2>1. 0 \in 0..n
    OBVIOUS
  <2>2. first[0] = <<>>
    BY <1>10, <2>1
  <2>3. Len(<<>>) = 0 /\ IsInjective(<<>>)
    BY DEF IsInjective
  <2> QED  BY <1>5, <2>2, <2>3
<1>13. ASSUME NEW m \in Nat, m \in T, m + 1 <= n
       PROVE  Fine(m + 1)
  <2>1. m + 1 \in 0..n /\ m + 1 \in 1..n /\ m + 1 # 0 /\ (m + 1) - 1 = m /\ m <= n
    BY <1>13
  <2>2. Fine(m)
    BY <1>13, <2>1
  <2>3. PICK s : s = first[m]
    OBVIOUS
  <2>4. first[m + 1] = Append(s, ArchiveName(ToSet(s), names[m + 1]))
    BY <1>10, <2>1, <2>3
  <2>5. names[m + 1] \in Names
    BY <1>2, <2>1
  <2>6. s \in Seq(Names) /\ Len(s) = m /\ IsInjective(s)
    BY <2>2, <2>3
  <2>7. PICK t : t = first[m + 1]
    OBVIOUS
  <2>8. PICK name \in Names : name = names[m + 1]
    BY <2>5
  <2>9. t = Append(s, ArchiveName(ToSet(s), name))
    BY <2>4, <2>7, <2>8
  <2>10. t \in Seq(Names) /\ Len(t) = m + 1 /\ IsInjective(t)
    BY <2>6, <2>9, OneMoreName
  <2> QED  BY <2>7, <2>10
<1>14. Fine(n)
  <2>1. \A m \in Nat : m \in T => m + 1 \in T
    <3> HIDE DEF Fine
    <3> QED  BY <1>13
  <2>2. Nat \subseteq T
    <3> HIDE DEF T
    <3> QED  BY <1>12, <2>1, Induction
  <2> HIDE DEF Fine
  <2> QED  BY <2>2
<1> QED  BY <1>1, <1>11, <1>14

-----------------------------------------------------------------------------
(* The results of a job                                                     *)

\* Each of them has a name.
Yields(made) == \E n \in Nat : DOMAIN made = 1..n /\ \A i \in 1..n : made[i].name \in Names

\* Each document has one, in the order of the request.
InTurn(inputs, names) ==
  \A i, j \in DOMAIN inputs :
    i < j /\ {inputs[i].ext, inputs[j].ext} = Pdf =>
      \E k, l \in DOMAIN names : /\ k < l /\ IsPrefix(inputs[i].stem, names[k])
                                 /\ IsPrefix(inputs[j].stem, names[l])

NamesOf(made) == [i \in DOMAIN made |-> made[i].name]
Answers(inputs, made) == InTurn(inputs, NamesOf(made))

LEMMA StemsAreNames ==
  ASSUME NEW u \in Uploads
  PROVE  u.stem \in Names
<1>1. PICK S : S = ToSet(u.stem)
  OBVIOUS
<1>2. u.stem \in Seq(S)
  BY <1>1, CatalogAssumption
<1>3. S \subseteq StemParts
  BY <1>1 DEF StemParts
<1>4. S \subseteq NameParts
  BY <1>3 DEF NameParts
<1> QED  BY <1>2, <1>4 DEF Names

LEMMA NamesGrow ==
  ASSUME NEW s \in Names, NEW x \in NameParts
  PROVE  /\ IsPrefix(s, s)
         /\ Append(s, x) \in Names /\ IsPrefix(s, Append(s, x))
<1>1. PICK n \in Nat : n = Len(s) /\ s \in Seq(NameParts)
  BY DEF Names
<1>2. PICK t : t = Append(s, x)
  OBVIOUS
<1>3. t \in Seq(NameParts) /\ Len(t) = n + 1 /\ \A k \in 1..n : t[k] = s[k]
  BY <1>1, <1>2
<1>4. PICK a, b : a = SubSeq(s, 1, n) /\ b = SubSeq(t, 1, n)
  OBVIOUS
<1>5. a \in Seq(NameParts) /\ Len(a) = n /\ \A k \in 1..n : a[k] = s[k]
  BY <1>1, <1>4
<1>6. b \in Seq(NameParts) /\ Len(b) = n /\ \A k \in 1..n : b[k] = t[k]
  BY <1>1, <1>3, <1>4
<1>7. a = b
  BY <1>3, <1>5, <1>6
<1> QED  BY <1>1, <1>2, <1>3, <1>4, <1>7 DEF IsPrefix, Names

LEMMA WordsAreParts ==
  /\ Word("images") \in NameParts /\ Word("stamped") \in NameParts /\ Word("signed") \in NameParts
  /\ \A slug \in DOMAIN Catalog : Word(slug) \in NameParts
<1>1. \A w \in {"images", "stamped", "signed"} \cup DOMAIN Catalog : Word(w) \in AddedWords
  BY Zenon DEF AddedWords
<1> QED  BY <1>1 DEF NameParts

LEMMA NumbersAreParts == \A k \in Nat : Number(k) \in NameParts
<1>1. \A k \in Nat : Number(k) \in Counters
  BY Zenon DEF Counters
<1> QED  BY <1>1 DEF NameParts

LEMMA OneForEach ==
  ASSUME NEW inputs \in Seq(Uploads), NEW made, DOMAIN made = DOMAIN inputs,
         \A i \in DOMAIN inputs : /\ made[i].name \in Names
                                  /\ IsPrefix(inputs[i].stem, made[i].name)
  PROVE  Yields(made) /\ Answers(inputs, made)
<1>1. PICK n \in Nat : n = Len(inputs) /\ DOMAIN inputs = 1..n
  OBVIOUS
<1>2. Yields(made)
  BY <1>1 DEF Yields
<1>3. DOMAIN NamesOf(made) = 1..n /\ \A i \in 1..n : NamesOf(made)[i] = made[i].name
  BY <1>1 DEF NamesOf
<1> QED  BY <1>1, <1>2, <1>3 DEF Answers, InTurn

LEMMA EachInputIsGood ==
  ASSUME NEW inputs \in Seq(Uploads), NEW suffix, Word(suffix) \in NameParts
  PROVE  Yields(EachInput(inputs, suffix)) /\ Answers(inputs, EachInput(inputs, suffix))
<1>1. PICK made : made = EachInput(inputs, suffix)
  OBVIOUS
<1>2. DOMAIN made = DOMAIN inputs
  BY <1>1 DEF EachInput
<1>3. ASSUME NEW i \in DOMAIN inputs
      PROVE  made[i].name \in Names /\ IsPrefix(inputs[i].stem, made[i].name)
  <2>1. made[i].name = Append(inputs[i].stem, Word(suffix))
    BY <1>1 DEF EachInput, Made, Named
  <2>2. inputs[i].stem \in Names
    BY StemsAreNames
  <2> QED  BY <2>1, <2>2, NamesGrow
<1> QED  BY <1>1, <1>2, <1>3, OneForEach

\* A result under the name of the document itself.
LEMMA SameNamesAreGood ==
  ASSUME NEW inputs \in Seq(Uploads), NEW made, DOMAIN made = DOMAIN inputs,
         \A i \in DOMAIN inputs : made[i].name = inputs[i].stem
  PROVE  Yields(made) /\ Answers(inputs, made)
<1>1. ASSUME NEW i \in DOMAIN inputs
      PROVE  made[i].name \in Names /\ IsPrefix(inputs[i].stem, made[i].name)
  <2>1. inputs[i].stem \in Names
    BY StemsAreNames
  <2>2. \E x : x \in NameParts
    BY WordsAreParts
  <2>3. IsPrefix(inputs[i].stem, inputs[i].stem)
    BY <2>1, <2>2, NamesGrow
  <2> QED  BY <2>1, <2>3
<1> QED  BY <1>1, OneForEach

\* The documents among the inputs, in the order in which they are given.
LEMMA KeptInOrder ==
  ASSUME NEW inputs \in Seq(Uploads), NEW extensions
  PROVE  \E c \in Nat : \E f \in [1..c -> DOMAIN inputs] :
           /\ OfExtension(inputs, extensions) = [k \in 1..c |-> inputs[f[k]]]
           /\ \A j, k \in 1..c : j < k => f[j] < f[k]
           /\ \A i \in DOMAIN inputs : inputs[i].ext \in extensions => \E k \in 1..c : f[k] = i
<1>1. PICK n \in Nat : n = Len(inputs) /\ DOMAIN inputs = 1..n
  OBVIOUS
<1>2. PICK S : S = {i \in DOMAIN inputs : inputs[i].ext \in extensions}
  OBVIOUS
<1>3. S \in SUBSET (1..n)
  BY <1>1, <1>2
<1>4. PICK f : f = CHOOSE g \in [1..Cardinality(S) -> S] :
                     \A j, k \in DOMAIN g : j < k => g[j] < g[k]
  OBVIOUS
<1>5. \E g \in [1..Cardinality(S) -> S] : \A j, k \in DOMAIN g : j < k => g[j] < g[k]
  BY <1>3, NumbersInOrder
<1>6. f \in [1..Cardinality(S) -> S] /\ \A j, k \in DOMAIN f : j < k => f[j] < f[k]
  BY <1>4, <1>5
<1>7. /\ Cardinality(S) \in Nat
      /\ \A x \in S : \E k \in 1..Cardinality(S) : f[k] = x
  BY <1>3, <1>6, ListsAll
<1>8. PICK c \in Nat : c = Cardinality(S)
  BY <1>7
<1>9. f \in [1..c -> DOMAIN inputs] /\ DOMAIN f = 1..c
  BY <1>1, <1>3, <1>6, <1>8
<1>10. OfExtension(inputs, extensions) = [k \in 1..c |-> inputs[f[k]]]
  BY <1>2, <1>4, <1>9 DEF OfExtension
<1>11. \A i \in DOMAIN inputs : inputs[i].ext \in extensions => \E k \in 1..c : f[k] = i
  BY <1>2, <1>7, <1>8
<1>12. \A j, k \in 1..c : j < k => f[j] < f[k]
  BY <1>6, <1>9
<1> QED  BY <1>9, <1>10, <1>11, <1>12

LEMMA KeptDocumentsAreAnswered ==
  ASSUME NEW inputs \in Seq(Uploads), NEW suffix, Word(suffix) \in NameParts, NEW made,
         made = EachInput(OfExtension(inputs, Pdf), suffix)
  PROVE  Yields(made) /\ Answers(inputs, made)
<1>1. PICK kept : kept = OfExtension(inputs, Pdf)
  OBVIOUS
<1>2. PICK c \in Nat : \E f \in [1..c -> DOMAIN inputs] :
           /\ kept = [k \in 1..c |-> inputs[f[k]]]
           /\ \A j, k \in 1..c : j < k => f[j] < f[k]
           /\ \A i \in DOMAIN inputs : inputs[i].ext \in Pdf => \E k \in 1..c : f[k] = i
  BY <1>1, KeptInOrder
<1>3. PICK f \in [1..c -> DOMAIN inputs] :
           /\ kept = [k \in 1..c |-> inputs[f[k]]]
           /\ \A j, k \in 1..c : j < k => f[j] < f[k]
           /\ \A i \in DOMAIN inputs : inputs[i].ext \in Pdf => \E k \in 1..c : f[k] = i
  BY <1>2
<1>4. PICK n \in Nat : n = Len(inputs) /\ DOMAIN inputs = 1..n /\ \A i \in 1..n : inputs[i] \in Uploads
  OBVIOUS
<1>5. \A k \in 1..c : f[k] \in 1..n /\ f[k] \in Nat
  BY <1>3, <1>4
<1>6. kept \in [1..c -> Uploads] /\ DOMAIN kept = 1..c
  BY <1>3, <1>4, <1>5
<1>7. kept \in Seq(Uploads)
  BY <1>6
<1>8. Yields(made)
  BY <1>1, <1>7, EachInputIsGood
<1>9. DOMAIN made = 1..c /\ DOMAIN NamesOf(made) = 1..c
  BY <1>1, <1>6 DEF EachInput, NamesOf
<1>10. ASSUME NEW k \in 1..c
      PROVE  IsPrefix(inputs[f[k]].stem, NamesOf(made)[k])
  <2>1. NamesOf(made)[k] = made[k].name
    BY <1>9 DEF NamesOf
  <2>2. made[k].name = Append(kept[k].stem, Word(suffix))
    BY <1>1, <1>6 DEF EachInput, Made, Named
  <2>3. kept[k] = inputs[f[k]] /\ kept[k] \in Uploads
    BY <1>3, <1>6
  <2>4. kept[k].stem \in Names
    BY <2>3, StemsAreNames
  <2> QED  BY <2>1, <2>2, <2>3, <2>4, NamesGrow
<1>11. ASSUME NEW i \in 1..n, NEW j \in 1..n, i < j, {inputs[i].ext, inputs[j].ext} = Pdf
       PROVE  \E k, l \in 1..c : /\ k < l /\ IsPrefix(inputs[i].stem, NamesOf(made)[k])
                                 /\ IsPrefix(inputs[j].stem, NamesOf(made)[l])
  <2>1. inputs[i].ext \in Pdf /\ inputs[j].ext \in Pdf
    BY <1>11
  <2>2. PICK k \in 1..c, l \in 1..c : f[k] = i /\ f[l] = j
    BY <1>3, <1>4, <2>1
  <2>3. k < l
    <3>1. k = l => FALSE
      BY <1>11, <2>2
    <3>2. l < k => FALSE
      BY <1>3, <1>11, <2>2
    <3> QED  BY <3>1, <3>2
  <2> QED  BY <1>10, <2>2, <2>3
<1>12. Answers(inputs, made)
  BY <1>4, <1>9, <1>11 DEF Answers, InTurn
<1> QED  BY <1>8, <1>12

\* The pages of each document.
LEMMA PagesAreGood ==
  ASSUME NEW inputs \in Seq(Uploads), NEW made, made = EachPage(inputs)
  PROVE  Yields(made) /\ Answers(inputs, made)
<1>1. PICK n \in Nat : n = Len(inputs) /\ DOMAIN inputs = 1..n /\ \A i \in 1..n : inputs[i] \in Uploads
  OBVIOUS
<1> DEFINE PageName(i, p) == IF inputs[i].pages = 1 THEN inputs[i].stem
                             ELSE Named(inputs[i], Number(p))
           Page(i, p) == Made(<<inputs[i].id, p>>, PageName(i, p))
           Paths == {<<inputs[i].id, p>> : i \in 1..n, p \in Nat}
           T == [path : Paths, name : Names]
<1>2. PICK seqs : seqs = [i \in 1..n |-> [p \in 1..inputs[i].pages |-> Page(i, p)]]
  OBVIOUS
<1>3. made = FlattenSeq(seqs)
  BY <1>1, <1>2 DEF EachPage
<1>4. ASSUME NEW i \in 1..n, NEW p \in Nat
      PROVE  /\ Page(i, p).name = PageName(i, p) /\ PageName(i, p) \in Names
             /\ IsPrefix(inputs[i].stem, PageName(i, p)) /\ Page(i, p) \in T
  <2>1. Page(i, p).name = PageName(i, p)
    BY DEF Made
  <2>2. inputs[i].stem \in Names /\ Number(p) \in NameParts
    BY <1>1, StemsAreNames, NumbersAreParts
  <2>3. PageName(i, p) \in Names /\ IsPrefix(inputs[i].stem, PageName(i, p))
    BY <2>2, NamesGrow DEF Named
  <2>4. <<inputs[i].id, p>> \in Paths
    OBVIOUS
  <2>5. PICK path \in Paths, name \in Names : path = <<inputs[i].id, p>> /\ name = PageName(i, p)
    <3> HIDE DEF Paths, PageName
    <3> QED  BY <2>3, <2>4
  <2>6. Page(i, p) = [path |-> path, name |-> name]
    BY <2>5 DEF Made
  <2>7. Page(i, p) \in T
    <3> HIDE DEF Paths, Page
    <3> QED  BY <2>6
  <2> HIDE DEF T, Page, PageName
  <2> QED  BY <2>1, <2>3, <2>7
<1> HIDE DEF T, Page, PageName, Paths
<1>5. ASSUME NEW i \in 1..n
      PROVE  /\ seqs[i] \in Seq(T) /\ Len(seqs[i]) # 0
             /\ IsPrefix(inputs[i].stem, seqs[i][1].name)
  <2>1. PICK q \in Nat \ {0} : q = inputs[i].pages
    BY <1>1, CatalogAssumption
  <2>2. PICK s : s = seqs[i]
    OBVIOUS
  <2>3. s = [p \in 1..q |-> Page(i, p)]
    BY <1>2, <2>1, <2>2
  <2>4. \A p \in 1..q : Page(i, p) \in T
    <3>1. \A p \in 1..q : p \in Nat
      OBVIOUS
    <3> QED  BY <1>4, <3>1
  <2>5. s \in [1..q -> T] /\ s[1] = Page(i, 1)
    BY <2>3, <2>4
  <2>6. s \in Seq(T) /\ Len(s) = q
    BY <2>5
  <2>7. IsPrefix(inputs[i].stem, s[1].name)
    <3>1. 1 \in Nat /\ Page(i, 1).name = PageName(i, 1) /\ IsPrefix(inputs[i].stem, PageName(i, 1))
      BY <1>4
    <3> QED  BY <2>5, <3>1
  <2> QED  BY <2>1, <2>2, <2>6, <2>7
<1>6. seqs \in Seq(Seq(T)) /\ DOMAIN seqs = 1..n
  <2> QED  BY <1>2, <1>5
<1>7. made \in Seq(T)
  <2> QED  BY <1>3, <1>6, FlattenType
<1>8. Yields(made)
  <2>1. \A m \in T : m.name \in Names
    BY DEF T
  <2>2. PICK c \in Nat : DOMAIN made = 1..c /\ \A k \in 1..c : made[k] \in T
    BY <1>7
  <2> QED  BY <2>1, <2>2 DEF Yields
<1>9. BeginInTurn(seqs)
  <2> QED  BY <1>5, <1>6, FlattenBegins
<1>10. ASSUME NEW i \in 1..n, NEW j \in 1..n, i < j
       PROVE  \E k, l \in DOMAIN NamesOf(made) :
                /\ k < l /\ IsPrefix(inputs[i].stem, NamesOf(made)[k])
                /\ IsPrefix(inputs[j].stem, NamesOf(made)[l])
  <2>1. \E k, l \in DOMAIN made : k < l /\ made[k] = seqs[i][1] /\ made[l] = seqs[j][1]
    <3>1. \E k, l \in DOMAIN FlattenSeq(seqs) :
            k < l /\ FlattenSeq(seqs)[k] = seqs[i][1] /\ FlattenSeq(seqs)[l] = seqs[j][1]
      <4>1. i \in DOMAIN seqs /\ j \in DOMAIN seqs
        BY <1>6
      <4> QED  BY <1>9, <1>10, <4>1, Zenon DEF BeginInTurn
    <3> QED  BY <1>3, <3>1
  <2>3. PICK k \in DOMAIN made, l \in DOMAIN made :
          k < l /\ made[k] = seqs[i][1] /\ made[l] = seqs[j][1]
    BY <2>1
  <2>2. IsPrefix(inputs[i].stem, made[k].name) /\ IsPrefix(inputs[j].stem, made[l].name)
    BY <1>5, <2>3
  <2> QED  BY <2>2, <2>3 DEF NamesOf
<1>11. Answers(inputs, made)
  BY <1>1, <1>10 DEF Answers, InTurn
<1> QED  BY <1>8, <1>11

\* Pictures make no document of their own.
PictureTools == {"jpg_to_pdf", "png_to_pdf"}

LEMMA PicturesTakeNoDocument ==
  ASSUME NEW slug \in PictureTools
  PROVE  "pdf" \notin Catalog[slug].takes
<1>1. ImageTools \in Families /\ DOMAIN ImageTools = PictureTools
  BY DEF Families, ImageTools, PictureTools
<1>2. \A f \in Families : slug \in DOMAIN f => f = ImageTools
  BY DEF PictureTools, Families, OrganizeTools, OfficeTools, SlideTool, RenderTool,
         LosslessTool, WatermarkTool, HeaderTool, NumbersTool, RemoveTool, ProtectTool,
         UnlockTool, DocumentServices, EnhanceServices, CompressTool
<1>3. PICK f : f = CHOOSE g \in Families : slug \in DOMAIN g
  OBVIOUS
<1>4. f = ImageTools
  BY <1>1, <1>2, <1>3
<1>5. slug \in UNION {DOMAIN g : g \in Families}
  BY <1>1
<1>6. Catalog[slug] = ImageTools[slug]
  BY <1>3, <1>4, <1>5 DEF Catalog
<1>7. ImageTools[slug].takes \in {Photos, {"png"}}
  BY DEF PictureTools, ImageTools, Entry
<1> QED  BY <1>6, <1>7 DEF Photos

LEMMA AlbumIsGood ==
  ASSUME NEW slug \in PictureTools, NEW inputs \in Seq(Uploads), Len(inputs) # 0,
         \A i \in DOMAIN inputs : inputs[i].ext \in Catalog[slug].takes
  PROVE  Yields(Album(inputs)) /\ Answers(inputs, Album(inputs))
<1>1. \A i \in DOMAIN inputs : inputs[i].ext # "pdf"
  BY PicturesTakeNoDocument
<1>2. Answers(inputs, Album(inputs))
  BY <1>1 DEF Answers, InTurn, Pdf
<1>3. PICK name : name = IF Len(inputs) = 1 THEN inputs[1].stem ELSE <<Word("images")>>
  OBVIOUS
<1>4. inputs[1].stem \in Names
  <2>1. inputs[1] \in Uploads
    OBVIOUS
  <2> QED  BY <2>1, StemsAreNames
<1>5. <<Word("images")>> \in Names
  <2>1. PICK w \in NameParts : w = Word("images")
    BY WordsAreParts
  <2>2. <<w>> \in Seq(NameParts)
    OBVIOUS
  <2> QED  BY <2>1, <2>2 DEF Names
<1>6. name \in Names
  BY <1>3, <1>4, <1>5
<1>7. \E path : Album(inputs) = <<[path |-> path, name |-> name]>>
  BY <1>3 DEF Album, Made
<1>8. PICK path : Album(inputs) = <<[path |-> path, name |-> name]>>
  BY <1>7
<1>9. PICK made : made = <<[path |-> path, name |-> name]>>
  OBVIOUS
<1>10. DOMAIN made = 1..1 /\ made[1].name = name
  BY <1>9
<1>11. \A i \in 1..1 : i = 1
  OBVIOUS
<1>12. Yields(made)
  BY <1>6, <1>10, <1>11 DEF Yields
<1> QED  BY <1>2, <1>8, <1>9, <1>12

LEMMA PartsAreGood ==
  ASSUME NEW inputs \in Seq(Uploads), Len(inputs) # 0, NEW made,
         made = [p \in 1..inputs[1].pages |->
                   Made(<<"part", p>>, Named(inputs[1], Number(p)))]
  PROVE  Yields(made)
<1>1. inputs[1] \in Uploads
  OBVIOUS
<1>2. inputs[1].pages \in Nat /\ inputs[1].stem \in Names
  BY <1>1, CatalogAssumption, StemsAreNames
<1>3. ASSUME NEW p \in 1..inputs[1].pages
      PROVE  made[p].name \in Names
  <2>1. made[p].name = Append(inputs[1].stem, Number(p))
    BY DEF Made, Named
  <2>2. Number(p) \in NameParts
    BY <1>2, NumbersAreParts
  <2> QED  BY <1>2, <2>1, <2>2, NamesGrow
<1> QED  BY <1>2, <1>3 DEF Yields

LEMMA OneResultIsGood ==
  ASSUME NEW slug \in DOMAIN Catalog
  PROVE  Yields(<<Made(<<"out", 0>>, <<Word(slug)>>)>>)
<1>1. PICK w \in NameParts : w = Word(slug)
  BY WordsAreParts
<1>2. <<w>> \in Names
  BY DEF Names
<1>3. PICK made : made = <<Made(<<"out", 0>>, <<w>>)>>
  OBVIOUS
<1>4. DOMAIN made = 1..1 /\ made[1].name = <<w>>
  BY <1>3 DEF Made
<1>5. \A i \in 1..1 : i = 1
  OBVIOUS
<1> QED  BY <1>1, <1>2, <1>3, <1>4, <1>5 DEF Yields

ManyToOne == {"merge", "compare", "split"}

LEMMA ProducedIsGood ==
  ASSUME NEW slug \in DOMAIN Catalog, NEW o, NEW inputs \in Seq(Uploads), Len(inputs) # 0,
         \A i \in DOMAIN inputs : inputs[i].ext \in Catalog[slug].takes,
         NEW made, made = Produced(slug, o, inputs), made # <<>>
  PROVE  Yields(made) /\ (slug \notin ManyToOne => Answers(inputs, made))
<1>1. CASE slug \in {"merge", "compare"}
  <2>1. made = <<Made(<<"out", 0>>, <<Word(slug)>>)>>
    BY <1>1 DEF Produced
  <2> QED  BY <1>1, <2>1, OneResultIsGood DEF ManyToOne
<1>2. CASE slug \in {"word_to_pdf", "excel_to_pdf", "ppt_to_pdf"}
  <2>1. made = ByStem(inputs)
    BY <1>2 DEF Produced
  <2>2. DOMAIN made = DOMAIN inputs /\ \A i \in DOMAIN inputs : made[i].name = inputs[i].stem
    BY <2>1 DEF ByStem, Made
  <2> QED  BY <2>2, SameNamesAreGood
<1>3. CASE slug \in {"pdf_to_jpg", "pdf_to_png"}
  <2>1. made = EachPage(inputs)
    BY <1>3 DEF Produced
  <2> QED  BY <2>1, PagesAreGood
<1>4. CASE slug \in PictureTools
  <2>1. made = Album(inputs)
    BY <1>4 DEF Produced, PictureTools
  <2> QED  BY <1>4, <2>1, AlbumIsGood
<1>5. CASE slug = "split"
  <2>1. made = [p \in 1..inputs[1].pages |->
                  Made(<<"part", p>>, Named(inputs[1], Number(p)))]
    BY <1>5 DEF Produced
  <2>2. Yields(made)
    BY <2>1, PartsAreGood
  <2> QED  BY <1>5, <2>2 DEF ManyToOne
<1>6. CASE slug \in {"watermark", "sign"}
  <2>1. \/ made = EachInput(OfExtension(inputs, Pdf), "stamped")
        \/ made = EachInput(OfExtension(inputs, Pdf), "signed")
    <3>1. made = IF slug = "watermark" THEN Stamped(inputs, o) ELSE Signed(inputs)
      BY <1>6 DEF Produced
    <3> QED  BY <3>1 DEF Stamped, Signed
  <2>2. PICK suffix \in {"stamped", "signed"} :
          made = EachInput(OfExtension(inputs, Pdf), suffix)
    BY <2>1
  <2>3. Word(suffix) \in NameParts
    BY WordsAreParts
  <2> QED  BY <2>2, <2>3, KeptDocumentsAreAnswered
<1>7. CASE slug = "pdf_to_word"
  <2>1. made = [i \in DOMAIN inputs |-> Made(<<"out", i>>, inputs[i].stem)]
    BY <1>7 DEF Produced
  <2>2. DOMAIN made = DOMAIN inputs /\ \A i \in DOMAIN inputs : made[i].name = inputs[i].stem
    BY <2>1 DEF Made
  <2> QED  BY <2>2, SameNamesAreGood
<1>8. CASE slug \notin {"merge", "compare", "word_to_pdf", "excel_to_pdf", "ppt_to_pdf",
                        "pdf_to_jpg", "pdf_to_png", "jpg_to_pdf", "png_to_pdf", "split",
                        "watermark", "sign", "pdf_to_word"}
  <2>1. made = EachInput(inputs, slug)
    BY <1>8 DEF Produced
  <2>2. Word(slug) \in NameParts
    BY WordsAreParts
  <2> QED  BY <2>1, <2>2, EachInputIsGood
<1> QED
  BY <1>1, <1>2, <1>3, <1>4, <1>5, <1>6, <1>7, <1>8 DEF PictureTools

\* What is known of a job.
JobIsSound(job) ==
  /\ job.stage = "queued" =>
       /\ job.tool \in DOMAIN Catalog /\ job.inputs \in Seq(Uploads) /\ Len(job.inputs) # 0
       /\ \A i \in DOMAIN job.inputs : job.inputs[i].ext \in Catalog[job.tool].takes
  /\ job.stage = "completed" =>
       /\ job.outputs \in Seq(Names)
       /\ job.tool \notin ManyToOne => InTurn(job.inputs, job.outputs)

LEMMA AcceptedIsSound ==
  ASSUME NEW slug \in DOMAIN Catalog, NEW o, NEW inputs \in BoundedSeq(Uploads, MaxInputs),
         inputs # <<>>, NEW caller, CreateJob(slug, o, inputs, caller)
  PROVE  JobIsSound(task')
<1>1. inputs \in Seq(Uploads) /\ Len(inputs) # 0 /\ Len(inputs) \in Nat
  BY DEF BoundedSeq, SeqOf
<1>2. PICK error : error = IF OptionsValid(slug, o) THEN InputError(slug, inputs, caller)
                           ELSE "options"
  OBVIOUS
<1>3. task' = IF error # NoError THEN [stage |-> "refused", why |-> error]
              ELSE [stage |-> "queued", tool |-> slug, options |-> o,
                    inputs |-> inputs, caller |-> caller]
  BY <1>2 DEF CreateJob
<1>4. CASE error # NoError
  BY <1>3, <1>4 DEF JobIsSound
<1>5. CASE error = NoError
  <2>1. InputError(slug, inputs, caller) = NoError
    BY <1>2, <1>5, ErrorsAreErrors
  <2>2. \A i \in DOMAIN inputs : FileError(slug, inputs[i], caller) = NoError
    BY <1>1, <2>1, AcceptedInputs
  <2>3. \A i \in DOMAIN inputs : inputs[i].ext \in Catalog[slug].takes
    BY <2>2, ErrorsAreErrors DEF FileError
  <2>4. task'.stage = "queued" /\ task'.tool = slug /\ task'.inputs = inputs
    BY <1>3, <1>5
  <2> QED  BY <1>1, <2>3, <2>4 DEF JobIsSound
<1> QED  BY <1>4, <1>5

LEMMA RunIsSound ==
  ASSUME JobIsSound(task), Run
  PROVE  JobIsSound(task')
<1>1. PICK made : made = Produced(task.tool, task.options, task.inputs)
  OBVIOUS
<1>2. \/ \E why : End("failed", why, <<>>)
      \/ made # <<>> /\ End("completed", NoError, NamesOf(made))
  BY <1>1 DEF Run, NamesOf
<1>3. CASE \E why : End("failed", why, <<>>)
  BY <1>3 DEF End, JobIsSound
<1>4. CASE made # <<>> /\ End("completed", NoError, NamesOf(made))
  <2>1. PICK slug, o, inputs : slug = task.tool /\ o = task.options /\ inputs = task.inputs
    OBVIOUS
  <2>2. /\ slug \in DOMAIN Catalog /\ inputs \in Seq(Uploads) /\ Len(inputs) # 0
        /\ \A i \in DOMAIN inputs : inputs[i].ext \in Catalog[slug].takes
    BY <2>1 DEF Run, JobIsSound
  <2>3. Yields(made) /\ (slug \notin ManyToOne => Answers(inputs, made))
    BY <1>1, <1>4, <2>1, <2>2, ProducedIsGood
  <2>4. PICK n \in Nat : DOMAIN made = 1..n /\ \A i \in 1..n : made[i].name \in Names
    BY <2>3 DEF Yields
  <2>5. NamesOf(made) \in Seq(Names)
    BY <2>4 DEF NamesOf
  <2>6. /\ task'.stage = "completed" /\ task'.outputs = NamesOf(made)
        /\ task'.tool = slug /\ task'.inputs = inputs
    BY <1>4, <2>1 DEF End
  <2> QED  BY <2>3, <2>5, <2>6 DEF JobIsSound, Answers
<1> QED  BY <1>2, <1>3, <1>4

LEMMA BundleIsGood ==
  ASSUME NEW names \in Seq(Names), bundle' = Bundle(names)
  PROVE  ArchiveKeepsAll'
BY ArchivedIsGood DEF Bundle, ArchiveKeepsAll

LEMMA BundlesAreGood ==
  ASSUME JobIsSound(task), ArchiveKeepsAll, [CatalogNext]_catalogVars
  PROVE  ArchiveKeepsAll'
<1>1. CASE UNCHANGED bundle
  BY <1>1 DEF ArchiveKeepsAll
<1>2. CASE JobArchive
  BY <1>2, BundleIsGood DEF JobArchive, JobIsSound
<1>3. ASSUME NEW files \in BoundedSeq(Uploads, MaxInputs), NEW caller, FilesArchive(files, caller)
      PROVE  ArchiveKeepsAll'
  <2>1. files \in Seq(Uploads)
    BY DEF BoundedSeq, SeqOf
  <2>2. PICK names : names = [i \in DOMAIN files |-> files[i].stem]
    OBVIOUS
  <2>3. \A i \in DOMAIN files : files[i].stem \in Names
    BY <2>1, StemsAreNames
  <2>4. PICK n \in Nat : DOMAIN files = 1..n
    BY <2>1
  <2>5. names \in Seq(Names)
    BY <2>2, <2>3, <2>4
  <2>6. bundle' = Bundle(names)
    BY <1>3, <2>2 DEF FilesArchive
  <2> QED  BY <2>5, <2>6, BundleIsGood
<1>4. CatalogNext => \/ UNCHANGED bundle \/ JobArchive
                     \/ \E files \in BoundedSeq(Uploads, MaxInputs), caller \in Callers :
                          FilesArchive(files, caller)
  BY DEF CatalogNext, CreateJob, Vanish, Run
<1> QED  BY <1>1, <1>2, <1>3, <1>4 DEF catalogVars

LEMMA JobsAreSound ==
  ASSUME JobIsSound(task), [CatalogNext]_catalogVars
  PROVE  JobIsSound(task')
<1>1. CASE UNCHANGED task
  BY <1>1
<1>2. ASSUME NEW slug \in DOMAIN Catalog, NEW o, NEW inputs \in BoundedSeq(Uploads, MaxInputs),
             inputs # <<>>, NEW caller, CreateJob(slug, o, inputs, caller)
      PROVE  JobIsSound(task')
  BY <1>2, AcceptedIsSound
<1>3. CASE Run
  BY <1>3, RunIsSound
<1>4. ASSUME NEW files, NEW caller, FilesArchive(files, caller)
      PROVE  JobIsSound(task')
  BY <1>4 DEF FilesArchive, JobIsSound
<1>5. (\E u \in Uploads : Vanish(u)) \/ JobArchive => UNCHANGED task
  BY DEF Vanish, JobArchive
<1> QED  BY <1>1, <1>2, <1>3, <1>4, <1>5 DEF CatalogNext, catalogVars

\* Whatever the inputs are named, each document a tool works on is answered by a
\* result that bears its name, in the order of the request, and the archive of the
\* results (services/download.py) has each of them under a name of its own.
THEOREM NoResultIsEverLost == CatalogSpec => []NoResultIsLost
<1> DEFINE Inv == JobIsSound(task) /\ ArchiveKeepsAll
<1>1. CatalogInit => Inv
  <2> SUFFICES ASSUME CatalogInit
               PROVE  Inv
    OBVIOUS
  <2>1. JobIsSound(task)
    BY DEF CatalogInit, Idle, JobIsSound
  <2>2. <<>> \in Seq(Names)
    OBVIOUS
  <2>3. bundle = Bundle(<<>>)
    BY DEF CatalogInit
  <2>4. ArchiveKeepsAll
    BY <2>2, <2>3, ArchivedIsGood DEF Bundle, ArchiveKeepsAll
  <2> QED  BY <2>1, <2>4
<1>2. Inv /\ [CatalogNext]_catalogVars => Inv'
  <2>1. JobIsSound(task)' <=> JobIsSound(task')
    BY DEF JobIsSound
  <2> QED  BY <2>1, JobsAreSound, BundlesAreGood
<1>3. Inv => NoResultIsLost
  <2> SUFFICES ASSUME Inv
               PROVE  NoResultIsLost
    OBVIOUS
  <2>1. ASSUME task.stage = "completed", task.tool \notin {"merge", "compare", "split"},
               NEW i \in DOMAIN task.inputs, NEW j \in DOMAIN task.inputs,
               i < j, {task.inputs[i].ext, task.inputs[j].ext} = Pdf
        PROVE  \E k, l \in DOMAIN task.outputs :
                 /\ k < l /\ IsPrefix(task.inputs[i].stem, task.outputs[k])
                 /\ IsPrefix(task.inputs[j].stem, task.outputs[l])
    BY <2>1 DEF JobIsSound, InTurn, ManyToOne
  <2>2. EveryDocumentAnswered
    BY <2>1 DEF EveryDocumentAnswered
  <2> QED  BY <2>2 DEF NoResultIsLost
<1> QED  BY <1>1, <1>2, <1>3, PTL DEF CatalogSpec

-----------------------------------------------------------------------------
(* Watermark removal.                                                       *)

SavedStates == [angle: 0..7, alpha: Alphas]
GraphicsStates == [angle: 0..7, alpha: Alphas, stack: Seq(SavedStates)]
RewriteStates == [graphics: GraphicsStates, skip: Nat, kept: Seq(Ops), removed: Nat, hits: Nat]
ViewStates == [graphics: GraphicsStates, skip: Nat, shown: Seq(Drawings)]
NestStates == [depth: Int, open: Seq(Int)]

LEMMA TrackType ==
  ASSUME NEW g \in GraphicsStates, NEW op \in Ops
  PROVE  Track(g, op) \in GraphicsStates
<1>1. g.angle \in 0..7 /\ g.alpha \in Alphas /\ g.stack \in Seq(SavedStates)
  BY DEF GraphicsStates
<1>2. CASE op.name = "q"
  <2>1. [angle |-> g.angle, alpha |-> g.alpha] \in SavedStates
    BY <1>1 DEF SavedStates
  <2>2. Append(g.stack, [angle |-> g.angle, alpha |-> g.alpha]) \in Seq(SavedStates)
    BY <1>1, <2>1
  <2> QED  BY <1>2, <2>2 DEF Track, GraphicsStates
<1>3. CASE op.name = "Q" /\ g.stack # <<>>
  <2>1. Last(g.stack) \in SavedStates /\ Front(g.stack) \in Seq(SavedStates)
    BY <1>1, <1>3 DEF Last, Front
  <2> QED  BY <1>3, <2>1 DEF Track, GraphicsStates, SavedStates
<1>4. CASE op.name = "cm"
  <2>1. (g.angle + 1) % 8 \in 0..7
    BY <1>1
  <2> QED  BY <1>4, <2>1 DEF Track, GraphicsStates
<1>5. CASE op.name = "gs"
  <2>1. op.alpha \in Alphas \cup {"none"}
    BY <1>5 DEF Ops
  <2>2. CASE op.alpha # "none"
    BY <1>5, <2>1, <2>2 DEF Track, GraphicsStates
  <2>3. CASE op.alpha = "none"
    BY <1>5, <2>3 DEF Track
  <2> QED  BY <2>2, <2>3
<1>6. CASE op.name = "text"
  <2>1. op.text.sets \in Alphas \cup {"none"}
    BY <1>6, WatermarkAssumption DEF Ops
  <2>2. CASE op.text.sets # "none"
    BY <1>6, <2>1, <2>2 DEF Track, GraphicsStates
  <2>3. CASE op.text.sets = "none"
    BY <1>6, <2>3 DEF Track
  <2> QED  BY <2>2, <2>3
<1>7. CASE ~(op.name \in {"q", "cm", "gs", "text"}) /\ ~(op.name = "Q" /\ g.stack # <<>>)
  BY <1>7 DEF Track
<1> QED  BY <1>2, <1>3, <1>4, <1>5, <1>6, <1>7

LEMMA FilterType ==
  ASSUME NEW plan, NEW r \in RewriteStates, NEW op \in Ops
  PROVE  Filter(plan, r, op) \in RewriteStates
<1>1. PICK g \in GraphicsStates : g = Track(r.graphics, op)
  BY TrackType DEF RewriteStates
<1>2. CASE r.skip > 0
  <2>1. Deeper(r.skip, op) \in Nat
    BY <1>2 DEF Deeper, RewriteStates
  <2> QED  BY <1>2, <2>1 DEF Filter, RewriteStates
<1>3. CASE ~(r.skip > 0) /\ Drops(plan, op, r.graphics)
  <2>1. /\ r.removed + 1 \in Nat /\ r.kept \in Seq(Ops)
        /\ r.hits + (IF IsUsersText(plan, op) THEN 1 ELSE 0) \in Nat
        /\ (IF op.name = "BDC" THEN 1 ELSE 0) \in Nat
    BY DEF RewriteStates
  <2>2. Filter(plan, r, op) = [r EXCEPT !.graphics = g, !.removed = @ + 1,
                                 !.skip = IF op.name = "BDC" THEN 1 ELSE 0,
                                 !.hits = @ + (IF IsUsersText(plan, op) THEN 1 ELSE 0)]
    BY <1>1, <1>3 DEF Filter
  <2> QED  BY <1>1, <2>1, <2>2 DEF RewriteStates
<1>4. CASE ~(r.skip > 0) /\ ~Drops(plan, op, r.graphics)
  <2>1. Append(r.kept, op) \in Seq(Ops)
    BY DEF RewriteStates
  <2> QED  BY <1>1, <1>4, <2>1 DEF Filter, RewriteStates
<1> QED  BY <1>2, <1>3, <1>4

LEMMA ViewType ==
  ASSUME NEW plan, NEW v \in ViewStates, NEW op \in Ops
  PROVE  View(plan, v, op) \in ViewStates
<1>1. PICK g \in GraphicsStates : g = Track(v.graphics, op)
  BY TrackType DEF ViewStates
<1>2. CASE v.skip > 0
  <2>1. PICK k \in Nat : k = v.skip + (CASE op.name = "BDC" -> 1 [] op.name = "EMC" -> -1
                                         [] OTHER -> 0)
    BY <1>2 DEF ViewStates
  <2>2. View(plan, v, op) = [v EXCEPT !.graphics = g, !.skip = k]
    BY <1>1, <1>2, <2>1 DEF View, ViewStates
  <2> QED  BY <1>1, <2>1, <2>2 DEF ViewStates
<1>3. CASE ~(v.skip > 0) /\ Marked(plan, op)
  <2>1. op.name = "BDC"
    BY <1>3 DEF Marked
  <2>2. View(plan, v, op) = [v EXCEPT !.graphics = g, !.skip = @ + 1]
    BY <1>1, <1>3, <2>1 DEF View
  <2>3. PICK k \in Nat : k = v.skip + 1
    BY DEF ViewStates
  <2>4. View(plan, v, op) = [v EXCEPT !.graphics = g, !.skip = k]
    BY <2>2, <2>3
  <2> QED  BY <2>4 DEF ViewStates
<1>4. CASE ~(v.skip > 0) /\ ~Marked(plan, op)
  <2>1. op.name \in Drawn => Drawing(op, v.graphics) \in Drawings
    BY DEF Drawing, Drawings, GraphicsStates, ViewStates
  <2>2. op.name \in Drawn => Append(v.shown, Drawing(op, v.graphics)) \in Seq(Drawings)
    BY <2>1 DEF ViewStates
  <2> QED  BY <1>1, <1>4, <2>2 DEF View, ViewStates
<1> QED  BY <1>2, <1>3, <1>4

LEMMA NestType ==
  ASSUME NEW n \in NestStates, NEW op \in Ops
  PROVE  Nest(n, op) \in NestStates
<1>1. n.depth \in Int /\ n.open \in Seq(Int)
  BY DEF NestStates
<1>2. Append(n.open, n.depth) \in Seq(Int)
  BY <1>1
<1>3. Front(n.open) \in Seq(Int)
  BY <1>1 DEF Front
<1>4. CASE op.name \in {"q", "Q"}
  BY <1>1, <1>4 DEF Nest, NestStates
<1>5. CASE op.name = "BDC"
  BY <1>1, <1>2, <1>5 DEF Nest, NestStates
<1>6. CASE op.name = "EMC"
  BY <1>1, <1>3, <1>6 DEF Nest, NestStates
<1>7. CASE op.name \notin {"q", "Q", "BDC", "EMC"}
  BY <1>7 DEF Nest
<1> QED  BY <1>4, <1>5, <1>6, <1>7

Outside == [depth |-> 0, open |-> <<>>]

LEMMA Beginnings ==
  /\ Fresh \in GraphicsStates /\ Unread \in RewriteStates
  /\ Unseen \in ViewStates /\ Outside \in NestStates
BY DEF Fresh, Unread, Unseen, Outside, NestStates, GraphicsStates, RewriteStates, ViewStates, Alphas

\* The interpreters one operation after another.
LEMMA RewrittenInTurn ==
  ASSUME NEW plan
  PROVE  /\ Rewritten(plan, <<>>) = Unread
         /\ \A s \in Seq(Ops), op \in Ops :
              /\ Rewritten(plan, s) \in RewriteStates
              /\ Rewritten(plan, Append(s, op)) = Filter(plan, Rewritten(plan, s), op)
<1> DEFINE V == RewriteStates
           G == [op \in Ops |-> [r \in V |-> Filter(plan, r, op)]]
           value == [s \in Seq(Ops) |-> Rewritten(plan, s)]
<1>1. G \in [Ops -> [V -> V]] /\ Unread \in V
  BY FilterType, Beginnings
<1>2. ASSUME NEW s \in Seq(Ops)
      PROVE  \E it : TakesTurns(it, V, Unread, G, s) /\ value[s] = it[DOMAIN s]
  <2> DEFINE Eq(it) == it = [t \in SUBSET DOMAIN s |->
                               IF t = {} THEN Unread ELSE Filter(plan, it[t \ {Max(t)}], s[Max(t)])]
  <2>1. PICK g \in [SUBSET DOMAIN s -> V] : TakesTurns(g, V, Unread, G, s)
    <3> HIDE DEF V, G
    <3> QED  BY <1>1, TurnsExist
  <2>2. \A t \in SUBSET DOMAIN s : t # {} => s[Max(t)] \in Ops
    BY MaxIsElement
  <2>3. Eq(g)
    <3> HIDE DEF V
    <3> QED  BY <2>1, <2>2 DEF TakesTurns
  <2>4. PICK it : it = CHOOSE i : Eq(i)
    OBVIOUS
  <2>5. Eq(it)
    <3> HIDE DEF Eq
    <3> QED  BY <2>3, <2>4
  <2>6. TakesTurns(it, V, Unread, G, s)
    <3> HIDE DEF V
    <3> QED  BY <2>2, <2>5 DEF TakesTurns
  <2>7. Rewritten(plan, s) = it[DOMAIN s]
    BY <2>4 DEF Rewritten, FoldLeft, MapThenFoldSet
  <2> HIDE DEF V, G
  <2> QED  BY <2>6, <2>7
<1>3. Accumulates(value, Ops, V, Unread, G)
  <2> HIDE DEF V, G, value
  <2> QED  BY <1>1, <1>2, TurnsAreSteps
<1>4. value[<<>>] = Rewritten(plan, <<>>)
  OBVIOUS
<1>5. ASSUME NEW s \in Seq(Ops), NEW op \in Ops
      PROVE  Rewritten(plan, s) \in V /\ Rewritten(plan, Append(s, op)) = Filter(plan, Rewritten(plan, s), op)
  <2>1. value[s] \in V /\ value[Append(s, op)] = G[op][value[s]]
    <3> HIDE DEF V, G, value
    <3> QED  BY <1>3 DEF Accumulates
  <2>2. value[s] = Rewritten(plan, s) /\ value[Append(s, op)] = Rewritten(plan, Append(s, op))
    BY AppendProperties
  <2> QED  BY <2>1, <2>2
<1> QED  BY <1>3, <1>4, <1>5 DEF Accumulates

LEMMA ViewedInTurn ==
  ASSUME NEW plan
  PROVE  /\ Viewed(plan, <<>>) = Unseen
         /\ \A s \in Seq(Ops), op \in Ops :
              /\ Viewed(plan, s) \in ViewStates
              /\ Viewed(plan, Append(s, op)) = View(plan, Viewed(plan, s), op)
<1> DEFINE V == ViewStates
           G == [op \in Ops |-> [v \in V |-> View(plan, v, op)]]
           value == [s \in Seq(Ops) |-> Viewed(plan, s)]
<1>1. G \in [Ops -> [V -> V]] /\ Unseen \in V
  BY ViewType, Beginnings
<1>2. ASSUME NEW s \in Seq(Ops)
      PROVE  \E it : TakesTurns(it, V, Unseen, G, s) /\ value[s] = it[DOMAIN s]
  <2> DEFINE Eq(it) == it = [t \in SUBSET DOMAIN s |->
                               IF t = {} THEN Unseen ELSE View(plan, it[t \ {Max(t)}], s[Max(t)])]
  <2>1. PICK g \in [SUBSET DOMAIN s -> V] : TakesTurns(g, V, Unseen, G, s)
    <3> HIDE DEF V, G
    <3> QED  BY <1>1, TurnsExist
  <2>2. \A t \in SUBSET DOMAIN s : t # {} => s[Max(t)] \in Ops
    BY MaxIsElement
  <2>3. Eq(g)
    <3> HIDE DEF V
    <3> QED  BY <2>1, <2>2 DEF TakesTurns
  <2>4. PICK it : it = CHOOSE i : Eq(i)
    OBVIOUS
  <2>5. Eq(it)
    <3> HIDE DEF Eq
    <3> QED  BY <2>3, <2>4
  <2>6. TakesTurns(it, V, Unseen, G, s)
    <3> HIDE DEF V
    <3> QED  BY <2>2, <2>5 DEF TakesTurns
  <2>7. Viewed(plan, s) = it[DOMAIN s]
    BY <2>4 DEF Viewed, FoldLeft, MapThenFoldSet
  <2> HIDE DEF V, G
  <2> QED  BY <2>6, <2>7
<1>3. Accumulates(value, Ops, V, Unseen, G)
  <2> HIDE DEF V, G, value
  <2> QED  BY <1>1, <1>2, TurnsAreSteps
<1>4. value[<<>>] = Viewed(plan, <<>>)
  OBVIOUS
<1>5. ASSUME NEW s \in Seq(Ops), NEW op \in Ops
      PROVE  Viewed(plan, s) \in V /\ Viewed(plan, Append(s, op)) = View(plan, Viewed(plan, s), op)
  <2>1. value[s] \in V /\ value[Append(s, op)] = G[op][value[s]]
    <3> HIDE DEF V, G, value
    <3> QED  BY <1>3 DEF Accumulates
  <2>2. value[s] = Viewed(plan, s) /\ value[Append(s, op)] = Viewed(plan, Append(s, op))
    BY AppendProperties
  <2> QED  BY <2>1, <2>2
<1> QED  BY <1>3, <1>4, <1>5 DEF Accumulates

LEMMA NestedInTurn ==
  /\ Nesting(<<>>) = Outside
  /\ \A s \in Seq(Ops), op \in Ops :
       /\ Nesting(s) \in NestStates
       /\ Nesting(Append(s, op)) = Nest(Nesting(s), op)
<1> DEFINE V == NestStates
           G == [op \in Ops |-> [n \in V |-> Nest(n, op)]]
           value == [s \in Seq(Ops) |-> Nesting(s)]
<1>1. G \in [Ops -> [V -> V]] /\ Outside \in V
  BY NestType, Beginnings
<1>2. ASSUME NEW s \in Seq(Ops)
      PROVE  \E it : TakesTurns(it, V, Outside, G, s) /\ value[s] = it[DOMAIN s]
  <2> DEFINE Eq(it) == it = [t \in SUBSET DOMAIN s |->
                               IF t = {} THEN Outside ELSE Nest(it[t \ {Max(t)}], s[Max(t)])]
  <2>1. PICK g \in [SUBSET DOMAIN s -> V] : TakesTurns(g, V, Outside, G, s)
    <3> HIDE DEF V, G
    <3> QED  BY <1>1, TurnsExist
  <2>2. \A t \in SUBSET DOMAIN s : t # {} => s[Max(t)] \in Ops
    BY MaxIsElement
  <2>3. Eq(g)
    <3> HIDE DEF V
    <3> QED  BY <2>1, <2>2 DEF TakesTurns
  <2>4. PICK it : it = CHOOSE i : Eq(i)
    OBVIOUS
  <2>5. Eq(it)
    <3> HIDE DEF Eq
    <3> QED  BY <2>3, <2>4
  <2>6. TakesTurns(it, V, Outside, G, s)
    <3> HIDE DEF V
    <3> QED  BY <2>2, <2>5 DEF TakesTurns
  <2>7. Nesting(s) = it[DOMAIN s]
    BY <2>4 DEF Nesting, Outside, FoldLeft, MapThenFoldSet
  <2> HIDE DEF V, G
  <2> QED  BY <2>6, <2>7
<1>3. Accumulates(value, Ops, V, Outside, G)
  <2> HIDE DEF V, G, value
  <2> QED  BY <1>1, <1>2, TurnsAreSteps
<1>4. value[<<>>] = Nesting(<<>>)
  OBVIOUS
<1>5. ASSUME NEW s \in Seq(Ops), NEW op \in Ops
      PROVE  Nesting(s) \in V /\ Nesting(Append(s, op)) = Nest(Nesting(s), op)
  <2>1. value[s] \in V /\ value[Append(s, op)] = G[op][value[s]]
    <3> HIDE DEF V, G, value
    <3> QED  BY <1>3 DEF Accumulates
  <2>2. value[s] = Nesting(s) /\ value[Append(s, op)] = Nesting(Append(s, op))
    BY AppendProperties
  <2> QED  BY <2>1, <2>2
<1> QED  BY <1>3, <1>4, <1>5 DEF Accumulates

OnlyAppends(S, set) ==
  /\ Only(<<>>, set) = <<>>
  /\ \A s \in Seq(S), x \in S :
       /\ Only(s, set) \in Seq(S)
       /\ Only(Append(s, x), set) = (IF x \in set THEN Append(Only(s, set), x) ELSE Only(s, set))

LEMMA OnlyInTurn ==
  ASSUME NEW S, NEW set
  PROVE  OnlyAppends(S, set)
<1> DEFINE V == Seq(S)
           G == [x \in S |-> [kept \in V |-> (IF x \in set THEN Append(kept, x) ELSE kept)]]
           value == [s \in Seq(S) |-> Only(s, set)]
<1>1. G \in [S -> [V -> V]] /\ <<>> \in V
  BY AppendProperties
<1>2. ASSUME NEW s \in Seq(S)
      PROVE  \E it : TakesTurns(it, V, <<>>, G, s) /\ value[s] = it[DOMAIN s]
  <2> DEFINE Eq(it) == it = [t \in SUBSET DOMAIN s |->
                               IF t = {} THEN <<>> ELSE (IF s[Max(t)] \in set THEN Append(it[t \ {Max(t)}], s[Max(t)]) ELSE it[t \ {Max(t)}])]
  <2>1. PICK g \in [SUBSET DOMAIN s -> V] : TakesTurns(g, V, <<>>, G, s)
    <3> HIDE DEF V, G
    <3> QED  BY <1>1, TurnsExist
  <2>2. \A t \in SUBSET DOMAIN s : t # {} => s[Max(t)] \in S
    BY MaxIsElement
  <2>3. Eq(g)
    <3> HIDE DEF V
    <3> QED  BY <2>1, <2>2 DEF TakesTurns
  <2>4. PICK it : it = CHOOSE i : Eq(i)
    OBVIOUS
  <2>5. Eq(it)
    <3> HIDE DEF Eq
    <3> QED  BY <2>3, <2>4
  <2>6. TakesTurns(it, V, <<>>, G, s)
    <3> HIDE DEF V
    <3> QED  BY <2>2, <2>5 DEF TakesTurns
  <2>7. Only(s, set) = it[DOMAIN s]
    BY <2>4 DEF Only, FoldLeft, MapThenFoldSet
  <2> HIDE DEF V, G
  <2> QED  BY <2>6, <2>7
<1>3. Accumulates(value, S, V, <<>>, G)
  <2> HIDE DEF V, G, value
  <2> QED  BY <1>1, <1>2, TurnsAreSteps
<1>4. value[<<>>] = Only(<<>>, set)
  OBVIOUS
<1>5. ASSUME NEW s \in Seq(S), NEW x \in S
      PROVE  Only(s, set) \in V /\ Only(Append(s, x), set) = (IF x \in set THEN Append(Only(s, set), x) ELSE Only(s, set))
  <2>1. value[s] \in V /\ value[Append(s, x)] = G[x][value[s]]
    <3> HIDE DEF V, G, value
    <3> QED  BY <1>3 DEF Accumulates
  <2>2. value[s] = Only(s, set) /\ value[Append(s, x)] = Only(Append(s, x), set)
    BY AppendProperties
  <2> QED  BY <2>1, <2>2
<1> QED  BY <1>3, <1>4, <1>5 DEF Accumulates, OnlyAppends

LEMMA OnlyNothing == \A set : Only(<<>>, set) = <<>>
<1>1. ASSUME NEW set, NEW S
      PROVE  Only(<<>>, set) = <<>>
  BY OnlyInTurn DEF OnlyAppends
<1> QED  BY <1>1

LEMMA OnlyNext ==
  ASSUME NEW S, NEW set, NEW s \in Seq(S), NEW x \in S
  PROVE  /\ Only(Append(s, x), set) = IF x \in set THEN Append(Only(s, set), x) ELSE Only(s, set)
         /\ Only(s, set) \in Seq(S)
<1>1. OnlyAppends(S, set)
  BY OnlyInTurn
<1> QED  BY <1>1 DEF OnlyAppends

\* What is picked out of a sequence.
LEMMA OnlyType ==
  ASSUME NEW S, NEW set, NEW s \in Seq(S)
  PROVE  Only(s, set) \in Seq(S)
<1>1. CASE s = <<>>
  BY <1>1, OnlyNothing
<1>2. CASE s # <<>>
  <2>1. PICK x \in S : TRUE
    BY <1>2
  <2> QED  BY <2>1, OnlyNext
<1> QED  BY <1>1, <1>2

LEMMA OnlyThose ==
  ASSUME NEW S, NEW set, NEW s \in Seq(S)
  PROVE  \A k \in DOMAIN Only(s, set) : Only(s, set)[k] \in set
<1> DEFINE T == {t \in Seq(S) : \A k \in DOMAIN Only(t, set) : Only(t, set)[k] \in set}
<1>1. <<>> \in T
  BY OnlyNothing
<1>2. ASSUME NEW t \in Seq(S), NEW x \in S, t \in T
      PROVE  Append(t, x) \in T
  <2>1. PICK o \in Seq(S) : o = Only(t, set)
    BY OnlyType
  <2>2. \A k \in DOMAIN o : o[k] \in set
    BY <1>2, <2>1
  <2>3. Only(Append(t, x), set) = IF x \in set THEN Append(o, x) ELSE o
    BY <2>1, OnlyNext
  <2>4. ASSUME x \in set
        PROVE  \A k \in DOMAIN Append(o, x) : Append(o, x)[k] \in set
    BY <2>2, <2>4
  <2>5. \A k \in DOMAIN Only(Append(t, x), set) : Only(Append(t, x), set)[k] \in set
    BY <2>2, <2>3, <2>4
  <2> QED  BY <2>5, AppendProperties
<1>3. Seq(S) \subseteq T
  <2> HIDE DEF T
  <2> QED  BY <1>1, <1>2, OneAfterAnother
<1> QED  BY <1>3

LEMMA OnlyTwice ==
  ASSUME NEW S, NEW A, NEW B, NEW s \in Seq(S), \A x \in S : x \in A => x \in B
  PROVE  Only(Only(s, B), A) = Only(s, A)
<1> DEFINE T == {t \in Seq(S) : Only(Only(t, B), A) = Only(t, A)}
<1>1. <<>> \in T
  <2>1. Only(<<>>, B) = <<>> /\ Only(<<>>, A) = <<>>
    BY OnlyNothing
  <2> QED  BY <2>1
<1>2. ASSUME NEW t \in Seq(S), NEW x \in S, t \in T
      PROVE  Append(t, x) \in T
  <2>1. PICK o \in Seq(S) : o = Only(t, B)
    BY OnlyType
  <2>2. Only(Append(t, x), B) = IF x \in B THEN Append(o, x) ELSE o
    BY <2>1, OnlyNext
  <2>3. Only(Append(t, x), A) = IF x \in A THEN Append(Only(t, A), x) ELSE Only(t, A)
    BY OnlyNext
  <2>4. Only(Append(o, x), A) = IF x \in A THEN Append(Only(o, A), x) ELSE Only(o, A)
    BY OnlyNext
  <2>5. Only(o, A) = Only(t, A)
    BY <1>2, <2>1
  <2>6. Only(Only(Append(t, x), B), A) = Only(Append(t, x), A)
    <3>1. CASE x \in B
      BY <2>2, <2>3, <2>4, <2>5, <3>1, Zenon
    <3>2. CASE x \notin B
      BY <2>2, <2>3, <2>5, <3>2, Zenon
    <3> QED  BY <3>1, <3>2
  <2> QED  BY <2>6, AppendProperties
<1>3. Seq(S) \subseteq T
  <2> HIDE DEF T
  <2> QED  BY <1>1, <1>2, OneAfterAnother
<1> QED  BY <1>3

\* Nothing is left out when the length is the same.
LEMMA OnlySome ==
  ASSUME NEW S, NEW set, NEW s \in Seq(S)
  PROVE  /\ Len(Only(s, set)) <= Len(s)
         /\ Len(Only(s, set)) = Len(s) => Only(s, set) = s
<1> DEFINE T == {t \in Seq(S) : /\ Len(Only(t, set)) <= Len(t)
                                /\ Len(Only(t, set)) = Len(t) => Only(t, set) = t}
<1>1. <<>> \in T
  BY OnlyNothing
<1>2. ASSUME NEW t \in Seq(S), NEW x \in S, t \in T
      PROVE  Append(t, x) \in T
  <2>1. PICK o \in Seq(S) : o = Only(t, set)
    BY OnlyType
  <2>2. Len(o) <= Len(t) /\ (Len(o) = Len(t) => o = t)
    BY <1>2, <2>1
  <2>3. PICK longer \in Seq(S) : longer = Append(t, x) /\ Len(longer) = Len(t) + 1
    BY AppendProperties
  <2>4. PICK p : p = Only(longer, set)
    OBVIOUS
  <2>5. p = IF x \in set THEN Append(o, x) ELSE o
    BY <2>1, <2>3, <2>4, OnlyNext
  <2>6. Len(Append(o, x)) = Len(o) + 1
    OBVIOUS
  <2>7. Len(p) <= Len(longer) /\ (Len(p) = Len(longer) => p = longer)
    BY <2>2, <2>3, <2>5, <2>6
  <2> QED  BY <2>3, <2>4, <2>7
<1>3. Seq(S) \subseteq T
  <2> HIDE DEF T
  <2> QED  BY <1>1, <1>2, OneAfterAnother
<1> QED  BY <1>3

-----------------------------------------------------------------------------
(* The second interpreter against the viewer, operation by operation: what a  *)
(* viewer shows of the rewritten stream (w) and of the source (v) when the    *)
(* interpreter is at r and the source is nested as n says.                    *)

Same(g, h) == g.angle = h.angle /\ g.alpha = h.alpha

\* Within a section that goes: it began with the state h that the interpreter
\* kept, and which the source comes back to at its end.
Within(h, g, skip, n) ==
  \E b \in Nat :
    /\ Len(n.open) = b + skip /\ n.open[b + 1] = Len(h.stack)
    /\ \A i \in b + 1..Len(n.open) : n.open[i] >= Len(h.stack)
    /\ Len(g.stack) >= Len(h.stack)
    /\ \A i \in 1..Len(h.stack) : g.stack[i] = h.stack[i]
    /\ Len(g.stack) = Len(h.stack) => Same(g, h)
    /\ Len(g.stack) # Len(h.stack) => Same(g.stack[Len(h.stack) + 1], h)

Balanced(g, n) == /\ n.depth = Len(g.stack)
                  /\ \A i \in DOMAIN n.open : n.open[i] \in Nat

LEMMA StaysBalanced ==
  ASSUME NEW g \in GraphicsStates, NEW n \in NestStates, NEW op \in Ops, Balanced(g, n), Legal(n, op)
  PROVE  Balanced(Track(g, op), Nest(n, op))
<1>1. /\ n.depth = Len(g.stack) /\ n.depth \in Nat /\ g.stack \in Seq(SavedStates)
      /\ n.open \in Seq(Int) /\ \A i \in DOMAIN n.open : n.open[i] \in Nat
  BY DEF Balanced, GraphicsStates, NestStates
<1>2. CASE op.name = "q"
  <2>1. Track(g, op).stack = Append(g.stack, [angle |-> g.angle, alpha |-> g.alpha])
    BY <1>2 DEF Track, GraphicsStates
  <2>2. Len(Track(g, op).stack) = Len(g.stack) + 1
    BY <1>1, <2>1
  <2>3. Nest(n, op).depth = n.depth + 1 /\ Nest(n, op).open = n.open
    BY <1>2 DEF Nest, NestStates
  <2> QED  BY <1>1, <2>2, <2>3 DEF Balanced
<1>3. CASE op.name = "Q"
  <2>1. n.depth > 0
    <3>1. n.open # <<>> => Last(n.open) \in Nat
      BY <1>1 DEF Last
    <3> QED  BY <1>1, <1>3, <3>1 DEF Legal
  <2>2. g.stack # <<>> /\ Track(g, op).stack = Front(g.stack)
    BY <1>1, <1>3, <2>1 DEF Track
  <2>3. Len(Front(g.stack)) = Len(g.stack) - 1
    BY <1>1, <2>2 DEF Front
  <2>4. Nest(n, op).depth = n.depth - 1 /\ Nest(n, op).open = n.open
    BY <1>3 DEF Nest, NestStates
  <2> QED  BY <1>1, <2>2, <2>3, <2>4 DEF Balanced
<1>4. CASE op.name \notin {"q", "Q"}
  <2>1. Track(g, op).stack = g.stack
    BY <1>4 DEF Track, GraphicsStates
  <2>2. Nest(n, op).depth = n.depth
    BY <1>4 DEF Nest, NestStates
  <2>3. \A i \in DOMAIN Nest(n, op).open : Nest(n, op).open[i] \in Nat
    <3>1. CASE op.name = "BDC"
      <4>1. Nest(n, op).open = Append(n.open, n.depth)
        BY <1>4, <3>1 DEF Nest, NestStates
      <4> QED  BY <1>1, <4>1
    <3>2. CASE op.name = "EMC"
      <4>1. Nest(n, op).open = Front(n.open)
        BY <1>4, <3>2 DEF Nest, NestStates
      <4>2. n.open # <<>>
        BY <3>2 DEF Legal
      <4>3. DOMAIN Front(n.open) = 1..Len(n.open) - 1 /\ \A i \in 1..Len(n.open) - 1 : Front(n.open)[i] = n.open[i]
        BY <1>1, <4>2 DEF Front
      <4> QED  BY <1>1, <4>1, <4>3
    <3>3. CASE op.name \notin {"BDC", "EMC"}
      BY <1>1, <1>4, <3>3 DEF Nest
    <3> QED  BY <3>1, <3>2, <3>3
  <2> QED  BY <1>1, <2>1, <2>2, <2>3 DEF Balanced
<1> QED  BY <1>2, <1>3, <1>4

\* Within a section that goes: each operation but the one that ends it.
LEMMA StaysWithin ==
  ASSUME NEW h \in GraphicsStates, NEW g \in GraphicsStates, NEW n \in NestStates, NEW op \in Ops,
         NEW skip \in Nat \ {0}, Within(h, g, skip, n), Balanced(g, n), Legal(n, op),
         op.name = "EMC" => skip # 1
  PROVE  Within(h, Track(g, op), Deeper(skip, op), Nest(n, op))
<1>1. PICK b \in Nat :
         /\ Len(n.open) = b + skip /\ n.open[b + 1] = Len(h.stack)
         /\ \A i \in b + 1..Len(n.open) : n.open[i] >= Len(h.stack)
         /\ Len(g.stack) >= Len(h.stack)
         /\ \A i \in 1..Len(h.stack) : g.stack[i] = h.stack[i]
         /\ Len(g.stack) = Len(h.stack) => Same(g, h)
         /\ Len(g.stack) # Len(h.stack) => Same(g.stack[Len(h.stack) + 1], h)
  BY DEF Within
<1>2. PICK low \in Nat : low = Len(h.stack)
  BY DEF GraphicsStates
<1>3. /\ g.stack \in Seq(SavedStates) /\ n.open \in Seq(Int)
      /\ n.depth = Len(g.stack) /\ n.depth \in Nat
  BY DEF GraphicsStates, NestStates, Balanced
<1>20. Len(g.stack) \in Nat /\ Len(g.stack) >= low
  BY <1>1, <1>2, <1>3
<1>4. PICK last \in 1..Len(n.open) : last = Len(n.open) /\ last = b + skip /\ n.open # <<>>
  <2>1. Len(n.open) \in Nat /\ b + skip \in Nat \ {0} /\ Len(n.open) = b + skip
    BY <1>1, <1>3
  <2>2. Len(n.open) \in 1..Len(n.open) /\ n.open # <<>>
    BY <1>3, <2>1
  <2> QED  BY <2>1, <2>2
<1>5. Last(n.open) >= low /\ Last(n.open) = n.open[last] /\ n.open[last] \in Int
  <2>1. last \in b + 1..Len(n.open)
    BY <1>4
  <2> QED  BY <1>1, <1>2, <1>3, <1>4, <2>1 DEF Last
<1>6. CASE op.name = "q"
  <2>1. PICK saved \in SavedStates : saved = [angle |-> g.angle, alpha |-> g.alpha]
    BY DEF SavedStates, GraphicsStates
  <2>2. /\ Track(g, op).stack = Append(g.stack, saved) /\ Same(saved, g)
        /\ Nest(n, op).open = n.open /\ Deeper(skip, op) = skip
    BY <1>6, <2>1 DEF Track, Nest, Deeper, GraphicsStates, NestStates, Same
  <2>3. PICK deep : deep = Append(g.stack, saved)
    OBVIOUS
  <2>4. /\ Len(deep) = Len(g.stack) + 1 /\ deep[Len(g.stack) + 1] = saved
        /\ \A i \in 1..Len(g.stack) : deep[i] = g.stack[i]
    BY <1>3, <2>3
  <2>5. Len(g.stack) = low => Same(deep[low + 1], h)
    BY <1>1, <1>2, <2>2, <2>4 DEF Same
  <2>6. Len(g.stack) # low => low + 1 \in 1..Len(g.stack)
    BY <1>20
  <2>7. Same(deep[low + 1], h)
    BY <1>1, <1>2, <2>4, <2>5, <2>6
  <2>8. Len(deep) > low /\ \A i \in 1..low : deep[i] = h.stack[i]
    <3>1. \A i \in 1..low : i \in 1..Len(g.stack)
      BY <1>1, <1>2, <1>3
    <3> QED  BY <1>1, <1>2, <1>3, <2>4, <3>1
  <2>9. PICK after, inner : after = Track(g, op) /\ inner = Nest(n, op)
    OBVIOUS
  <2>10. after.stack = deep /\ inner.open = n.open
    BY <2>2, <2>3, <2>9
  <2>11. /\ Len(inner.open) = b + skip /\ inner.open[b + 1] = Len(h.stack)
         /\ \A i \in b + 1..Len(inner.open) : inner.open[i] >= Len(h.stack)
    BY <1>1, <2>10
  <2>12. /\ Len(after.stack) >= Len(h.stack) /\ Len(after.stack) # Len(h.stack)
         /\ \A i \in 1..Len(h.stack) : after.stack[i] = h.stack[i]
         /\ Same(after.stack[Len(h.stack) + 1], h)
    <3>1. Len(deep) \in Nat
      BY <1>3, <2>4
    <3> QED  BY <1>2, <2>7, <2>8, <2>10, <3>1
  <2>13. Within(h, after, skip, inner)
    BY <2>11, <2>12 DEF Within
  <2> QED  BY <2>2, <2>9, <2>13
<1>7. CASE op.name = "Q"
  <2>1. Len(g.stack) > low
    BY <1>2, <1>3, <1>4, <1>5, <1>7 DEF Legal
  <2>2. PICK top \in SavedStates : top = Last(g.stack) /\ top = g.stack[Len(g.stack)]
    BY <1>3, <2>1 DEF Last
  <2>3. /\ Track(g, op).stack = Front(g.stack) /\ Same(Track(g, op), top)
        /\ Nest(n, op).open = n.open /\ Deeper(skip, op) = skip
    <3>1. g.stack # <<>>
      BY <1>3, <2>1
    <3> QED  BY <1>7, <2>2, <3>1 DEF Track, Nest, Deeper, NestStates, Same
  <2>4. PICK left : left = Front(g.stack)
    OBVIOUS
  <2>5. /\ Len(left) = Len(g.stack) - 1
        /\ \A i \in 1..Len(g.stack) - 1 : left[i] = g.stack[i]
    BY <1>3, <2>1, <2>4 DEF Front
  <2>6. Same(g.stack[low + 1], h)
    BY <1>1, <1>2, <2>1
  <2>7. Len(left) >= low /\ \A i \in 1..low : left[i] = h.stack[i]
    <3>1. \A i \in 1..low : i \in 1..Len(g.stack) - 1
      BY <1>20, <2>1
    <3> QED  BY <1>1, <1>2, <1>3, <2>1, <2>5, <3>1
  <2>8. Len(left) = low => Same(Track(g, op), h)
    <3>1. Len(left) = low => Len(g.stack) = low + 1
      BY <1>3, <2>5
    <3> QED  BY <2>2, <2>3, <2>6, <3>1 DEF Same
  <2>9. Len(left) # low => Same(left[low + 1], h)
    <3>1. ASSUME Len(left) # low
          PROVE  left[low + 1] = g.stack[low + 1]
      <4>1. low + 1 \in 1..Len(g.stack) - 1
        BY <1>20, <2>1, <2>5, <3>1
      <4> QED  BY <2>5, <4>1
    <3> QED  BY <2>6, <3>1
  <2>10. PICK after, inner : after = Track(g, op) /\ inner = Nest(n, op)
    OBVIOUS
  <2>11. after.stack = left /\ inner.open = n.open
    BY <2>3, <2>4, <2>10
  <2>12. /\ Len(inner.open) = b + skip /\ inner.open[b + 1] = Len(h.stack)
         /\ \A i \in b + 1..Len(inner.open) : inner.open[i] >= Len(h.stack)
    BY <1>1, <2>11
  <2>13. /\ Len(after.stack) >= Len(h.stack)
         /\ \A i \in 1..Len(h.stack) : after.stack[i] = h.stack[i]
         /\ Len(after.stack) = Len(h.stack) => Same(after, h)
         /\ Len(after.stack) # Len(h.stack) => Same(after.stack[Len(h.stack) + 1], h)
    BY <1>2, <2>7, <2>8, <2>9, <2>10, <2>11
  <2>14. Within(h, after, skip, inner)
    BY <2>12, <2>13 DEF Within
  <2> QED  BY <2>3, <2>10, <2>14
<1>8. CASE Sets(op)
  <2>1. Len(g.stack) > low
    BY <1>2, <1>3, <1>4, <1>5, <1>8 DEF Legal
  <2>2. /\ Track(g, op).stack = g.stack
        /\ Nest(n, op).open = n.open /\ Deeper(skip, op) = skip
    BY <1>8 DEF Sets, Track, Nest, Deeper, GraphicsStates
  <2>3. PICK after, inner : after = Track(g, op) /\ inner = Nest(n, op)
    OBVIOUS
  <2>4. after.stack = g.stack /\ inner.open = n.open
    BY <2>2, <2>3
  <2>5. /\ Len(inner.open) = b + skip /\ inner.open[b + 1] = Len(h.stack)
        /\ \A i \in b + 1..Len(inner.open) : inner.open[i] >= Len(h.stack)
    BY <1>1, <2>4
  <2>6. /\ Len(after.stack) >= Len(h.stack) /\ Len(after.stack) # Len(h.stack)
        /\ \A i \in 1..Len(h.stack) : after.stack[i] = h.stack[i]
        /\ Same(after.stack[Len(h.stack) + 1], h)
    BY <1>1, <1>2, <1>3, <2>1, <2>4
  <2>7. Within(h, after, skip, inner)
    BY <2>5, <2>6 DEF Within
  <2> QED  BY <2>2, <2>3, <2>7
<1>9. CASE op.name = "BDC"
  <2>1. /\ Track(g, op) = g /\ Deeper(skip, op) = skip + 1
        /\ Nest(n, op).open = Append(n.open, n.depth)
    BY <1>9 DEF Track, Nest, Deeper, NestStates
  <2>2. PICK longer : longer = Append(n.open, n.depth)
    OBVIOUS
  <2>3. /\ Len(longer) = last + 1 /\ longer[last + 1] = n.depth
        /\ \A i \in 1..last : longer[i] = n.open[i]
    <3>1. n.depth \in Int
      BY <1>3
    <3>2. /\ Len(longer) = Len(n.open) + 1 /\ longer[Len(n.open) + 1] = n.depth
          /\ \A i \in 1..Len(n.open) : longer[i] = n.open[i]
      BY <1>3, <2>2, <3>1, AppendProperties
    <3> QED  BY <1>4, <3>2, Zenon
  <2>4. b + 1 \in 1..last
    BY <1>4
  <2>5. \A i \in b + 1..last + 1 : longer[i] >= low
    <3>1. \A i \in b + 1..last + 1 : i = last + 1 \/ (i \in b + 1..Len(n.open) /\ i \in 1..last)
      BY <1>4
    <3> QED  BY <1>1, <1>2, <1>3, <2>3, <3>1
  <2>6. Len(longer) = b + (skip + 1)
    BY <1>4, <2>3
  <2>7. longer[b + 1] = low
    BY <1>1, <1>2, <2>3, <2>4
  <2> QED  BY <1>1, <1>2, <2>1, <2>2, <2>3, <2>5, <2>6, <2>7 DEF Within
<1>10. CASE op.name = "EMC"
  <2>1. /\ Track(g, op) = g /\ Deeper(skip, op) = skip - 1
        /\ Nest(n, op).open = Front(n.open)
    BY <1>10 DEF Track, Nest, Deeper, NestStates
  <2>2. PICK shorter : shorter = Front(n.open)
    OBVIOUS
  <2>3. /\ Len(shorter) = last - 1
        /\ \A i \in 1..last - 1 : shorter[i] = n.open[i]
    <3>1. Len(n.open) - 1 \in Nat /\ Len(n.open) - 1 <= Len(n.open)
      BY <1>3, <1>4
    <3>2. /\ Len(shorter) = Len(n.open) - 1
          /\ \A i \in 1..Len(n.open) - 1 : shorter[i] = n.open[i]
      BY <1>3, <2>2, <3>1 DEF Front
    <3> QED  BY <1>4, <3>2, Zenon
  <2>4. skip - 1 \in Nat \ {0} /\ b + 1 \in 1..last - 1 /\ Len(shorter) = b + (skip - 1)
    BY <1>4, <1>10, <2>3
  <2>5. \A i \in b + 1..last - 1 : shorter[i] >= low
    <3>1. \A i \in b + 1..last - 1 : i \in b + 1..Len(n.open) /\ i \in 1..last - 1
      BY <1>4
    <3> QED  BY <1>1, <1>2, <2>3, <3>1
  <2>6. shorter[b + 1] = low
    BY <1>1, <1>2, <2>3, <2>4
  <2> QED  BY <1>1, <1>2, <2>1, <2>2, <2>3, <2>4, <2>5, <2>6 DEF Within
<1>11. CASE op.name \notin {"q", "Q", "BDC", "EMC"} /\ ~Sets(op)
  <2>1. Track(g, op) = g /\ Nest(n, op) = n /\ Deeper(skip, op) = skip
    BY <1>11 DEF Sets, Track, Nest, Deeper
  <2> QED  BY <2>1
<1> QED  BY <1>6, <1>7, <1>8, <1>9, <1>10, <1>11

\* The end of the section is where it began.
LEMMA ComesBack ==
  ASSUME NEW h \in GraphicsStates, NEW g \in GraphicsStates, NEW n \in NestStates, NEW op \in Ops,
         Within(h, g, 1, n), Balanced(g, n), Legal(n, op), op.name = "EMC"
  PROVE  g = h
<1>1. PICK b \in Nat :
         /\ Len(n.open) = b + 1 /\ n.open[b + 1] = Len(h.stack)
         /\ \A i \in 1..Len(h.stack) : g.stack[i] = h.stack[i]
         /\ Len(g.stack) = Len(h.stack) => Same(g, h)
  BY DEF Within
<1>2. Last(n.open) = Len(h.stack) /\ n.depth = Last(n.open) /\ n.depth = Len(g.stack)
  BY <1>1 DEF Last, Legal, Balanced
<1>3. Len(g.stack) = Len(h.stack) /\ Same(g, h)
  BY <1>1, <1>2
<1>4. g.stack = h.stack
  <2>1. g.stack \in Seq(SavedStates) /\ h.stack \in Seq(SavedStates)
    BY DEF GraphicsStates
  <2> QED  BY <1>1, <1>3, <2>1, SeqEqual
<1> QED  BY <1>3, <1>4 DEF GraphicsStates, Same

\* An operation after redaction of these places.
LEMMA EraseIs ==
  ASSUME NEW places, NEW op \in Ops
  PROVE  /\ Erase(places, op) \in Ops
         /\ \A g : Track(g, Erase(places, op)) = Track(g, op)
         /\ \A plan : Marked(plan, Erase(places, op)) <=> Marked(plan, op)
         /\ Erase(places, op).name \in Drawn =>
              Erase(places, op) = op /\ ~(op.name = "text" /\ op.text.place \in places)
<1>1. CASE op.name = "text" /\ op.text.place \in places
  <2>1. PICK gs : gs = [name |-> "gs", alpha |-> op.text.sets] /\ gs = Erase(places, op)
    BY <1>1 DEF Erase
  <2>2. op.text.sets \in Alphas \cup {"none"}
    BY <1>1, WatermarkAssumption DEF Ops
  <2>3. gs \in Ops
    BY <2>1, <2>2 DEF Ops
  <2>4. \A g : Track(g, gs) = Track(g, op)
    BY <1>1, <2>1 DEF Track
  <2>5. \A plan : ~Marked(plan, gs) /\ ~Marked(plan, op)
    BY <1>1, <2>1 DEF Marked
  <2>6. gs.name \notin Drawn
    BY <2>1 DEF Drawn
  <2> QED  BY <2>1, <2>3, <2>4, <2>5, <2>6
<1>2. CASE ~(op.name = "text" /\ op.text.place \in places)
  <2>1. Erase(places, op) = op
    BY <1>2, Zenon DEF Erase
  <2> QED  BY <1>2, <2>1
<1> QED  BY <1>1, <1>2

LEMMA RedactedInTurn ==
  ASSUME NEW places
  PROVE  /\ Redacted(places, <<>>) = <<>>
         /\ \A s \in Seq(Ops) : Redacted(places, s) \in Seq(Ops)
         /\ \A s \in Seq(Ops), op \in Ops :
              Redacted(places, Append(s, op)) = Append(Redacted(places, s), Erase(places, op))
<1>1. Redacted(places, <<>>) = <<>>
  BY DEF Redacted
<1>2. ASSUME NEW s \in Seq(Ops)
      PROVE  /\ Redacted(places, s) \in Seq(Ops) /\ Len(Redacted(places, s)) = Len(s)
             /\ \A j \in 1..Len(s) : Redacted(places, s)[j] = Erase(places, s[j])
  <2>1. PICK m \in Nat : m = Len(s) /\ DOMAIN s = 1..m
    OBVIOUS
  <2>2. PICK t : t = [j \in 1..m |-> Erase(places, s[j])]
    OBVIOUS
  <2>3. \A j \in 1..m : Erase(places, s[j]) \in Ops
    BY <2>1, EraseIs
  <2>4. t \in Seq(Ops) /\ Len(t) = m /\ \A j \in 1..m : t[j] = Erase(places, s[j])
    BY <2>2, <2>3
  <2>5. Redacted(places, s) = t
    BY <2>1, <2>2 DEF Redacted
  <2> QED  BY <2>1, <2>4, <2>5
<1>3. ASSUME NEW s \in Seq(Ops), NEW op \in Ops
      PROVE  Redacted(places, Append(s, op)) = Append(Redacted(places, s), Erase(places, op))
  <2>1. PICK m \in Nat : m = Len(s)
    OBVIOUS
  <2>2. PICK t \in Seq(Ops), o \in Ops : t = Redacted(places, s) /\ o = Erase(places, op)
    BY <1>2, EraseIs
  <2>3. Len(t) = m /\ \A j \in 1..m : t[j] = Erase(places, s[j])
    BY <1>2, <2>1, <2>2
  <2>4. PICK longer \in Seq(Ops) : longer = Append(s, op)
    BY AppendProperties
  <2>5. Len(longer) = m + 1 /\ longer[m + 1] = op /\ \A j \in 1..m : longer[j] = s[j]
    BY <2>1, <2>4, AppendProperties
  <2>6. PICK x \in Seq(Ops) : x = Append(t, o)
    BY AppendProperties
  <2>7. Len(x) = m + 1 /\ x[m + 1] = o /\ \A j \in 1..m : x[j] = t[j]
    BY <2>3, <2>6, AppendProperties
  <2>8. PICK y \in Seq(Ops) : y = Redacted(places, longer)
    BY <1>2
  <2>9. Len(y) = m + 1 /\ \A j \in 1..m + 1 : y[j] = Erase(places, longer[j])
    BY <1>2, <2>5, <2>8
  <2>10. \A j \in 1..m + 1 : y[j] = x[j]
    <3>1. ASSUME NEW j \in 1..m
          PROVE  y[j] = x[j]
      BY <2>3, <2>5, <2>7, <2>9, <3>1
    <3>2. y[m + 1] = x[m + 1]
      BY <2>2, <2>5, <2>7, <2>9
    <3>3. \A j \in 1..m + 1 : j \in 1..m \/ j = m + 1
      OBVIOUS
    <3> QED  BY <3>1, <3>2, <3>3
  <2>11. y = x
    BY <2>7, <2>9, <2>10, SeqEqual
  <2> QED  BY <2>2, <2>4, <2>6, <2>8, <2>11
<1> QED  BY <1>1, <1>2, <1>3

LEMMA NothingRedacted ==
  ASSUME NEW s \in Seq(Ops)
  PROVE  Redacted({}, s) = s
<1>1. \A j \in DOMAIN s : Erase({}, s[j]) = s[j]
  BY DEF Erase
<1>2. Redacted({}, s) = [j \in DOMAIN s |-> s[j]]
  BY <1>1, Zenon DEF Redacted
<1>3. s = [j \in DOMAIN s |-> s[j]]
  OBVIOUS
<1> QED  BY <1>2, <1>3

\* Of a text that says a target the state it sets may go with it.
Astray(plan, op) == /\ op.name = "text" /\ op.text.sets # "none"
                    /\ Says(op.text.read, plan.needle) \/ op.text.read \in plan.texts

LEMMA StraysInTurn ==
  ASSUME NEW plan
  PROVE  /\ ~Strays(plan, <<>>)
         /\ \A s \in Seq(Ops), op \in Ops :
              Strays(plan, Append(s, op)) <=> Strays(plan, s) \/ Astray(plan, op)
<1>1. ~Strays(plan, <<>>)
  BY DEF Strays
<1>2. ASSUME NEW s \in Seq(Ops), NEW op \in Ops
      PROVE  Strays(plan, Append(s, op)) <=> Strays(plan, s) \/ Astray(plan, op)
  <2>1. PICK m \in Nat : m = Len(s)
    OBVIOUS
  <2>2. PICK longer \in Seq(Ops) : longer = Append(s, op)
    BY AppendProperties
  <2>3. /\ DOMAIN s = 1..m /\ DOMAIN longer = 1..m + 1
        /\ longer[m + 1] = op /\ \A j \in 1..m : longer[j] = s[j]
    BY <2>1, <2>2, AppendProperties
  <2>4. /\ \A j \in 1..m + 1 : j \in 1..m \/ j = m + 1
        /\ \A j \in 1..m : j \in 1..m + 1
        /\ m + 1 \in 1..m + 1
    OBVIOUS
  <2>5. PICK z : z = m + 1
    OBVIOUS
  <2>6. Strays(plan, longer) <=> \E j \in 1..z : Astray(plan, longer[j])
    BY <2>3, <2>5, Zenon DEF Strays, Astray
  <2>7. Strays(plan, s) <=> \E j \in 1..m : Astray(plan, s[j])
    BY <2>3, Zenon DEF Strays, Astray
  <2> QED  BY <2>2, <2>3, <2>4, <2>5, <2>6, <2>7, Zenon
<1> QED  BY <1>1, <1>2

\* The same but for the alpha.
SameTurn(g, h) == /\ g.angle = h.angle /\ Len(g.stack) = Len(h.stack)
                /\ \A i \in 1..Len(h.stack) : g.stack[i].angle = h.stack[i].angle

LEMMA StaysTurned ==
  ASSUME NEW g \in GraphicsStates, NEW h \in GraphicsStates, NEW op \in Ops, SameTurn(g, h)
  PROVE  SameTurn(Track(g, op), Track(h, op))
<1>1. /\ g.stack \in Seq(SavedStates) /\ h.stack \in Seq(SavedStates)
      /\ g.angle = h.angle
      /\ \A i \in 1..Len(h.stack) : g.stack[i].angle = h.stack[i].angle
  BY DEF GraphicsStates, SameTurn
<1>2. PICK m \in Nat : m = Len(h.stack) /\ m = Len(g.stack)
  BY <1>1 DEF SameTurn
<1>7. PICK p \in Seq(SavedStates), r \in Seq(SavedStates) : p = g.stack /\ r = h.stack
  BY <1>1
<1>8. Len(p) = m /\ Len(r) = m
  BY <1>2, <1>7, Zenon
<1>9. \A i \in 1..m : p[i].angle = r[i].angle
  BY <1>1, <1>2, <1>7, Zenon
<1>3. CASE op.name = "q"
  <2>1. PICK x \in SavedStates, y \in SavedStates :
          x = [angle |-> g.angle, alpha |-> g.alpha] /\ y = [angle |-> h.angle, alpha |-> h.alpha]
    BY DEF GraphicsStates, SavedStates
  <2>2. x.angle = y.angle
    BY <1>1, <2>1
  <2>7. Append(p, x) \in Seq(SavedStates) /\ Append(r, y) \in Seq(SavedStates)
    OBVIOUS
  <2>3. PICK a \in Seq(SavedStates), b \in Seq(SavedStates) : a = Append(p, x) /\ b = Append(r, y)
    BY <2>7
  <2>4. /\ Len(a) = m + 1 /\ Len(b) = m + 1 /\ a[m + 1] = x /\ b[m + 1] = y
        /\ \A i \in 1..m : a[i] = p[i] /\ b[i] = r[i]
    BY <1>8, <2>3
  <2>5. \A i \in 1..m + 1 : a[i].angle = b[i].angle
    <3>1. \A i \in 1..m + 1 : i \in 1..m \/ i = m + 1
      OBVIOUS
    <3> QED  BY <1>9, <2>2, <2>4, <3>1
  <2>6. /\ Track(g, op).stack = a /\ Track(h, op).stack = b
        /\ Track(g, op).angle = g.angle /\ Track(h, op).angle = h.angle
    BY <1>3, <1>7, <2>1, <2>3 DEF Track, GraphicsStates
  <2> QED  BY <1>1, <2>4, <2>5, <2>6 DEF SameTurn
<1>4. CASE op.name = "Q"
  <2>1. CASE m = 0
    <3>2. g.stack = <<>> /\ h.stack = <<>>
      <4>1. p = <<>> /\ r = <<>>
        BY <1>8, <2>1
      <4> QED  BY <1>7, <4>1
    <3>1. Track(g, op) = g /\ Track(h, op) = h
      BY <1>4, <3>2 DEF Track
    <3> QED  BY <3>1
  <2>2. CASE m # 0
    <3>7. m - 1 \in Nat /\ Front(p) \in Seq(SavedStates) /\ Front(r) \in Seq(SavedStates)
      BY <1>8, <2>2 DEF Front
    <3>1. PICK a \in Seq(SavedStates), b \in Seq(SavedStates) : a = Front(p) /\ b = Front(r)
      BY <3>7
    <3>2. /\ Len(a) = m - 1 /\ Len(b) = m - 1
          /\ \A i \in 1..m - 1 : a[i] = p[i] /\ b[i] = r[i]
      BY <1>8, <2>2, <3>1, <3>7 DEF Front
    <3>3. \A i \in 1..m - 1 : a[i].angle = b[i].angle
      <4>1. \A i \in 1..m - 1 : i \in 1..m
        OBVIOUS
      <4> QED  BY <1>9, <3>2, <4>1
    <3>8. p # <<>> /\ r # <<>>
      BY <1>8, <2>2
    <3>4. g.stack # <<>> /\ h.stack # <<>>
      BY <1>7, <3>8
    <3>5. /\ Track(g, op).stack = a /\ Track(h, op).stack = b
          /\ Track(g, op).angle = g.stack[m].angle /\ Track(h, op).angle = h.stack[m].angle
      BY <1>2, <1>4, <1>7, <3>1, <3>4 DEF Track, Last
    <3>6. g.stack[m].angle = h.stack[m].angle
      BY <1>7, <1>9, <2>2
    <3> QED  BY <3>2, <3>3, <3>5, <3>6 DEF SameTurn
  <2> QED  BY <2>1, <2>2
<1>5. CASE op.name = "cm"
  <2>1. /\ Track(g, op).stack = g.stack /\ Track(h, op).stack = h.stack
        /\ Track(g, op).angle = (g.angle + 1) % 8 /\ Track(h, op).angle = (h.angle + 1) % 8
    BY <1>5 DEF Track, GraphicsStates
  <2> QED  BY <1>1, <1>2, <2>1 DEF SameTurn
<1>6. CASE op.name \notin {"q", "Q", "cm"}
  <2>1. \A f \in GraphicsStates : Track(f, op).stack = f.stack /\ Track(f, op).angle = f.angle
    BY <1>6 DEF Track, GraphicsStates
  <2> QED  BY <1>1, <1>2, <2>1 DEF SameTurn
<1> QED  BY <1>3, <1>4, <1>5, <1>6

LEMMA OutlineNext ==
  ASSUME NEW a \in Seq(Drawings), NEW b \in Seq(Drawings), NEW x \in Drawings, NEW y \in Drawings,
         Outline(a) = Outline(b), x.op = y.op, x.angle = y.angle
  PROVE  Outline(Append(a, x)) = Outline(Append(b, y))
<1>1. \A s : DOMAIN Outline(s) = DOMAIN s
  BY DEF Outline
<1>2. PICK m \in Nat : m = Len(a) /\ DOMAIN a = 1..m /\ DOMAIN b = 1..m /\ m = Len(b)
  <2>1. DOMAIN a = DOMAIN b
    BY <1>1, Zenon
  <2> QED  BY <2>1
<1>3. \A i \in 1..m : a[i].op = b[i].op /\ a[i].angle = b[i].angle
  <2>1. \A i \in 1..m : /\ Outline(a)[i] = [op |-> a[i].op, angle |-> a[i].angle]
                        /\ Outline(b)[i] = [op |-> b[i].op, angle |-> b[i].angle]
    BY <1>2, Zenon DEF Outline
  <2>2. \A i \in 1..m : [op |-> a[i].op, angle |-> a[i].angle] = [op |-> b[i].op, angle |-> b[i].angle]
    BY <2>1
  <2> QED  BY <2>2
<1>4. PICK c \in Seq(Drawings), d \in Seq(Drawings) : c = Append(a, x) /\ d = Append(b, y)
  BY AppendProperties
<1>5. /\ DOMAIN c = 1..m + 1 /\ DOMAIN d = 1..m + 1 /\ c[m + 1] = x /\ d[m + 1] = y
      /\ \A i \in 1..m : c[i] = a[i] /\ d[i] = b[i]
  BY <1>2, <1>4, AppendProperties
<1>6. \A i \in 1..m + 1 : [op |-> c[i].op, angle |-> c[i].angle] = [op |-> d[i].op, angle |-> d[i].angle]
  <2>1. \A i \in 1..m + 1 : i \in 1..m \/ i = m + 1
    OBVIOUS
  <2> QED  BY <1>3, <1>5, <2>1
<1>7. Outline(c) = Outline(d)
  BY <1>5, <1>6 DEF Outline
<1> QED  BY <1>4, <1>7

\* Interpreter r of the source, viewer v of the source, and viewer w of what is
\* kept and redacted at these places; astray when a text that says a target may
\* have taken along the state it sets.
Agree(plan, places, astray, r, v, w, n) ==
  /\ Balanced(v.graphics, n)
  /\ v.skip = r.skip /\ w.skip = 0 /\ SameTurn(w.graphics, r.graphics)
  /\ Outline(w.shown) = Outline(Only(v.shown, Spared(plan, places)))
  /\ ~astray => w.graphics = r.graphics /\ w.shown = Only(v.shown, Spared(plan, places))
  /\ r.skip = 0 => v.graphics = r.graphics
  /\ r.skip > 0 => Within(r.graphics, v.graphics, r.skip, n)

LEMMA DroppedAreTargets ==
  ASSUME NEW plan, NEW places, NEW g \in GraphicsStates, NEW op \in Ops, op.name \in Drawn
  PROVE  /\ Drawing(op, g) \in Drawings /\ ~Marked(plan, op)
         /\ Drawing(op, g) \in Spared(plan, places) <=>
              ~Drops(plan, op, g) /\ ~(op.name = "text" /\ op.text.place \in places)
<1>1. op.name \in {"text", "image", "form"}
  BY DEF Drawn
<1>2. ~Marked(plan, op)
  BY <1>1 DEF Marked
<1>3. Drawing(op, g) \in Drawings
  BY DEF Drawing, Drawings, GraphicsStates
<1>4. IsTarget(plan, Drawing(op, g)) <=> Drops(plan, op, g)
  <2>1. CASE op.name = "text"
    BY <2>1 DEF IsTarget, Drawing, Drops, TextGoes, TextTraits
  <2>2. CASE op.name = "image"
    BY <2>2 DEF IsTarget, Drawing, Drops
  <2>3. CASE op.name = "form"
    BY <2>3 DEF IsTarget, Drawing, Drops
  <2> QED  BY <1>1, <2>1, <2>2, <2>3
<1>5. Drawing(op, g).op = op
  BY DEF Drawing
<1> QED  BY <1>2, <1>3, <1>4, <1>5, Zenon DEF Spared

\* A drawing that is dropped changes the state only when it is astray.
LEMMA DrawnTurns ==
  ASSUME NEW plan, NEW g \in GraphicsStates, NEW op \in Ops, op.name \in Drawn
  PROVE  /\ SameTurn(g, Track(g, op))
         /\ Drops(plan, op, g) /\ ~Astray(plan, op) => Track(g, op) = g
<1>1. op.name \in {"text", "image", "form"}
  BY DEF Drawn
<1>2. Track(g, op).angle = g.angle /\ Track(g, op).stack = g.stack
  BY <1>1 DEF Track, GraphicsStates
<1>3. SameTurn(g, Track(g, op))
  BY <1>2 DEF SameTurn
<1>4. ASSUME Drops(plan, op, g), ~Astray(plan, op)
      PROVE  Track(g, op) = g
  <2>1. CASE op.name = "text"
    <3>1. Says(op.text.read, plan.needle) \/ op.text.read \in plan.texts
      BY <1>4, <2>1 DEF Drops, TextGoes
    <3>2. op.text.sets = "none"
      BY <1>4, <2>1, <3>1 DEF Astray
    <3> QED  BY <2>1, <3>2 DEF Track
  <2>2. CASE op.name # "text"
    BY <1>1, <2>2 DEF Track
  <2> QED  BY <2>1, <2>2
<1> QED  BY <1>3, <1>4

LEMMA TurnsAddUp ==
  ASSUME NEW f, NEW g, NEW h, SameTurn(f, g), SameTurn(g, h)
  PROVE  SameTurn(f, h)
BY DEF SameTurn

Keeps(plan, r, op) == r.skip = 0 /\ ~Drops(plan, op, r.graphics)

FilterStep(plan, r, op, f) ==
  /\ r.skip > 0 =>
       /\ f.graphics = r.graphics /\ f.skip = Deeper(r.skip, op)
       /\ f.kept = r.kept /\ f.removed = r.removed
  /\ Keeps(plan, r, op) =>
       /\ f.graphics = Track(r.graphics, op) /\ f.skip = 0
       /\ f.kept = Append(r.kept, op) /\ f.removed = r.removed
  /\ r.skip = 0 /\ ~Keeps(plan, r, op) =>
       /\ f.graphics = Track(r.graphics, op) /\ f.skip = (IF op.name = "BDC" THEN 1 ELSE 0)
       /\ f.kept = r.kept /\ f.removed = r.removed + 1

LEMMA FilterIs ==
  ASSUME NEW plan, NEW r \in RewriteStates, NEW op \in Ops
  PROVE  FilterStep(plan, r, op, Filter(plan, r, op))
<1> DEFINE f == Filter(plan, r, op)
<1>1. CASE r.skip > 0
  <2>1. f = [r EXCEPT !.skip = Deeper(@, op)] /\ ~Keeps(plan, r, op)
    BY <1>1 DEF Filter, Keeps
  <2> QED  BY <1>1, <2>1 DEF RewriteStates, FilterStep
<1>2. CASE ~(r.skip > 0) /\ Keeps(plan, r, op)
  <2>1. f = [r EXCEPT !.graphics = Track(r.graphics, op), !.kept = Append(@, op)] /\ r.skip = 0
    BY <1>2 DEF Filter, Keeps
  <2> QED  BY <1>2, <2>1 DEF RewriteStates, FilterStep, Keeps
<1>3. CASE ~(r.skip > 0) /\ ~Keeps(plan, r, op)
  <2>1. r.skip \in Nat
    BY DEF RewriteStates
  <2>2. r.skip = 0 /\ Drops(plan, op, r.graphics)
    BY <1>3, <2>1 DEF Keeps
  <2>3. f = [r EXCEPT !.graphics = Track(r.graphics, op), !.removed = @ + 1,
                      !.skip = IF op.name = "BDC" THEN 1 ELSE 0,
                      !.hits = @ + (IF IsUsersText(plan, op) THEN 1 ELSE 0)]
    BY <2>2 DEF Filter
  <2> QED  BY <1>3, <2>3 DEF RewriteStates, FilterStep
<1> QED  BY <1>1, <1>2, <1>3

ViewStep(plan, v, op, x) ==
  /\ x.graphics = Track(v.graphics, op)
  /\ v.skip > 0 => x.skip = Deeper(v.skip, op) /\ x.shown = v.shown
  /\ v.skip = 0 /\ Marked(plan, op) => x.skip = 1 /\ x.shown = v.shown
  /\ v.skip = 0 /\ ~Marked(plan, op) =>
       /\ x.skip = 0
       /\ x.shown = (IF op.name \in Drawn THEN Append(v.shown, Drawing(op, v.graphics))
                     ELSE v.shown)

LEMMA ViewIs ==
  ASSUME NEW plan, NEW v \in ViewStates, NEW op \in Ops
  PROVE  ViewStep(plan, v, op, View(plan, v, op))
<1>1. v.skip \in Nat
  BY DEF ViewStates
<1>2. CASE v.skip > 0
  BY <1>1, <1>2 DEF View, ViewStates, Deeper, ViewStep
<1>3. CASE v.skip = 0 /\ Marked(plan, op)
  <2>1. op.name = "BDC"
    BY <1>3 DEF Marked
  <2> QED  BY <1>3, <2>1 DEF View, ViewStates, ViewStep
<1>4. CASE v.skip = 0 /\ ~Marked(plan, op)
  BY <1>4 DEF View, ViewStates, ViewStep
<1> QED  BY <1>1, <1>2, <1>3, <1>4

LEMMA StepAgrees ==
  ASSUME NEW plan, NEW places, NEW astray \in BOOLEAN, NEW r \in RewriteStates,
         NEW v \in ViewStates, NEW w \in ViewStates, NEW n \in NestStates, NEW op \in Ops,
         Agree(plan, places, astray, r, v, w, n), Legal(n, op)
  PROVE  Agree(plan, places, astray \/ Astray(plan, op), Filter(plan, r, op), View(plan, v, op),
               IF Keeps(plan, r, op) THEN View(plan, w, Erase(places, op)) ELSE w, Nest(n, op))
<1>1. PICK r2, v2, w2, n2 :
         /\ r2 = Filter(plan, r, op) /\ v2 = View(plan, v, op) /\ n2 = Nest(n, op)
         /\ w2 = IF Keeps(plan, r, op) THEN View(plan, w, Erase(places, op)) ELSE w
  OBVIOUS
<1>2. /\ r.skip \in Nat /\ r.graphics \in GraphicsStates
      /\ v.graphics \in GraphicsStates /\ v.shown \in Seq(Drawings)
      /\ w.graphics \in GraphicsStates /\ w.shown \in Seq(Drawings)
  BY DEF RewriteStates, ViewStates
<1>7. PICK left \in Ops : left = Erase(places, op)
  BY EraseIs
<1>6. /\ FilterStep(plan, r, op, r2) /\ ViewStep(plan, v, op, v2)
      /\ ViewStep(plan, w, left, View(plan, w, left))
  BY <1>1, FilterIs, ViewIs
<1>3. Balanced(v2.graphics, n2) /\ v2.graphics = Track(v.graphics, op)
  <2>1. v2.graphics = Track(v.graphics, op)
    BY <1>1, <1>6 DEF ViewStep
  <2>2. Balanced(Track(v.graphics, op), n2)
    BY <1>1, <1>2, StaysBalanced DEF Agree
  <2> QED  BY <2>1, <2>2
<1>8. PICK strayed \in BOOLEAN : strayed = (astray \/ Astray(plan, op))
  BY DEF Astray
<1> SUFFICES Agree(plan, places, strayed, r2, v2, w2, n2)
  BY <1>1, <1>8, Zenon
<1>4. CASE r.skip > 0
  <2>1. ~Keeps(plan, r, op)
    BY <1>4 DEF Keeps
  <2>2. r2.graphics = r.graphics /\ r2.skip = Deeper(r.skip, op) /\ w2 = w
    BY <1>1, <1>2, <1>4, <2>1, <1>6 DEF FilterStep
  <2>3. v2.skip = Deeper(r.skip, op) /\ v2.shown = v.shown
    BY <1>1, <1>4, <1>6 DEF ViewStep, Agree
  <2>4. Within(r.graphics, v.graphics, r.skip, n)
    BY <1>4 DEF Agree
  <2>7. /\ w2.skip = 0 /\ SameTurn(w2.graphics, r2.graphics)
        /\ Outline(w2.shown) = Outline(Only(v2.shown, Spared(plan, places)))
        /\ ~strayed => w2.graphics = r2.graphics /\ w2.shown = Only(v2.shown, Spared(plan, places))
    BY <1>8, <2>2, <2>3, Zenon DEF Agree
  <2>5. CASE op.name = "EMC" /\ r.skip = 1
    <3>1. v.graphics = r.graphics
      BY <1>2, <2>4, <2>5, ComesBack DEF Agree
    <3>2. Track(v.graphics, op) = v.graphics /\ Deeper(r.skip, op) = 0
      BY <2>5 DEF Track, Deeper
    <3> QED  BY <1>3, <2>2, <2>3, <2>7, <3>1, <3>2 DEF Agree
  <2>6. CASE ~(op.name = "EMC" /\ r.skip = 1)
    <3>1. r.skip \in Nat \ {0}
      BY <1>2, <1>4
    <3>2. Within(r.graphics, v2.graphics, r2.skip, n2)
      BY <1>1, <1>2, <1>3, <2>2, <2>4, <2>6, <3>1, StaysWithin DEF Agree
    <3>3. r2.skip # 0
      BY <2>2, <2>6, <3>1 DEF Deeper
    <3> QED  BY <1>3, <2>2, <2>3, <2>7, <3>2, <3>3 DEF Agree
  <2> QED  BY <2>5, <2>6
<1>5. CASE r.skip = 0
  <2>1. PICK g \in GraphicsStates : g = Track(r.graphics, op)
    BY <1>2, TrackType
  <2>2. /\ v.graphics = r.graphics /\ v.skip = 0 /\ w.skip = 0
        /\ SameTurn(w.graphics, r.graphics) /\ r2.graphics = g /\ v2.graphics = g
        /\ Outline(w.shown) = Outline(Only(v.shown, Spared(plan, places)))
        /\ ~strayed => w.graphics = r.graphics /\ w.shown = Only(v.shown, Spared(plan, places))
    <3>1. r2.graphics = g
      BY <1>1, <1>5, <2>1, <1>6 DEF FilterStep
    <3>2. v.graphics = r.graphics
      BY <1>5 DEF Agree
    <3>3. v2.graphics = g
      BY <1>3, <2>1, <3>2
    <3> QED  BY <1>5, <1>8, <3>1, <3>2, <3>3, Zenon DEF Agree
  <2>5. /\ SameTurn(Track(w.graphics, op), g) /\ Track(w.graphics, left) = Track(w.graphics, op)
        /\ Marked(plan, left) <=> Marked(plan, op)
        /\ ~strayed => Track(w.graphics, op) = g
    <3>1. SameTurn(Track(w.graphics, op), g)
      BY <1>2, <2>1, <2>2, StaysTurned
    <3>2. /\ Track(w.graphics, left) = Track(w.graphics, op)
          /\ Marked(plan, left) <=> Marked(plan, op)
      BY <1>7, EraseIs
    <3> QED  BY <2>1, <2>2, <3>1, <3>2
  <2>3. CASE op.name \in Drawn
    <3>1. PICK d \in Drawings : d = Drawing(op, r.graphics)
      BY <1>2, <2>3, DroppedAreTargets
    <3>2. /\ ~Marked(plan, op)
          /\ d \in Spared(plan, places) <=>
               ~Drops(plan, op, r.graphics) /\ ~(op.name = "text" /\ op.text.place \in places)
      BY <1>2, <2>3, <3>1, DroppedAreTargets
    <3>3. v2.skip = 0 /\ v2.shown = Append(v.shown, d)
      BY <2>2, <2>3, <3>1, <3>2, <1>6 DEF ViewStep
    <3>4. PICK due \in Seq(Drawings) : due = Only(v.shown, Spared(plan, places))
      BY <1>2, OnlyType
    <3>5. Only(v2.shown, Spared(plan, places)) = IF d \in Spared(plan, places) THEN Append(due, d) ELSE due
      <4>1. OnlyAppends(Drawings, Spared(plan, places))
        BY OnlyInTurn
      <4> QED  BY <1>2, <3>3, <3>4, <4>1 DEF OnlyAppends
    <3>6. op.name # "BDC"
      BY <2>3 DEF Drawn
    <3>7. CASE Drops(plan, op, r.graphics)
      <4>1. ~Keeps(plan, r, op)
        BY <3>7 DEF Keeps
      <4>2. w2 = w /\ r2.skip = 0
        BY <1>1, <1>5, <3>6, <4>1, <1>6 DEF FilterStep
      <4>3. SameTurn(r.graphics, g) /\ (~strayed => g = r.graphics)
        BY <1>2, <1>8, <2>1, <2>3, <3>7, DrawnTurns
      <4>4. SameTurn(w.graphics, g)
        BY <2>2, <4>3, TurnsAddUp
      <4>5. Only(v2.shown, Spared(plan, places)) = Only(v.shown, Spared(plan, places))
        BY <3>2, <3>4, <3>5, <3>7, Zenon
      <4>6. r2.graphics = g /\ v2.graphics = g /\ v2.skip = r2.skip /\ w2.skip = 0
        BY <2>2, <3>3, <4>2
      <4>7. ~strayed => w2.graphics = g /\ w2.shown = Only(v2.shown, Spared(plan, places))
        BY <2>2, <4>2, <4>3, <4>5
      <4> QED  BY <1>3, <2>2, <4>2, <4>4, <4>5, <4>6, <4>7 DEF Agree
    <3>8. CASE ~Drops(plan, op, r.graphics)
      <4>1. Keeps(plan, r, op)
        BY <1>5, <3>8 DEF Keeps
      <4>2. w2 = View(plan, w, left) /\ r2.skip = 0
        BY <1>1, <1>5, <1>7, <4>1, <1>6 DEF FilterStep
      <4>3. w2.skip = 0 /\ w2.graphics = Track(w.graphics, op) /\ ViewStep(plan, w, left, w2)
        BY <2>2, <2>5, <3>2, <4>2, <1>6 DEF ViewStep
      <4>4. CASE op.name = "text" /\ op.text.place \in places
        <5>1. left.name \notin Drawn
          BY <1>7, <4>4, EraseIs
        <5>2. w2.shown = w.shown
          BY <2>2, <2>5, <3>2, <4>3, <5>1 DEF ViewStep
        <5>3. Only(v2.shown, Spared(plan, places)) = Only(v.shown, Spared(plan, places))
          BY <3>2, <3>4, <3>5, <4>4, Zenon
        <5>4. ~strayed => w2.graphics = g /\ w2.shown = Only(v2.shown, Spared(plan, places))
          BY <2>2, <2>5, <4>3, <5>2, <5>3
        <5> QED  BY <1>3, <2>2, <2>5, <3>3, <4>2, <4>3, <5>2, <5>3, <5>4 DEF Agree
      <4>5. CASE ~(op.name = "text" /\ op.text.place \in places)
        <5>1. left = op
          BY <1>7, <4>5, Zenon DEF Erase
        <5>2. PICK e \in Drawings : e = Drawing(op, w.graphics)
          BY <1>2, <2>3, DroppedAreTargets
        <5>3. w2.shown = Append(w.shown, e)
          BY <2>2, <2>3, <3>2, <4>3, <5>1, <5>2 DEF ViewStep
        <5>4. e.op = d.op /\ e.angle = d.angle
          BY <2>2, <3>1, <5>2 DEF Drawing, SameTurn
        <5>5. Only(v2.shown, Spared(plan, places)) = Append(due, d)
          BY <3>2, <3>5, <3>8, <4>5, Zenon
        <5>6. Outline(Append(w.shown, e)) = Outline(Append(due, d))
          BY <1>2, <2>2, <3>4, <5>4, OutlineNext
        <5>7. ~strayed => e = d /\ w.shown = due
          BY <2>2, <3>1, <3>4, <5>2
        <5>8. ~strayed => w2.graphics = g /\ w2.shown = Only(v2.shown, Spared(plan, places))
          BY <2>5, <4>3, <5>3, <5>5, <5>7
        <5>9. Outline(w2.shown) = Outline(Only(v2.shown, Spared(plan, places)))
          BY <5>3, <5>5, <5>6
        <5> QED  BY <1>3, <2>2, <2>5, <3>3, <4>2, <4>3, <5>8, <5>9 DEF Agree
      <4> QED  BY <4>4, <4>5
    <3> QED  BY <3>7, <3>8
  <2>4. CASE op.name \notin Drawn
    <3>1. Drops(plan, op, r.graphics) <=> Marked(plan, op)
      BY <2>4 DEF Drops, Drawn
    <3>2. CASE Marked(plan, op)
      <4>1. op.name = "BDC" /\ ~Keeps(plan, r, op)
        BY <3>1, <3>2 DEF Marked, Keeps
      <4>2. g = r.graphics /\ n2 = [n EXCEPT !.open = Append(@, n.depth)]
        BY <1>1, <2>1, <4>1 DEF Track, Nest
      <4>3. w2 = w /\ r2.skip = 1 /\ v2.skip = 1 /\ v2.shown = v.shown
        BY <1>1, <1>5, <2>2, <3>2, <4>1, <1>6 DEF FilterStep, ViewStep
      <4>4. /\ n.open \in Seq(Int) /\ n.depth \in Int /\ Len(n.open) \in Nat
            /\ n2.open = Append(n.open, n.depth) /\ n.depth = Len(g.stack)
        BY <2>2, <4>2 DEF NestStates, Agree, Balanced
      <4>5. Len(n2.open) = Len(n.open) + 1 /\ n2.open[Len(n.open) + 1] = Len(g.stack)
        BY <4>4
      <4>6. \A i \in Len(n.open) + 1..Len(n2.open) : i = Len(n.open) + 1
        BY <4>4, <4>5
      <4>7. Within(g, g, 1, n2)
        <5>1. Len(g.stack) \in Nat
          BY <2>1 DEF GraphicsStates
        <5> QED  BY <4>4, <4>5, <4>6, <5>1 DEF Within, Same
      <4> QED  BY <1>3, <2>2, <4>2, <4>3, <4>7 DEF Agree
    <3>3. CASE ~Marked(plan, op)
      <4>1. Keeps(plan, r, op)
        BY <1>5, <3>1, <3>3 DEF Keeps
      <4>2. w2 = View(plan, w, left) /\ r2.skip = 0
        BY <1>1, <1>5, <1>7, <4>1, <1>6 DEF FilterStep
      <4>3. left = op
        <5>1. op.name # "text"
          BY <2>4 DEF Drawn
        <5> QED  BY <1>7, <5>1 DEF Erase
      <4>4. w2.skip = 0 /\ w2.graphics = Track(w.graphics, op) /\ w2.shown = w.shown
        BY <2>2, <2>4, <3>3, <4>2, <4>3, <1>6 DEF ViewStep
      <4>5. v2.skip = 0 /\ v2.shown = v.shown
        BY <2>2, <2>4, <3>3, <1>6 DEF ViewStep
      <4> QED  BY <1>3, <2>2, <2>5, <4>2, <4>4, <4>5 DEF Agree
    <3> QED  BY <3>2, <3>3
  <2> QED  BY <2>3, <2>4
<1> QED  BY <1>2, <1>4, <1>5

\* What comes before each element, when one more is appended.
OneLonger(s, x, longer) ==
  /\ \A k \in 1..Len(s) : /\ SubSeq(longer, 1, k - 1) = SubSeq(s, 1, k - 1)
                          /\ longer[k] = s[k]
  /\ longer[Len(s) + 1] = x /\ SubSeq(longer, 1, (Len(s) + 1) - 1) = s
  /\ \A k : k \in 1..Len(longer) <=> k \in 1..Len(s) \/ k = Len(s) + 1

LEMMA PrefixesOfAppend ==
  ASSUME NEW S, NEW s \in Seq(S), NEW x \in S
  PROVE  OneLonger(s, x, Append(s, x))
<1>1. PICK m \in Nat : m = Len(s)
  OBVIOUS
<1>2. PICK longer \in Seq(S) : longer = Append(s, x)
  BY AppendProperties
<1>3. /\ Len(longer) = m + 1 /\ longer[m + 1] = x
      /\ \A k \in 1..m : longer[k] = s[k]
  BY <1>1, <1>2, AppendProperties
<1>4. ASSUME NEW k \in 1..m + 1
      PROVE  SubSeq(longer, 1, k - 1) = SubSeq(s, 1, k - 1)
  <2>1. k - 1 <= Len(s) /\ k - 1 <= Len(longer) /\ \A i \in 1..k - 1 : i \in 1..m
    BY <1>1, <1>3
  <2>2. SubSeq(longer, 1, k - 1) \in Seq(S) /\ SubSeq(s, 1, k - 1) \in Seq(S)
    BY <2>1
  <2>3. Len(SubSeq(longer, 1, k - 1)) = Len(SubSeq(s, 1, k - 1))
    BY <2>1
  <2>4. \A i \in 1..Len(SubSeq(longer, 1, k - 1)) : SubSeq(longer, 1, k - 1)[i] = SubSeq(s, 1, k - 1)[i]
    BY <1>3, <2>1
  <2> QED  BY <2>2, <2>3, <2>4, SeqEqual
<1>5. SubSeq(s, 1, (m + 1) - 1) = s
  <2>1. (m + 1) - 1 = m
    OBVIOUS
  <2>2. SubSeq(s, 1, m) = s
    BY <1>1
  <2> QED  BY <2>1, <2>2
<1>6. \A k : k \in 1..m + 1 <=> k \in 1..m \/ k = m + 1
  OBVIOUS
<1>7. m + 1 \in 1..m + 1
  OBVIOUS
<1> QED  BY <1>1, <1>2, <1>3, <1>4, <1>5, <1>6, <1>7 DEF OneLonger

\* Every operation of a stream is legal where it stands.
Nested(ops) == \A k \in 1..Len(ops) : Legal(Nesting(SubSeq(ops, 1, k - 1)), ops[k])

LEMMA NestedPrefix ==
  ASSUME NEW s \in Seq(Ops), NEW op \in Ops
  PROVE  Nested(Append(s, op)) <=> Nested(s) /\ Legal(Nesting(s), op)
<1>1. PICK longer \in Seq(Ops) : longer = Append(s, op)
  BY AppendProperties
<1>2. /\ \A k \in 1..Len(s) : /\ SubSeq(longer, 1, k - 1) = SubSeq(s, 1, k - 1)
                              /\ longer[k] = s[k]
      /\ longer[Len(s) + 1] = op /\ SubSeq(longer, 1, (Len(s) + 1) - 1) = s
      /\ \A k : k \in 1..Len(longer) <=> k \in 1..Len(s) \/ k = Len(s) + 1
  <2>1. OneLonger(s, op, longer)
    BY <1>1, PrefixesOfAppend
  <2> QED  BY <2>1 DEF OneLonger
<1>3. PICK z : z = Len(s) + 1
  OBVIOUS
<1>4. Legal(Nesting(SubSeq(longer, 1, z - 1)), longer[z]) <=> Legal(Nesting(s), op)
  BY <1>2, <1>3, Zenon
<1>5. Nested(longer) <=> Nested(s) /\ Legal(Nesting(SubSeq(longer, 1, z - 1)), longer[z])
  BY <1>2, <1>3, Zenon DEF Nested
<1> QED  BY <1>1, <1>4, <1>5

LEMMA StreamsAgree ==
  ASSUME NEW plan, NEW places, NEW s \in Seq(Ops), Nested(s)
  PROVE  Agree(plan, places, Strays(plan, s), Rewritten(plan, s), Viewed(plan, s),
               Viewed(plan, Redacted(places, Rewritten(plan, s).kept)), Nesting(s))
<1> DEFINE T == {t \in Seq(Ops) : Nested(t) =>
                   Agree(plan, places, Strays(plan, t), Rewritten(plan, t), Viewed(plan, t),
                         Viewed(plan, Redacted(places, Rewritten(plan, t).kept)), Nesting(t))}
<1>1. <<>> \in T
  <2>1. /\ Rewritten(plan, <<>>) = Unread /\ Viewed(plan, <<>>) = Unseen /\ Nesting(<<>>) = Outside
        /\ Unread.kept = <<>> /\ Redacted(places, <<>>) = <<>>
    BY RewrittenInTurn, ViewedInTurn, NestedInTurn, RedactedInTurn DEF Unread
  <2>2. Only(<<>>, Spared(plan, places)) = <<>>
    BY OnlyNothing
  <2>3. Agree(plan, places, Strays(plan, <<>>), Unread, Unseen, Unseen, Outside)
    BY <2>2 DEF Agree, Balanced, SameTurn, Unread, Unseen, Outside, Fresh
  <2> QED  BY <2>1, <2>3
<1>2. ASSUME NEW t \in Seq(Ops), NEW op \in Ops, t \in T
      PROVE  Append(t, op) \in T
  <2>1. PICK longer \in Seq(Ops) : longer = Append(t, op)
    BY AppendProperties
  <2> SUFFICES ASSUME Nested(longer)
               PROVE  Agree(plan, places, Strays(plan, longer), Rewritten(plan, longer), Viewed(plan, longer),
                            Viewed(plan, Redacted(places, Rewritten(plan, longer).kept)), Nesting(longer))
    BY <2>1
  <2>2. Nested(t) /\ Legal(Nesting(t), op)
    BY <2>1, NestedPrefix
  <2>3. PICK r \in RewriteStates : r = Rewritten(plan, t) /\ Rewritten(plan, longer) = Filter(plan, r, op)
    BY <2>1, RewrittenInTurn
  <2>4. PICK v \in ViewStates : v = Viewed(plan, t) /\ Viewed(plan, longer) = View(plan, v, op)
    BY <2>1, ViewedInTurn
  <2>5. PICK n \in NestStates : n = Nesting(t) /\ Nesting(longer) = Nest(n, op)
    BY <2>1, NestedInTurn
  <2>6. r.kept \in Seq(Ops)
    BY DEF RewriteStates
  <2>12. PICK left \in Seq(Ops), last \in Ops : left = Redacted(places, r.kept) /\ last = Erase(places, op)
    BY <2>6, RedactedInTurn, EraseIs
  <2>7. PICK w \in ViewStates : /\ w = Viewed(plan, left)
                                /\ Viewed(plan, Append(left, last)) = View(plan, w, last)
    BY ViewedInTurn
  <2>13. PICK astray \in BOOLEAN : astray = Strays(plan, t)
    BY DEF Strays
  <2>14. Strays(plan, longer) = (astray \/ Astray(plan, op))
    <3>1. Strays(plan, longer) <=> Strays(plan, t) \/ Astray(plan, op)
      BY <2>1, StraysInTurn
    <3>2. Strays(plan, longer) \in BOOLEAN
      BY DEF Strays
    <3> QED  BY <2>13, <3>1, <3>2, Zenon
  <2>8. Agree(plan, places, astray, r, v, w, n)
    BY <1>2, <2>2, <2>3, <2>4, <2>5, <2>7, <2>12, <2>13, Zenon
  <2>9. Agree(plan, places, astray \/ Astray(plan, op), Filter(plan, r, op), View(plan, v, op),
              IF Keeps(plan, r, op) THEN View(plan, w, Erase(places, op)) ELSE w, Nest(n, op))
    BY <2>2, <2>5, <2>8, StepAgrees
  <2>10. Filter(plan, r, op).kept = IF Keeps(plan, r, op) THEN Append(r.kept, op) ELSE r.kept
    <3>1. FilterStep(plan, r, op, Filter(plan, r, op)) /\ r.skip \in Nat
      BY FilterIs DEF RewriteStates
    <3>2. CASE Keeps(plan, r, op)
      BY <3>1, <3>2 DEF FilterStep
    <3>3. CASE ~Keeps(plan, r, op)
      <4>1. Filter(plan, r, op).kept = r.kept
        BY <3>1, <3>3 DEF FilterStep
      <4> QED  BY <3>3, <4>1
    <3> QED  BY <3>2, <3>3
  <2>11. Viewed(plan, Redacted(places, Filter(plan, r, op).kept))
           = IF Keeps(plan, r, op) THEN View(plan, w, Erase(places, op)) ELSE w
    <3>1. Redacted(places, Append(r.kept, op)) = Append(left, last)
      BY <2>6, <2>12, RedactedInTurn
    <3> QED  BY <2>7, <2>10, <2>12, <3>1, Zenon
  <2> QED  BY <2>3, <2>4, <2>5, <2>9, <2>11, <2>14, Zenon
<1>3. Seq(Ops) \subseteq T
  <2> HIDE DEF T
  <2> QED  BY <1>1, <1>2, OneAfterAnother
<1> QED  BY <1>3

\* What the interpreter counts and what it leaves.
Tally(plan, s, r) ==
  /\ \A k \in DOMAIN r.kept : ~IsUsersText(plan, r.kept[k]) /\ \E j \in DOMAIN s : s[j] = r.kept[k]
  /\ r.removed = 0 => r.kept = s /\ r.skip = 0

LEMMA RewrittenTally ==
  ASSUME NEW plan, NEW s \in Seq(Ops)
  PROVE  Tally(plan, s, Rewritten(plan, s))
<1> DEFINE T == {t \in Seq(Ops) : Tally(plan, t, Rewritten(plan, t))}
<1>1. <<>> \in T
  <2>1. Rewritten(plan, <<>>) = Unread
    BY RewrittenInTurn
  <2> QED  BY <2>1 DEF Unread, Tally
<1>2. ASSUME NEW t \in Seq(Ops), NEW op \in Ops, t \in T
      PROVE  Append(t, op) \in T
  <2>1. PICK longer \in Seq(Ops) : longer = Append(t, op)
    BY AppendProperties
  <2>7. \A x : (\E j \in DOMAIN t : t[j] = x) \/ x = op => \E j \in DOMAIN longer : longer[j] = x
    <3>1. /\ \A j \in 1..Len(t) : longer[j] = t[j] /\ j \in DOMAIN longer
          /\ longer[Len(t) + 1] = op /\ Len(t) + 1 \in DOMAIN longer
      BY <2>1, AppendProperties
    <3>2. DOMAIN t = 1..Len(t)
      OBVIOUS
    <3> QED  BY <3>1, <3>2, Zenon
  <2>2. PICK r \in RewriteStates : r = Rewritten(plan, t) /\ Rewritten(plan, longer) = Filter(plan, r, op)
    BY <2>1, RewrittenInTurn
  <2>3. PICK f : f = Filter(plan, r, op)
    OBVIOUS
  <2>4. FilterStep(plan, r, op, f)
    BY <2>3, FilterIs
  <2>5. r.skip \in Nat /\ r.removed \in Nat /\ r.kept \in Seq(Ops) /\ Tally(plan, t, r)
    BY <1>2, <2>2 DEF RewriteStates
  <2>8. \A k \in DOMAIN r.kept : ~IsUsersText(plan, r.kept[k]) /\ \E j \in DOMAIN longer : longer[j] = r.kept[k]
    BY <2>5, <2>7, Zenon DEF Tally
  <2>6. Tally(plan, longer, f)
    <3>1. CASE r.skip > 0
      BY <2>4, <2>5, <2>8, <3>1 DEF FilterStep, Tally
    <3>2. CASE Keeps(plan, r, op)
      <4>1. f.kept = Append(r.kept, op) /\ f.removed = r.removed /\ f.skip = 0
        BY <2>4, <3>2 DEF FilterStep
      <4>2. ~IsUsersText(plan, op)
        <5>1. ASSUME IsUsersText(plan, op)
              PROVE  Drops(plan, op, r.graphics)
          BY <5>1 DEF IsUsersText, Drops, TextGoes
        <5> QED  BY <3>2, <5>1 DEF Keeps
      <4>3. \A k \in DOMAIN f.kept : ~IsUsersText(plan, f.kept[k]) /\ \E j \in DOMAIN longer : longer[j] = f.kept[k]
        <5>1. \A k \in DOMAIN Append(r.kept, op) : \/ k \in DOMAIN r.kept /\ Append(r.kept, op)[k] = r.kept[k]
                                                   \/ Append(r.kept, op)[k] = op
          BY <2>5
        <5>2. \E j \in DOMAIN longer : longer[j] = op
          BY <2>7
        <5> QED  BY <2>8, <4>1, <4>2, <5>1, <5>2, Zenon
      <4>4. f.removed = 0 => f.kept = longer /\ f.skip = 0
        BY <2>1, <2>5, <4>1 DEF Tally
      <4> QED  BY <4>3, <4>4, Zenon DEF Tally
    <3>3. CASE r.skip = 0 /\ ~Keeps(plan, r, op)
      <4>1. f.kept = r.kept /\ f.removed = r.removed + 1
        BY <2>4, <3>3 DEF FilterStep
      <4>2. f.removed # 0
        BY <2>5, <4>1
      <4> QED  BY <2>8, <4>1, <4>2, Zenon DEF Tally
    <3> QED  BY <2>5, <3>1, <3>2, <3>3
  <2> QED  BY <2>1, <2>2, <2>3, <2>6
<1>3. Seq(Ops) \subseteq T
  <2> HIDE DEF T
  <2> QED  BY <1>1, <1>2, OneAfterAnother
<1> QED  BY <1>3

\* No draw of this is within marked content that goes.
Bare(plan, s, draw) ==
  \A k \in 1..Len(s) : s[k] = draw => Viewed(plan, SubSeq(s, 1, k - 1)).skip = 0

LEMMA BarePrefix ==
  ASSUME NEW plan, NEW draw, NEW s \in Seq(Ops), NEW op \in Ops
  PROVE  Bare(plan, Append(s, op), draw) <=> Bare(plan, s, draw) /\ (op = draw => Viewed(plan, s).skip = 0)
<1>1. PICK longer \in Seq(Ops) : longer = Append(s, op)
  BY AppendProperties
<1>2. /\ \A k \in 1..Len(s) : /\ SubSeq(longer, 1, k - 1) = SubSeq(s, 1, k - 1)
                              /\ longer[k] = s[k]
      /\ longer[Len(s) + 1] = op /\ SubSeq(longer, 1, (Len(s) + 1) - 1) = s
      /\ \A k : k \in 1..Len(longer) <=> k \in 1..Len(s) \/ k = Len(s) + 1
  <2>1. OneLonger(s, op, longer)
    BY <1>1, PrefixesOfAppend
  <2> QED  BY <2>1 DEF OneLonger
<1>3. PICK z : z = Len(s) + 1
  OBVIOUS
<1> DEFINE Clear(x, k) == x[k] = draw => Viewed(plan, SubSeq(x, 1, k - 1)).skip = 0
<1>4. Clear(longer, z) <=> (op = draw => Viewed(plan, s).skip = 0)
  BY <1>2, <1>3, Zenon
<1>5. Bare(plan, longer, draw) <=> Bare(plan, s, draw) /\ Clear(longer, z)
  <2>1. \A k \in 1..Len(s) : Clear(longer, k) <=> Clear(s, k)
    BY <1>2, Zenon
  <2>2. Bare(plan, longer, draw) <=> \A k \in 1..Len(longer) : Clear(longer, k)
    BY DEF Bare
  <2>3. Bare(plan, s, draw) <=> \A k \in 1..Len(s) : Clear(s, k)
    BY DEF Bare
  <2> HIDE DEF Clear
  <2> QED  BY <1>2, <1>3, <2>1, <2>2, <2>3, Zenon
<1> QED  BY <1>1, <1>4, <1>5

\* Every draw of an image is there after redaction of these places.
ImageStays(plan, places, s, draw) ==
  Only(Redacted(places, Rewritten(plan, s).kept), {draw}) = Only(s, {draw})

LEMMA BareImagesStay ==
  ASSUME NEW plan, NEW places, NEW s \in Seq(Ops), NEW draw \in Ops, draw.name = "image",
         ~Drops(plan, draw, Fresh), Nested(s), Bare(plan, s, draw)
  PROVE  ImageStays(plan, places, s, draw)
<1> DEFINE T == {t \in Seq(Ops) : Nested(t) /\ Bare(plan, t, draw) =>
                   Only(Redacted(places, Rewritten(plan, t).kept), {draw}) = Only(t, {draw})}
<1>1. <<>> \in T
  <2>1. Rewritten(plan, <<>>) = Unread /\ Unread.kept = <<>> /\ Redacted(places, <<>>) = <<>>
    BY RewrittenInTurn, RedactedInTurn DEF Unread
  <2> QED  BY <2>1
<1>2. ASSUME NEW t \in Seq(Ops), NEW op \in Ops, t \in T
      PROVE  Append(t, op) \in T
  <2>1. PICK longer \in Seq(Ops) : longer = Append(t, op)
    BY AppendProperties
  <2> SUFFICES ASSUME Nested(longer), Bare(plan, longer, draw)
               PROVE  Only(Redacted(places, Rewritten(plan, longer).kept), {draw}) = Only(longer, {draw})
    BY <2>1
  <2>2. Nested(t) /\ Bare(plan, t, draw) /\ (op = draw => Viewed(plan, t).skip = 0)
    BY <2>1, NestedPrefix, BarePrefix
  <2>3. PICK r \in RewriteStates : r = Rewritten(plan, t) /\ Rewritten(plan, longer) = Filter(plan, r, op)
    BY <2>1, RewrittenInTurn
  <2>4. PICK f : f = Filter(plan, r, op) /\ FilterStep(plan, r, op, f)
    BY FilterIs
  <2>5. r.skip \in Nat /\ r.kept \in Seq(Ops) /\ r.skip = Viewed(plan, t).skip
    <3>1. Agree(plan, places, Strays(plan, t), r, Viewed(plan, t), Viewed(plan, Redacted(places, r.kept)), Nesting(t))
      BY <2>2, <2>3, StreamsAgree
    <3> QED  BY <3>1 DEF Agree, RewriteStates
  <2>10. PICK left \in Seq(Ops), last \in Ops :
           left = Redacted(places, r.kept) /\ last = Erase(places, op)
    BY <2>5, RedactedInTurn, EraseIs
  <2>11. Redacted(places, Append(r.kept, op)) = Append(left, last)
    BY <2>5, <2>10, RedactedInTurn
  <2>6. Only(left, {draw}) = Only(t, {draw})
    BY <1>2, <2>2, <2>3, <2>10
  <2>7. OnlyAppends(Ops, {draw})
    BY OnlyInTurn
  <2>8. CASE op = draw
    <3>1. Keeps(plan, r, op)
      BY <2>2, <2>5, <2>8 DEF Keeps, Drops
    <3>2. f.kept = Append(r.kept, op) /\ last = op
      BY <2>4, <2>8, <2>10, <3>1 DEF FilterStep, Erase
    <3>3. Only(Append(left, last), {draw}) = Append(Only(left, {draw}), op)
      BY <2>7, <2>8, <3>2 DEF OnlyAppends
    <3>4. Only(longer, {draw}) = Append(Only(t, {draw}), op)
      BY <2>1, <2>7, <2>8 DEF OnlyAppends
    <3> QED  BY <2>3, <2>4, <2>6, <2>11, <3>2, <3>3, <3>4, Zenon
  <2>9. CASE op # draw
    <3>1. f.kept = r.kept \/ f.kept = Append(r.kept, op)
      BY <2>4, <2>5 DEF FilterStep
    <3>2. Only(Redacted(places, f.kept), {draw}) = Only(left, {draw})
      <4>1. last # draw
        <5>1. last = op \/ last.name = "gs"
          BY <2>10 DEF Erase
        <5> QED  BY <2>9, <5>1
      <4>2. Only(Append(left, last), {draw}) = Only(left, {draw})
        BY <2>7, <4>1 DEF OnlyAppends
      <4> QED  BY <2>10, <2>11, <3>1, <4>2, Zenon
    <3>3. Only(longer, {draw}) = Only(t, {draw})
      BY <2>1, <2>7, <2>9 DEF OnlyAppends
    <3> QED  BY <2>3, <2>4, <2>6, <3>2, <3>3, Zenon
  <2> QED  BY <2>8, <2>9
<1>3. Seq(Ops) \subseteq T
  <2> HIDE DEF T
  <2> QED  BY <1>1, <1>2, OneAfterAnother
<1> QED  BY <1>3 DEF ImageStays

LEMMA ViewedType ==
  ASSUME NEW plan, NEW s \in Seq(Ops)
  PROVE  /\ Viewed(plan, s).skip \in Nat /\ Shown(plan, s) \in Seq(Drawings)
         /\ Rewritten(plan, s).kept \in Seq(Ops) /\ Rewritten(plan, s).removed \in Nat
<1>1. PICK op \in Ops : TRUE
  <2>1. [name |-> "q"] \in Ops
    BY DEF Ops
  <2> QED  BY <2>1
<1>2. Viewed(plan, s) \in ViewStates /\ Rewritten(plan, s) \in RewriteStates
  BY <1>1, ViewedInTurn, RewrittenInTurn
<1> QED  BY <1>2 DEF ViewStates, RewriteStates, Shown

\* A page that is rewritten, and redacted at these places, shows what the source
\* shows, without the targets and those places.
LEMMA ShownSaved ==
  ASSUME NEW plan, NEW places, NEW s \in Seq(Ops), Nested(s), NEW shown,
         shown = Shown(plan, Redacted(places, Rewritten(plan, s).kept))
  PROVE  /\ Outline(shown) = Outline(Only(Shown(plan, s), Spared(plan, places)))
         /\ ~Strays(plan, s) =>
              /\ shown = Only(Shown(plan, s), Spared(plan, places))
              /\ Only(shown, Headings(plan, places)) = Only(Shown(plan, s), Headings(plan, places))
<1>1. Agree(plan, places, Strays(plan, s), Rewritten(plan, s), Viewed(plan, s),
            Viewed(plan, Redacted(places, Rewritten(plan, s).kept)), Nesting(s))
  BY StreamsAgree
<1>2. Shown(plan, s) \in Seq(Drawings)
  BY ViewedType
<1>3. \A d \in Drawings : d \in Headings(plan, places) => d \in Spared(plan, places)
  BY DEF Headings, Spared, IsTarget
<1>4. Only(Only(Shown(plan, s), Spared(plan, places)), Headings(plan, places))
        = Only(Shown(plan, s), Headings(plan, places))
  BY <1>2, <1>3, OnlyTwice
<1> QED  BY <1>1, <1>4 DEF Agree, Shown

\* What PyMuPDF redacts of a page, and the page as it is saved.
PlacesOf(plan, hits, s) ==
  IF hits = 0 THEN {Rewritten(plan, s).kept[j].text.place : j \in Matches(Rewritten(plan, s).kept, plan.needle)}
  ELSE {}

Saved(plan, hits, s) == Redacted(PlacesOf(plan, hits, s), Rewritten(plan, s).kept)

LEMMA PlacesAreMatched ==
  ASSUME NEW plan, NEW hits, NEW s \in Seq(Ops), NEW place \in PlacesOf(plan, hits, s)
  PROVE  \E j \in Matches(s, plan.needle) : s[j].text.place = place
<1>1. PICK kept \in Seq(Ops) : kept = Rewritten(plan, s).kept
  BY ViewedType
<1>2. PICK k \in Matches(kept, plan.needle) : kept[k].text.place = place
  BY <1>1, Zenon DEF PlacesOf
<1>3. k \in DOMAIN kept /\ kept[k].name = "text" /\ kept[k].text.found /\ Says(kept[k].text.word, plan.needle)
  BY <1>2 DEF Matches
<1>4. PICK j \in DOMAIN s : s[j] = kept[k]
  BY <1>1, <1>3, RewrittenTally DEF Tally
<1>5. j \in Matches(s, plan.needle)
  BY <1>3, <1>4 DEF Matches
<1> QED  BY <1>2, <1>4, <1>5

\* With nothing to be found nothing is redacted.
LEMMA NothingFound ==
  ASSUME NEW plan, NEW hits, NEW s \in Seq(Ops),
         hits = 0 => Matches(Rewritten(plan, s).kept, plan.needle) = {}
  PROVE  PlacesOf(plan, hits, s) = {} /\ Saved(plan, hits, s) = Rewritten(plan, s).kept
<1>1. PlacesOf(plan, hits, s) = {}
  BY DEF PlacesOf
<1>2. Rewritten(plan, s).kept \in Seq(Ops)
  BY ViewedType
<1> QED  BY <1>1, <1>2, NothingRedacted DEF Saved

LEMMA UsersTextGoes ==
  ASSUME NEW plan, NEW hits, NEW s \in Seq(Ops)
  PROVE  /\ \A k \in DOMAIN Saved(plan, hits, s) :
              Saved(plan, hits, s)[k].name = "text" => ~Says(Saved(plan, hits, s)[k].text.read, plan.needle)
         /\ hits = 0 => Matches(Saved(plan, hits, s), plan.needle) = {}
<1>1. PICK kept \in Seq(Ops) : kept = Rewritten(plan, s).kept
  BY ViewedType
<1>2. \A k \in DOMAIN kept : ~IsUsersText(plan, kept[k])
  BY <1>1, RewrittenTally DEF Tally
<1>3. PICK places : places = PlacesOf(plan, hits, s)
  OBVIOUS
<1>4. PICK left : left = Redacted(places, kept) /\ left = Saved(plan, hits, s)
  BY <1>1, <1>3 DEF Saved
<1>5. DOMAIN left = DOMAIN kept /\ \A k \in DOMAIN kept : left[k] = Erase(places, kept[k])
  BY <1>4 DEF Redacted
<1>6. ASSUME NEW k \in DOMAIN left, left[k].name = "text"
      PROVE  left[k] = kept[k] /\ k \in DOMAIN kept /\ left[k].text.place \notin places
  BY <1>5, <1>6 DEF Erase
<1>7. \A k \in DOMAIN left : left[k].name = "text" => ~Says(left[k].text.read, plan.needle)
  BY <1>2, <1>6 DEF IsUsersText
<1>8. ASSUME hits = 0, NEW k \in Matches(left, plan.needle)
      PROVE  FALSE
  <2>1. k \in DOMAIN left /\ left[k].name = "text"
    BY DEF Matches
  <2>2. left[k] = kept[k] /\ k \in DOMAIN kept
    BY <1>6, <2>1
  <2>3. k \in Matches(kept, plan.needle)
    BY <1>8, <2>2 DEF Matches
  <2>4. kept[k].text.place \in places
    BY <1>1, <1>3, <1>8, <2>3 DEF PlacesOf
  <2> QED  BY <1>6, <2>1, <2>2, <2>4
<1>9. hits = 0 => Matches(left, plan.needle) = {}
  BY <1>8
<1> QED  BY <1>4, <1>7, <1>9, Zenon

\* A sum of nothing but zeros.
LEMMA NothingSummed ==
  ASSUME NEW S, IsFiniteSet(S), NEW f \in [S -> Nat], SumFunctionOnSet(f, S) = 0
  PROVE  \A x \in S : f[x] = 0
<1> SUFFICES ASSUME NEW x \in S
             PROVE  f[x] = 0
  OBVIOUS
<1>1. SumFunctionOnSet(f, S) = f[x] + SumFunctionOnSet(f, S \ {x})
  BY SumOneLess
<1>2. SumFunctionOnSet(f, S \ {x}) \in Nat
  <2>1. PICK r : r = S \ {x}
    OBVIOUS
  <2>2. PICK g \in [r -> Nat] : g = [y \in r |-> f[y]]
    BY <2>1
  <2>3. IsFiniteSet(r) /\ \A y \in r : f[y] \in Nat /\ g[y] = f[y]
    BY <2>1, <2>2, FS_RemoveElement
  <2>4. SumFunctionOnSet(g, r) = SumFunctionOnSet(f, r)
    BY <2>3, SumOfSame
  <2> QED  BY <2>1, <2>2, <2>3, <2>4, SumIsNatural
<1> QED  BY <1>1, <1>2

StraightScan(o) == FullPage(o) /\ ~o.traits.diagonal /\ ~o.traits.clear

\* The source, and what the first interpreter notes of it.
SourceIs ==
  /\ pages \in Seq(Seq(Ops)) /\ Len(pages) # 0
  /\ \A k \in DOMAIN pages : Nested(pages[k])

NotedIs ==
  /\ \A o \in seen : /\ o.page \in DOMAIN pages /\ o.at \in DOMAIN pages[o.page]
                     /\ o.kind = pages[o.page][o.at].name
                     /\ o.kind = "image" => o.what = pages[o.page][o.at].image.image
  /\ \A k \in DOMAIN pages : \A j \in DOMAIN pages[k] : pages[k][j].name = "image" =>
       \E o \in seen : o.kind = "image" /\ o.page = k /\ o.at = j /\ o.what = pages[k][j].image.image

\* What is taken for a watermark has been seen to be one.
TargetsAre == \A i \in targets.images : \E o \in seen : o.kind = "image" /\ o.what = i /\ ~StraightScan(o)

RewriteIs ==
  stage = "rewrite" =>
    /\ output \in Seq(Seq(Ops)) /\ Len(output) <= Len(pages)
    /\ \A k \in DOMAIN output : output[k] = Rewritten(RewritePlan, pages[k]).kept
    /\ removed \in Nat /\ (removed = 0 => formKept /\ \A k \in DOMAIN output : output[k] = pages[k])
    /\ Says(FormWord, request.text) => \A k \in DOMAIN output : HasForm(pages[k]) => ~formKept

SavedIs ==
  stage \in {"done", "failed"} =>
    /\ marks = [k \in DOMAIN pages |-> PlacesOf(RewritePlan, userHits, pages[k])]
    /\ output = [k \in DOMAIN pages |-> Saved(RewritePlan, userHits, pages[k])]
    /\ Says(FormWord, request.text) => \A k \in DOMAIN output : HasForm(pages[k]) => ~formKept

StagesAre ==
  /\ request \in Requests
  /\ stage \in {"read", "rewrite", "done", "failed"}
  /\ stage = "read" => output = <<>> /\ removed = 0 /\ formKept = TRUE /\ targets.images = {}

WatermarkInv ==
  SourceIs /\ NotedIs /\ TargetsAre /\ RewriteIs /\ SavedIs /\ CountIsHonest /\ StagesAre

LEMMA RemovalStarts == WatermarkInit => WatermarkInv
<1> SUFFICES ASSUME WatermarkInit
             PROVE  WatermarkInv
  OBVIOUS
<1>1. /\ pages = <<<<>>>> /\ seen = {} /\ targets = [texts |-> {}, images |-> {}]
      /\ output = <<>> /\ formKept = TRUE /\ removed = 0 /\ stage = "read"
  BY DEF WatermarkInit
<1>2. SourceIs
  <2>1. Nested(<<>>)
    BY DEF Nested
  <2>2. pages \in Seq(Seq(Ops)) /\ Len(pages) = 1 /\ pages[1] = <<>>
    BY <1>1
  <2>3. DOMAIN pages = 1..1
    BY <2>2
  <2>4. \A k \in DOMAIN pages : pages[k] = <<>>
    BY <2>2, <2>3
  <2> QED  BY <2>1, <2>2, <2>4 DEF SourceIs
<1>3. NotedIs
  BY <1>1 DEF NotedIs
<1>4. request \in Requests
  BY DEF WatermarkInit, Requests, Modes
<1> QED  BY <1>1, <1>2, <1>3, <1>4
         DEF WatermarkInv, TargetsAre, RewriteIs, SavedIs, CountIsHonest, StagesAre

LEMMA NotedDrawings ==
  ASSUME NEW op \in Ops, NEW g, NEW page, NEW at
  PROVE  /\ \A o \in Noted(op, g, page, at) :
              /\ o.page = page /\ o.at = at /\ o.kind = op.name
              /\ o.kind = "image" => o.what = op.image.image
         /\ op.name = "image" => \E o \in Noted(op, g, page, at) :
              o.kind = "image" /\ o.page = page /\ o.at = at /\ o.what = op.image.image
<1>1. CASE op.name = "text"
  BY <1>1 DEF Noted
<1>2. CASE op.name = "image"
  <2>1. PICK d : d = [kind |-> "image", what |-> op.image.image, page |-> page, at |-> at,
                      traits |-> ImageTraits(op.image, g)]
    OBVIOUS
  <2>2. d.kind = "image" /\ d.what = op.image.image /\ d.page = page /\ d.at = at
    BY <2>1
  <2>3. Noted(op, g, page, at) = {d}
    BY <1>2, <2>1 DEF Noted
  <2>4. d \in Noted(op, g, page, at) /\ \A o \in Noted(op, g, page, at) : o = d
    BY <2>3
  <2> QED  BY <1>2, <2>2, <2>4, Zenon
<1>3. CASE op.name = "form"
  BY <1>3 DEF Noted
<1>4. CASE op.name \notin {"text", "image", "form"}
  BY <1>4 DEF Noted
<1> QED  BY <1>1, <1>2, <1>3, <1>4

LEMMA ReadKeeps ==
  ASSUME WatermarkInv, NEW op \in Ops, Read(op)
  PROVE  WatermarkInv'
<1> USE DEF WatermarkInv
<1>1. PICK page \in DOMAIN pages : page = Len(pages)
  <2>1. SourceIs
    OBVIOUS
  <2>2. Len(pages) \in Nat \ {0} /\ DOMAIN pages = 1..Len(pages)
    BY <2>1 DEF SourceIs
  <2> QED  BY <2>2
<1>2. PICK old \in Seq(Ops) : old = pages[page]
  <2>1. SourceIs
    OBVIOUS
  <2> QED  BY <2>1, <1>1 DEF SourceIs
<1>3. PICK new \in Seq(Ops) : new = Append(old, op)
  BY AppendProperties
<1>4. /\ stage = "read" /\ Legal(Nesting(old), op)
      /\ pages' = [pages EXCEPT ![page] = new]
      /\ seen' = seen \cup Noted(op, graphics, page, Len(old) + 1)
      /\ UNCHANGED <<request, targets, output, formKept, marks, removed, userHits, stage>>
  BY <1>1, <1>2, <1>3, Zenon DEF Read
<1>5. /\ DOMAIN pages' = DOMAIN pages /\ Len(pages') = Len(pages) /\ pages'[page] = new
      /\ \A k \in DOMAIN pages : k # page => pages'[k] = pages[k]
      /\ pages' \in Seq(Seq(Ops))
  BY <1>1, <1>4 DEF SourceIs
<1>6. /\ DOMAIN old = 1..Len(old) /\ Len(old) \in Nat
      /\ DOMAIN new = 1..Len(old) + 1 /\ new[Len(old) + 1] = op
      /\ \A j \in DOMAIN old : new[j] = old[j] /\ j \in DOMAIN new
      /\ Len(old) + 1 \in DOMAIN new
      /\ \A j \in DOMAIN new : j \in DOMAIN old \/ j = Len(old) + 1
  BY <1>3, AppendProperties
<1>7. SourceIs'
  <2>1. Nested(old)
    BY <1>2 DEF SourceIs
  <2>2. Nested(new)
    BY <1>3, <1>4, <2>1, NestedPrefix
  <2>3. \A k \in DOMAIN pages' : Nested(pages'[k])
    BY <1>5, <2>2 DEF SourceIs
  <2> QED  BY <1>5, <2>3 DEF SourceIs
<1>8. NotedIs'
  <2>1. NotedIs
    OBVIOUS
  <2>2. ASSUME NEW o \in seen
        PROVE  /\ o.page \in DOMAIN pages' /\ o.at \in DOMAIN pages'[o.page]
               /\ pages'[o.page][o.at] = pages[o.page][o.at]
    <3>1. o.page \in DOMAIN pages /\ o.at \in DOMAIN pages[o.page]
      BY <2>1 DEF NotedIs
    <3>2. CASE o.page = page
      <4>1. pages'[o.page] = new /\ pages[o.page] = old
        BY <1>2, <1>5, <3>2
      <4> QED  BY <1>5, <1>6, <3>1, <4>1
    <3>3. CASE o.page # page
      <4>1. pages'[o.page] = pages[o.page]
        BY <1>5, <3>1, <3>3
      <4> QED  BY <1>5, <3>1, <4>1
    <3> QED  BY <3>2, <3>3
  <2>3. \A o \in seen : /\ o.kind = pages[o.page][o.at].name
                        /\ o.kind = "image" => o.what = pages[o.page][o.at].image.image
    BY <2>1 DEF NotedIs
  <2>4. \A o \in Noted(op, graphics, page, Len(old) + 1) :
           /\ o.page = page /\ o.at = Len(old) + 1 /\ o.kind = op.name
           /\ o.kind = "image" => o.what = op.image.image
    BY NotedDrawings
  <2>5. \A o \in seen' : /\ o.page \in DOMAIN pages' /\ o.at \in DOMAIN pages'[o.page]
                         /\ o.kind = pages'[o.page][o.at].name
                         /\ o.kind = "image" => o.what = pages'[o.page][o.at].image.image
    <3>1. ASSUME NEW o \in seen
          PROVE  /\ o.page \in DOMAIN pages' /\ o.at \in DOMAIN pages'[o.page]
                 /\ o.kind = pages'[o.page][o.at].name
                 /\ o.kind = "image" => o.what = pages'[o.page][o.at].image.image
      BY <2>2, <2>3
    <3>2. ASSUME NEW o \in Noted(op, graphics, page, Len(old) + 1)
          PROVE  /\ o.page \in DOMAIN pages' /\ o.at \in DOMAIN pages'[o.page]
                 /\ o.kind = pages'[o.page][o.at].name
                 /\ o.kind = "image" => o.what = pages'[o.page][o.at].image.image
      <4>1. /\ o.page = page /\ o.at = Len(old) + 1 /\ o.kind = op.name
            /\ o.kind = "image" => o.what = op.image.image
        BY <2>4
      <4>2. pages'[o.page] = new /\ pages'[o.page][o.at] = op /\ o.at \in DOMAIN new
        BY <1>5, <1>6, <4>1
      <4> QED  BY <1>5, <4>1, <4>2
    <3>3. seen' = seen \cup Noted(op, graphics, page, Len(old) + 1)
      BY <1>4
    <3> QED  BY <3>1, <3>2, <3>3
  <2>6. ASSUME NEW k \in DOMAIN pages', NEW j \in DOMAIN pages'[k], pages'[k][j].name = "image"
        PROVE  \E o \in seen' : /\ o.kind = "image" /\ o.page = k /\ o.at = j
                                /\ o.what = pages'[k][j].image.image
    <3>1. CASE k = page /\ j = Len(old) + 1
      <4>1. pages'[k][j] = op
        BY <1>5, <1>6, <3>1
      <4>2. \E o \in Noted(op, graphics, page, Len(old) + 1) :
              o.kind = "image" /\ o.page = page /\ o.at = Len(old) + 1 /\ o.what = op.image.image
        BY <2>6, <4>1, NotedDrawings
      <4> QED  BY <1>4, <3>1, <4>1, <4>2
    <3>2. CASE ~(k = page /\ j = Len(old) + 1)
      <4>1. k \in DOMAIN pages /\ j \in DOMAIN pages[k] /\ pages'[k][j] = pages[k][j]
        <5>1. CASE k = page
          <6>1. pages'[k] = new /\ pages[k] = old
            BY <1>2, <1>5, <5>1
          <6>2. j \in DOMAIN old
            BY <1>6, <2>6, <3>2, <5>1, <6>1
          <6> QED  BY <1>5, <1>6, <2>6, <6>1, <6>2
        <5>2. CASE k # page
          <6>1. pages'[k] = pages[k]
            BY <1>5, <2>6, <5>2
          <6> QED  BY <1>5, <2>6, <6>1
        <5> QED  BY <5>1, <5>2
      <4>2. \E o \in seen : o.kind = "image" /\ o.page = k /\ o.at = j /\ o.what = pages[k][j].image.image
        BY <2>1, <2>6, <4>1 DEF NotedIs
      <4> QED  BY <1>4, <4>1, <4>2
    <3> QED  BY <3>1, <3>2
  <2> QED  BY <2>5, <2>6 DEF NotedIs
<1>9. TargetsAre' /\ StagesAre'
  <2>1. TargetsAre /\ StagesAre
    OBVIOUS
  <2> QED  BY <1>4, <2>1 DEF TargetsAre, StagesAre
<1> QED  BY <1>4, <1>7, <1>8, <1>9 DEF RewriteIs, SavedIs, CountIsHonest

LEMMA NextPageKeeps ==
  ASSUME WatermarkInv, NextPage
  PROVE  WatermarkInv'
<1> USE DEF WatermarkInv
<1>1. PICK none \in Seq(Ops) : none = <<>>
  <2>1. <<>> \in Seq(Ops)
    OBVIOUS
  <2> QED  BY <2>1, Zenon
<1>2. /\ stage = "read" /\ pages' = Append(pages, none)
      /\ UNCHANGED <<request, seen, targets, output, formKept, marks, removed, userHits, stage>>
  BY <1>1, Zenon DEF NextPage
<1>3. /\ pages' \in Seq(Seq(Ops)) /\ Len(pages') # 0
      /\ \A k \in DOMAIN pages : k \in DOMAIN pages' /\ pages'[k] = pages[k]
      /\ \A k \in DOMAIN pages' : k \in DOMAIN pages \/ pages'[k] = none
  BY <1>1, <1>2, AppendProperties DEF SourceIs
<1>4. SourceIs'
  <2>1. Nested(none)
    BY <1>1 DEF Nested
  <2>2. \A k \in DOMAIN pages' : Nested(pages'[k])
    BY <1>3, <2>1 DEF SourceIs
  <2> QED  BY <1>3, <2>2 DEF SourceIs
<1>5. NotedIs'
  <2>1. NotedIs
    OBVIOUS
  <2>2. \A o \in seen' : /\ o.page \in DOMAIN pages' /\ o.at \in DOMAIN pages'[o.page]
                         /\ o.kind = pages'[o.page][o.at].name
                         /\ o.kind = "image" => o.what = pages'[o.page][o.at].image.image
    BY <1>2, <1>3, <2>1 DEF NotedIs
  <2>3. DOMAIN none = {}
    BY <1>1
  <2>4. ASSUME NEW k \in DOMAIN pages', NEW j \in DOMAIN pages'[k], pages'[k][j].name = "image"
        PROVE  \E o \in seen' : /\ o.kind = "image" /\ o.page = k /\ o.at = j
                                /\ o.what = pages'[k][j].image.image
    <3>1. k \in DOMAIN pages
      BY <1>3, <2>3, <2>4, Zenon
    <3>2. pages'[k] = pages[k] /\ seen' = seen
      BY <1>2, <1>3, <3>1
    <3> QED  BY <2>1, <2>4, <3>1, <3>2 DEF NotedIs
  <2> QED  BY <2>2, <2>4 DEF NotedIs
<1>6. TargetsAre' /\ StagesAre'
  <2>1. TargetsAre /\ StagesAre
    OBVIOUS
  <2> QED  BY <1>2, <2>1 DEF TargetsAre, StagesAre
<1> QED  BY <1>2, <1>4, <1>5, <1>6 DEF RewriteIs, SavedIs, CountIsHonest

\* What is taken for a watermark is drawn otherwise than a scan at least once.
LEMMA ImagesTaken ==
  ASSUME NEW drawings, ImageIsWatermark(drawings)
  PROVE  \E o \in drawings : ~StraightScan(o)
<1>1. CASE \E o \in drawings : o.traits.diagonal
  BY <1>1 DEF StraightScan
<1>2. CASE \E o \in drawings : o.traits.clear
  BY <1>2 DEF StraightScan
<1>3. CASE \E o \in drawings : Centered(o)
  BY <1>3 DEF StraightScan, FullPage, Centered
<1> QED  BY <1>1, <1>2, <1>3 DEF ImageIsWatermark

LEMMA DecideKeeps ==
  ASSUME WatermarkInv, NEW options \in Requests,
         Decide(options)
  PROVE  WatermarkInv'
<1> DEFINE pictures == {o \in seen : o.kind = "image"}
           shots == {o.what : o \in {o \in pictures : ImageIsWatermark(Of(o.what, pictures))}}
<1>1. /\ stage = "read" /\ stage' = "rewrite" /\ request' = options
      /\ UNCHANGED <<pages, seen, output, formKept, removed, userHits>>
      /\ targets'.images \subseteq shots \/ targets' = targets
  <2>1. /\ stage = "read" /\ stage' = "rewrite" /\ request' = options
        /\ UNCHANGED <<pages, seen, output, formKept, removed, userHits>>
    BY DEF Decide
  <2>2. CASE options.mode = "both"
    <3>1. \E t, i : i \in Capped(shots, pictures) /\ targets' = [texts |-> t, images |-> i]
      BY <2>2 DEF Decide
    <3>2. PICK t, i : i \in Capped(shots, pictures) /\ targets' = [texts |-> t, images |-> i]
      BY <3>1
    <3>3. i \subseteq shots
      <4> HIDE DEF shots, pictures
      <4> QED  BY <3>2 DEF Capped
    <3> QED  BY <2>1, <3>2, <3>3
  <2>3. CASE options.mode # "both"
    BY <2>1, <2>3 DEF Decide
  <2> QED  BY <2>2, <2>3
<1>2. SourceIs /\ NotedIs /\ TargetsAre /\ StagesAre
  BY DEF WatermarkInv
<1>3. TargetsAre'
  <2>1. CASE targets'.images \subseteq shots
    <3> SUFFICES ASSUME NEW i \in targets'.images
                 PROVE  \E o \in seen : o.kind = "image" /\ o.what = i /\ ~StraightScan(o)
      BY <1>1 DEF TargetsAre
    <3>1. PICK o \in pictures : o.what = i /\ ImageIsWatermark(Of(o.what, pictures))
      BY <2>1
    <3>2. PICK p \in Of(i, pictures) : ~StraightScan(p)
      <4> HIDE DEF pictures
      <4> QED  BY <3>1, ImagesTaken
    <3> QED  BY <3>2 DEF Of
  <2>2. CASE targets' = targets
    BY <1>1, <1>2, <2>2 DEF TargetsAre
  <2> QED  BY <1>1, <2>1, <2>2
<1>4. output' = <<>> /\ removed' = 0 /\ formKept' = TRUE /\ pages' = pages /\ seen' = seen
  BY <1>1, <1>2 DEF StagesAre
<1>5. RewriteIs'
  <2>1. output' \in Seq(Seq(Ops)) /\ Len(output') = 0 /\ DOMAIN output' = {}
    BY <1>4
  <2>2. Len(output') <= Len(pages')
    BY <1>2, <1>4, <2>1 DEF SourceIs
  <2> QED  BY <1>4, <2>1, <2>2 DEF RewriteIs
<1>6. SourceIs' /\ NotedIs'
  BY <1>2, <1>4 DEF SourceIs, NotedIs
<1>7. StagesAre'
  BY <1>1 DEF StagesAre
<1> QED  BY <1>1, <1>3, <1>5, <1>6, <1>7 DEF WatermarkInv, SavedIs, CountIsHonest

LEMMA RewritePageKeeps ==
  ASSUME WatermarkInv, RewritePage
  PROVE  WatermarkInv'
<1>1. /\ stage = "rewrite" /\ Len(output) < Len(pages)
      /\ UNCHANGED <<request, pages, graphics, seen, targets, stage>>
  BY DEF RewritePage
<1>2. SourceIs /\ NotedIs /\ TargetsAre /\ RewriteIs /\ StagesAre
  BY DEF WatermarkInv
<1>3. PICK plan : plan = RewritePlan /\ RewritePlan' = plan /\ plan.needle = request.text
  <2>1. RewritePlan' = RewritePlan
    BY <1>1 DEF RewritePlan, StripLayers
  <2>2. RewritePlan.needle = request.text
    BY DEF RewritePlan
  <2> QED  BY <2>1, <2>2
<1>4. /\ output \in Seq(Seq(Ops)) /\ Len(output) <= Len(pages)
      /\ \A k \in DOMAIN output : output[k] = Rewritten(plan, pages[k]).kept
      /\ removed \in Nat /\ (removed = 0 => formKept /\ \A k \in DOMAIN output : output[k] = pages[k])
      /\ Says(FormWord, request.text) => \A k \in DOMAIN output : HasForm(pages[k]) => ~formKept
  BY <1>1, <1>2, <1>3 DEF RewriteIs
<1>5. PICK next \in DOMAIN pages : next = Len(output) + 1
  BY <1>1, <1>2, <1>4 DEF SourceIs
<1>6. PICK ops \in Seq(Ops) : ops = pages[next]
  BY <1>2 DEF SourceIs
<1>7. PICK r : r = Rewritten(plan, ops)
  OBVIOUS
<1>8. r.kept \in Seq(Ops) /\ r.removed \in Nat /\ (r.removed = 0 => r.kept = ops)
  <2>1. Tally(plan, ops, r)
    BY <1>7, RewrittenTally
  <2> QED  BY <1>7, <2>1, ViewedType DEF Tally
<1>9. PICK form \in {0, 1} : form = IF FormGoes(ops) THEN 1 ELSE 0
  OBVIOUS
<1>10. /\ output' = Append(output, r.kept) /\ removed' = removed + r.removed + form
       /\ formKept' = (formKept /\ form = 0)
  BY <1>3, <1>5, <1>6, <1>7, <1>9, Zenon DEF RewritePage
<1>11. /\ output' \in Seq(Seq(Ops)) /\ Len(output') <= Len(pages)
       /\ \A k \in DOMAIN output : output'[k] = output[k]
       /\ output'[next] = r.kept
       /\ \A k \in DOMAIN output' : k \in DOMAIN output \/ k = next
  <2>1. PICK longer : longer = Append(output, r.kept)
    OBVIOUS
  <2>2. PICK m \in Nat : m = Len(output)
    BY <1>4
  <2>3. /\ longer \in Seq(Seq(Ops)) /\ Len(longer) = m + 1 /\ longer[m + 1] = r.kept
        /\ \A k \in 1..m : longer[k] = output[k]
    BY <1>4, <1>8, <2>1, <2>2, AppendProperties
  <2>4. DOMAIN output = 1..m /\ DOMAIN longer = 1..m + 1
    BY <1>4, <2>2, <2>3
  <2>5. m + 1 <= Len(pages)
    BY <1>1, <1>2, <2>2 DEF SourceIs
  <2>6. output' = longer /\ next = m + 1
    BY <1>5, <1>10, <2>1, <2>2
  <2> QED  BY <2>3, <2>4, <2>5, <2>6
<1>12. /\ removed' \in Nat
       /\ removed' = 0 => removed = 0 /\ r.removed = 0 /\ form = 0
  BY <1>4, <1>8, <1>9, <1>10
<1>13. \A k \in DOMAIN output' : output'[k] = Rewritten(plan, pages[k]).kept
  BY <1>4, <1>6, <1>7, <1>11
<1>14. removed' = 0 => formKept' /\ \A k \in DOMAIN output' : output'[k] = pages[k]
  BY <1>4, <1>6, <1>8, <1>10, <1>11, <1>12
<1>15. Says(FormWord, request.text) => \A k \in DOMAIN output' : HasForm(pages[k]) => ~formKept'
  <2> SUFFICES ASSUME Says(FormWord, request.text), NEW k \in DOMAIN output', HasForm(pages[k])
               PROVE  ~formKept'
    OBVIOUS
  <2>1. CASE k \in DOMAIN output
    BY <1>4, <1>10, <2>1
  <2>2. CASE k = next
    <3>1. HasForm(ops) /\ TextGoes(RewritePlan, FormWord, FormTraits)
      BY <1>3, <1>6, <2>2 DEF TextGoes
    <3>2. formKept => FormGoes(ops)
      BY <3>1, Zenon DEF FormGoes
    <3>3. FormGoes(ops) => form # 0
      BY <1>9
    <3>4. ~(formKept /\ form = 0)
      BY <3>2, <3>3, Zenon
    <3> QED  BY <1>10, <3>4, Zenon
  <2> QED  BY <1>11, <2>1, <2>2
<1>16. RewriteIs'
  BY <1>1, <1>3, <1>11, <1>12, <1>13, <1>14, <1>15 DEF RewriteIs
<1>17. SourceIs' /\ NotedIs' /\ TargetsAre' /\ StagesAre'
  BY <1>1, <1>2 DEF SourceIs, NotedIs, TargetsAre, StagesAre
<1> QED  BY <1>1, <1>16, <1>17 DEF WatermarkInv, SavedIs, CountIsHonest

LEMMA SaveKeeps ==
  ASSUME WatermarkInv, Save
  PROVE  WatermarkInv'
<1>1. /\ stage = "rewrite" /\ Len(output) = Len(pages)
      /\ UNCHANGED <<request, pages, graphics, seen, targets, userHits>>
  BY DEF Save
<1>2. SourceIs /\ NotedIs /\ TargetsAre /\ RewriteIs /\ StagesAre
  BY DEF WatermarkInv
<1>3. PICK plan : plan = RewritePlan /\ RewritePlan' = plan /\ plan.needle = request.text
  <2>1. RewritePlan' = RewritePlan
    BY <1>1 DEF RewritePlan, StripLayers
  <2>2. RewritePlan.needle = request.text
    BY DEF RewritePlan
  <2> QED  BY <2>1, <2>2
<1>4. /\ output \in Seq(Seq(Ops))
      /\ \A k \in DOMAIN output : output[k] = Rewritten(plan, pages[k]).kept
      /\ removed \in Nat /\ (removed = 0 => formKept /\ \A k \in DOMAIN output : output[k] = pages[k])
      /\ Says(FormWord, request.text) => \A k \in DOMAIN output : HasForm(pages[k]) => ~formKept
  BY <1>1, <1>2, <1>3 DEF RewriteIs
<1>5. DOMAIN output = DOMAIN pages /\ DOMAIN output = 1..Len(output) /\ Len(output) \in Nat
  BY <1>1, <1>2, <1>4 DEF SourceIs
<1>6. PICK places : places = Marks
  OBVIOUS
<1>7. places = [k \in DOMAIN pages |-> PlacesOf(plan, userHits, pages[k])]
  <2>1. \A k \in DOMAIN output :
          PlacesOf(plan, userHits, pages[k])
            = IF userHits = 0 THEN {output[k][j].text.place : j \in Matches(output[k], request.text)} ELSE {}
    <3>1. ASSUME NEW k \in DOMAIN output
          PROVE  PlacesOf(plan, userHits, pages[k])
                   = IF userHits = 0 THEN {output[k][j].text.place : j \in Matches(output[k], request.text)} ELSE {}
      <4>1. PICK kept : kept = Rewritten(plan, pages[k]).kept /\ kept = output[k]
        BY <1>4
      <4>2. PlacesOf(plan, userHits, pages[k])
              = IF userHits = 0 THEN {kept[j].text.place : j \in Matches(kept, plan.needle)} ELSE {}
        BY <4>1 DEF PlacesOf
      <4> QED  BY <1>3, <4>1, <4>2
    <3> QED  BY <3>1
  <2>2. places = [k \in DOMAIN output |-> IF userHits = 0
                    THEN {output[k][j].text.place : j \in Matches(output[k], request.text)} ELSE {}]
    BY <1>6, Zenon DEF Marks
  <2> QED  BY <1>5, <2>1, <2>2, Zenon
<1>8. PICK red : red = [k \in DOMAIN output |-> Redacted(places[k], output[k])]
  OBVIOUS
<1>9. red = [k \in DOMAIN pages |-> Saved(plan, userHits, pages[k])]
  <2>1. \A k \in DOMAIN output : Saved(plan, userHits, pages[k]) = Redacted(places[k], output[k])
    BY <1>4, <1>5, <1>7, Zenon DEF Saved
  <2> QED  BY <1>5, <1>8, <2>1, Zenon
<1>10. PICK f : f = [k \in DOMAIN output |->
                       IF userHits = 0 THEN Cardinality(Matches(output[k], request.text)) ELSE 0]
  OBVIOUS
<1>11. \A k \in DOMAIN output : IsFiniteSet(Matches(output[k], request.text))
  <2> SUFFICES ASSUME NEW k \in DOMAIN output
               PROVE  IsFiniteSet(Matches(output[k], request.text))
    OBVIOUS
  <2>1. PICK page \in Seq(Ops) : page = output[k]
    BY <1>4
  <2>2. Len(page) \in Nat /\ DOMAIN page = 1..Len(page) /\ IsFiniteSet(1..Len(page))
    BY FS_Interval
  <2>3. Matches(page, request.text) \subseteq 1..Len(page)
    BY <2>2 DEF Matches
  <2>4. IsFiniteSet(Matches(page, request.text))
    BY <2>2, <2>3, FS_Subset
  <2> QED  BY <2>1, <2>4
<1>12. f \in [DOMAIN output -> Nat] /\ IsFiniteSet(DOMAIN output)
  <2>1. IsFiniteSet(1..Len(output))
    BY <1>5, FS_Interval
  <2>2. IsFiniteSet(DOMAIN output)
    BY <1>5, <2>1, Zenon
  <2>3. \A k \in DOMAIN output : Cardinality(Matches(output[k], request.text)) \in Nat
    BY <1>11, FS_CardinalityType
  <2> QED  BY <1>10, <2>2, <2>3
<1>13. PICK sum \in Nat : sum = SumFunctionOnSet(f, DOMAIN output)
  BY <1>12, SumIsNatural
<1>14. /\ StrippedAnnotations \in Nat /\ DisabledLayers \in Nat
  <2>1. request.annots \in Nat
    BY <1>2 DEF StagesAre, Requests
  <2> QED  BY <2>1 DEF StrippedAnnotations, DisabledLayers
<1>15. PICK total : /\ total = removed + StrippedAnnotations + DisabledLayers + sum
                    /\ marks' = places /\ output' = red /\ removed' = total
                    /\ formKept' = (formKept /\ ~\E k \in DOMAIN output :
                                                   HasForm(output[k]) /\ FormPlace \in places[k])
                    /\ stage' = IF request.text # NoWord /\ total = 0 THEN "failed" ELSE "done"
  BY <1>6, <1>8, <1>10, <1>13, Zenon DEF Save
<1>16. total \in Nat /\ (total = 0 => removed = 0 /\ sum = 0)
  BY <1>4, <1>13, <1>14, <1>15
<1>17. removed' = 0 => output' = pages' /\ formKept'
  <2> SUFFICES ASSUME removed' = 0
               PROVE  output' = pages' /\ formKept'
    OBVIOUS
  <2>1. removed = 0 /\ sum = 0
    BY <1>15, <1>16
  <2>2. \A k \in DOMAIN output : f[k] = 0
    BY <1>12, <1>13, <2>1, NothingSummed
  <2>3. \A k \in DOMAIN output : userHits = 0 => Matches(output[k], request.text) = {}
    <3>1. ASSUME userHits = 0, NEW k \in DOMAIN output
          PROVE  Matches(output[k], request.text) = {}
      <4>1. Cardinality(Matches(output[k], request.text)) = 0
        BY <1>10, <2>2, <3>1
      <4> QED  BY <1>11, <4>1, FS_EmptySet
    <3> QED  BY <3>1
  <2>4. ASSUME NEW k \in DOMAIN output
        PROVE  places[k] = {} /\ red[k] = pages[k]
    <3>1. PICK s \in Seq(Ops) : s = pages[k]
      <4>1. k \in DOMAIN pages
        BY <1>5, Zenon
      <4> QED  BY <1>2, <4>1 DEF SourceIs
    <3>2. userHits = 0 => Matches(Rewritten(plan, s).kept, plan.needle) = {}
      BY <1>3, <1>4, <2>3, <3>1
    <3>3. PlacesOf(plan, userHits, s) = {} /\ Saved(plan, userHits, s) = Rewritten(plan, s).kept
      BY <3>2, NothingFound
    <3>4. Rewritten(plan, s).kept = s
      BY <1>4, <2>1, <3>1
    <3> QED  BY <1>5, <1>7, <1>9, <3>1, <3>3, <3>4, Zenon
  <2>5. red = [k \in DOMAIN pages |-> pages[k]]
    BY <1>5, <1>8, <2>4
  <2>6. pages = [k \in DOMAIN pages |-> pages[k]]
    BY <1>2 DEF SourceIs
  <2>7. formKept'
    BY <1>4, <1>15, <2>1, <2>4
  <2> QED  BY <1>1, <1>15, <2>5, <2>6, <2>7
<1>18. (stage' = "failed") = (removed' = 0 /\ request'.text # NoWord)
  BY <1>1, <1>15, Zenon
<1>19. CountIsHonest'
  BY <1>17, <1>18 DEF CountIsHonest
<1>20. SavedIs'
  <2>1. DOMAIN red = DOMAIN output
    BY <1>8
  <2>2. Says(FormWord, request.text) => \A k \in DOMAIN red : HasForm(pages[k]) => ~formKept'
    BY <1>4, <1>15, <2>1
  <2> QED  BY <1>1, <1>3, <1>7, <1>9, <1>15, <2>2 DEF SavedIs
<1>21. stage' \in {"done", "failed"}
  BY <1>15
<1>22. SourceIs' /\ NotedIs' /\ TargetsAre' /\ StagesAre'
  BY <1>1, <1>2, <1>21 DEF SourceIs, NotedIs, TargetsAre, StagesAre
<1> QED  BY <1>19, <1>20, <1>21, <1>22 DEF WatermarkInv, RewriteIs

LEMMA RemovalKeeps == WatermarkInv /\ [WatermarkNext]_watermarkVars => WatermarkInv'
<1> SUFFICES ASSUME WatermarkInv, [WatermarkNext]_watermarkVars
             PROVE  WatermarkInv'
  OBVIOUS
<1>1. ASSUME NEW op \in Ops, Read(op)
      PROVE  WatermarkInv'
  BY <1>1, ReadKeeps
<1>2. CASE NextPage
  BY <1>2, NextPageKeeps
<1>3. ASSUME NEW options \in Requests,
             Decide(options)
      PROVE  WatermarkInv'
  BY <1>3, DecideKeeps
<1>4. CASE RewritePage
  BY <1>4, RewritePageKeeps
<1>5. CASE Save
  BY <1>5, SaveKeeps
<1>6. CASE UNCHANGED watermarkVars
  <2>1. UNCHANGED <<request, pages, graphics, seen, targets, output, formKept, marks, removed, userHits, stage>>
    BY <1>6 DEF watermarkVars
  <2>2. RewritePlan' = RewritePlan
    BY <2>1 DEF RewritePlan, StripLayers
  <2>3. SourceIs' /\ NotedIs' /\ TargetsAre' /\ StagesAre' /\ CountIsHonest'
    BY <2>1 DEF WatermarkInv, SourceIs, NotedIs, TargetsAre, StagesAre, CountIsHonest
  <2>4. RewriteIs' /\ SavedIs'
    BY <2>1, <2>2 DEF WatermarkInv, RewriteIs, SavedIs
  <2> QED  BY <2>3, <2>4 DEF WatermarkInv
<1> QED  BY <1>1, <1>2, <1>3, <1>4, <1>5, <1>6 DEF WatermarkNext

LEMMA RemovalIsSound == WatermarkSpec => []WatermarkInv
BY RemovalStarts, RemovalKeeps, PTL DEF WatermarkSpec

\* A page of the output, redacted at the places of its marks.
LEMMA OutputIs ==
  ASSUME WatermarkInv, stage \in {"rewrite", "done"}, NEW k \in DOMAIN output
  PROVE  \E s \in Seq(Ops) :
           /\ s = pages[k] /\ Nested(s)
           /\ output[k] = Redacted(MarksOf(k), Rewritten(RewritePlan, s).kept)
           /\ \A place \in MarksOf(k) : \E j \in Matches(s, RewritePlan.needle) : s[j].text.place = place
<1>1. SourceIs /\ RewriteIs /\ SavedIs
  BY DEF WatermarkInv
<1>2. k \in DOMAIN pages
  <2>1. CASE stage = "rewrite"
    BY <1>1, <2>1 DEF SourceIs, RewriteIs
  <2>2. CASE stage = "done"
    BY <1>1, <2>2 DEF SavedIs
  <2> QED  BY <2>1, <2>2
<1>3. PICK s \in Seq(Ops) : s = pages[k] /\ Nested(s)
  BY <1>1, <1>2 DEF SourceIs
<1>4. PICK plan : plan = RewritePlan
  OBVIOUS
<1>5. CASE stage = "rewrite"
  <2>1. MarksOf(k) = {} /\ output[k] = Rewritten(plan, s).kept
    BY <1>1, <1>3, <1>4, <1>5 DEF MarksOf, RewriteIs
  <2>2. Redacted({}, Rewritten(plan, s).kept) = Rewritten(plan, s).kept
    BY ViewedType, NothingRedacted
  <2> QED  BY <1>3, <1>4, <2>1, <2>2
<1>6. CASE stage = "done"
  <2>1. MarksOf(k) = PlacesOf(plan, userHits, s) /\ output[k] = Saved(plan, userHits, s)
    BY <1>1, <1>2, <1>3, <1>4, <1>6 DEF MarksOf, SavedIs
  <2>2. \A place \in PlacesOf(plan, userHits, s) : \E j \in Matches(s, plan.needle) : s[j].text.place = place
    BY PlacesAreMatched
  <2>3. output[k] = Redacted(MarksOf(k), Rewritten(plan, s).kept)
    BY <2>1, Zenon DEF Saved
  <2> QED  BY <1>3, <1>4, <2>1, <2>2, <2>3, Zenon
<1> QED  BY <1>5, <1>6

LEMMA RestIsShown == WatermarkInv => OnlyTargetsGo /\ HeadingsSurvive
<1> SUFFICES ASSUME WatermarkInv
             PROVE  OnlyTargetsGo /\ HeadingsSurvive
  OBVIOUS
<1>1. ASSUME stage \in {"rewrite", "done"}, NEW k \in DOMAIN output
      PROVE  /\ Outline(Shown(RewritePlan, output[k]))
                  = Outline(Only(Shown(RewritePlan, pages[k]), Spared(RewritePlan, MarksOf(k))))
             /\ ~Strays(RewritePlan, pages[k]) =>
                  /\ Shown(RewritePlan, output[k])
                       = Only(Shown(RewritePlan, pages[k]), Spared(RewritePlan, MarksOf(k)))
                  /\ Only(Shown(RewritePlan, output[k]), Headings(RewritePlan, MarksOf(k)))
                       = Only(Shown(RewritePlan, pages[k]), Headings(RewritePlan, MarksOf(k)))
             /\ \A place \in MarksOf(k) :
                  \E j \in Matches(pages[k], request.text) : pages[k][j].text.place = place
  <2>1. PICK plan, places : plan = RewritePlan /\ places = MarksOf(k)
    OBVIOUS
  <2>2. PICK s \in Seq(Ops) :
          /\ s = pages[k] /\ Nested(s)
          /\ output[k] = Redacted(places, Rewritten(plan, s).kept)
          /\ \A place \in places : \E j \in Matches(s, plan.needle) : s[j].text.place = place
    BY <1>1, <2>1, OutputIs
  <2>3. PICK shown : shown = Shown(plan, Redacted(places, Rewritten(plan, s).kept))
    OBVIOUS
  <2>4. /\ Outline(shown) = Outline(Only(Shown(plan, s), Spared(plan, places)))
        /\ ~Strays(plan, s) =>
             /\ shown = Only(Shown(plan, s), Spared(plan, places))
             /\ Only(shown, Headings(plan, places)) = Only(Shown(plan, s), Headings(plan, places))
    BY <2>2, <2>3, ShownSaved
  <2>5. plan.needle = request.text
    BY <2>1 DEF RewritePlan
  <2>6. shown = Shown(plan, output[k])
    BY <2>2, <2>3
  <2> QED  BY <2>1, <2>2, <2>4, <2>5, <2>6, Zenon
<1>2. OnlyTargetsGo
  BY <1>1, Zenon DEF OnlyTargetsGo
<1>3. HeadingsSurvive
  BY <1>1, Zenon DEF HeadingsSurvive
<1> QED  BY <1>2, <1>3

LEMMA ScansAreKept == WatermarkInv => StraightScansSurvive
<1> SUFFICES ASSUME WatermarkInv, stage = "done", NEW o \in seen, FullPage(o),
                    ~(StripLayers /\ OnLayer(pages[o.page][o.at])),
                    \A p \in seen : p.what = o.what /\ p.kind = "image" => StraightScan(p),
                    \A p \in seen : p.what = o.what => ~Doomed(p)
             PROVE  Survives(o)
  BY DEF StraightScansSurvive, StraightScan
<1>1. SourceIs /\ NotedIs /\ TargetsAre /\ SavedIs
  BY DEF WatermarkInv
<1>2. o.what \notin targets.images
  BY <1>1 DEF TargetsAre
<1>3. PICK plan, hits : /\ plan = RewritePlan /\ hits = userHits
                        /\ plan.images = targets.images /\ plan.layers = StripLayers
  <2>1. RewritePlan.images = targets.images /\ RewritePlan.layers = StripLayers
    BY DEF RewritePlan
  <2> QED  BY <2>1
<1>4. PICK s \in Seq(Ops) : s = pages[o.page] /\ Nested(s)
  BY <1>1 DEF SourceIs, NotedIs
<1>5. PICK draw \in Ops : draw = s[o.at]
  BY <1>1, <1>4 DEF NotedIs
<1>6. draw.name = "image" /\ draw.image.image = o.what
  BY <1>1, <1>4, <1>5 DEF NotedIs, FullPage
<1>10. ~Drops(plan, draw, Fresh)
  <2>1. ~(StripLayers /\ draw.image.layer)
    BY <1>4, <1>5, <1>6 DEF OnLayer
  <2> QED  BY <1>2, <1>3, <1>6, <2>1 DEF Drops
<1>7. Bare(plan, s, draw)
  <2> SUFFICES ASSUME NEW k \in 1..Len(s), s[k] = draw
               PROVE  Viewed(plan, SubSeq(s, 1, k - 1)).skip = 0
    BY DEF Bare
  <2>1. o.page \in DOMAIN pages /\ k \in DOMAIN pages[o.page] /\ pages[o.page][k] = draw
    BY <1>1, <1>4 DEF NotedIs
  <2>2. PICK p \in seen : p.page = o.page /\ p.at = k /\ p.what = o.what
    BY <1>1, <1>6, <2>1 DEF NotedIs
  <2>3. ~(Viewed(plan, SubSeq(s, 1, k - 1)).skip > 0)
    <3>1. ~Doomed(p)
      BY <2>2
    <3> QED  BY <1>3, <1>4, <2>2, <3>1, Zenon DEF Doomed
  <2>4. SubSeq(s, 1, k - 1) \in Seq(Ops)
    BY <1>4
  <2>5. Viewed(plan, SubSeq(s, 1, k - 1)).skip \in Nat
    BY <2>4, ViewedType
  <2> QED  BY <2>3, <2>5
<1>8. Only(Saved(plan, hits, s), {draw}) = Only(s, {draw})
  <2>1. PICK places : places = PlacesOf(plan, hits, s)
    OBVIOUS
  <2>2. ImageStays(plan, places, s, draw)
    BY <1>4, <1>6, <1>7, <1>10, BareImagesStay
  <2> QED  BY <2>1, <2>2, Zenon DEF Saved, ImageStays
<1>9. output[o.page] = Saved(plan, hits, s)
  BY <1>1, <1>3, <1>4 DEF SavedIs, NotedIs
<1> QED  BY <1>4, <1>5, <1>8, <1>9 DEF Survives

LEMMA UsersTextIsGone == WatermarkInv => UserTextGoes
<1> SUFFICES ASSUME WatermarkInv, stage = "done", request.text # NoWord
             PROVE  UserTextGoes
  BY DEF UserTextGoes
<1>1. SourceIs /\ NotedIs /\ SavedIs
  BY DEF WatermarkInv
<1>2. PICK plan, hits : plan = RewritePlan /\ hits = userHits /\ plan.needle = request.text
  <2>1. RewritePlan.needle = request.text
    BY DEF RewritePlan
  <2> QED  BY <2>1
<1>3. /\ DOMAIN output = DOMAIN pages
      /\ \A k \in DOMAIN output : output[k] = Saved(plan, hits, pages[k])
      /\ Says(FormWord, request.text) => \A k \in DOMAIN output : HasForm(pages[k]) => ~formKept
  BY <1>1, <1>2 DEF SavedIs
<1>4. ASSUME NEW ops \in ToSet(output)
      PROVE  /\ \A k \in DOMAIN ops : ops[k].name = "text" => ~Says(ops[k].text.read, request.text)
             /\ hits = 0 => Matches(ops, request.text) = {}
  <2>1. PICK k \in DOMAIN output : ops = output[k]
    BY DEF ToSet
  <2>2. PICK s \in Seq(Ops) : s = pages[k]
    BY <1>1, <1>3 DEF SourceIs
  <2>3. ops = Saved(plan, hits, s)
    BY <1>3, <2>1, <2>2
  <2> QED  BY <1>2, <2>3, UsersTextGoes
<1>5. ASSUME Says(FormWord, request.text), NEW o \in seen, o.kind = "form"
      PROVE  ~formKept
  <2>1. o.page \in DOMAIN pages /\ HasForm(pages[o.page])
    BY <1>1, <1>5 DEF NotedIs, HasForm
  <2> QED  BY <1>3, <1>5, <2>1
<1> QED  BY <1>2, <1>4, <1>5 DEF UserTextGoes

\* Whatever a document holds and however its marked content nests, a page that is
\* rewritten, and a page that is saved, shows everything but the targets and what
\* lay at the places of the user's text, in the order and at the angles of the
\* source; and, when no text that says a target sets the state, with its alpha
\* too, headings among it.  Scans that are drawn straight and opaque, on no
\* watermark layer, are on the page that remove_watermarks saves
\* (services/pdf_security.py, utils/pdf_security.py: the rewriter follows the
\* graphics state of what it drops, and PyMuPDF's redaction takes every text
\* that a match's box touches).
THEOREM TheRestIsAlwaysKept == WatermarkSpec => []TheRestIsKept
<1>1. WatermarkInv => TheRestIsKept
  BY RestIsShown, ScansAreKept DEF TheRestIsKept
<1> QED  BY <1>1, RemovalIsSound, PTL

\* A job of remove_watermarks that completes has left no occurrence of the
\* user's text that it can read, and one that counts nothing removed has changed
\* nothing and fails if it was asked to remove a text.
THEOREM RemovalsAreHonest == WatermarkSpec => []RemovalIsHonest
<1>1. WatermarkInv => RemovalIsHonest
  BY UsersTextIsGone DEF RemovalIsHonest, WatermarkInv
<1> QED  BY <1>1, RemovalIsSound, PTL

=============================================================================
