------------------------------ MODULE ToolCatalog ------------------------------
(* The catalogue of tools, and a job from its request to its archive: the      *)
(* options and inputs a tool accepts, what the worker makes of the inputs and  *)
(* under which names, the registration of what it made, and the bundle that a  *)
(* user downloads.  A set of options is the set of the keys that are given     *)
(* with a value in their range; "image", "custom", "every_page", "backwards"   *)
(* stand for mode=image, pages=custom, mode=every_page, last_page < first_page.*)
EXTENDS Integers, Sequences, FiniteSets, SequencesExt, FiniteSetsExt, Functions

CONSTANTS
  Uploads,    \* the stored files, [id, stem, ext, size, owner, pages]; a
              \* name is a sequence of words and numbers
  Callers,    \* who asks; an owner is one of them
  PlanOf,     \* the plan of a caller
  PlanLimits, \* PLAN_LIMITS: [files, size, total] of a plan
  MaxInputs   \* bound on the files of a request

Word(text) == [text |-> text, number |-> 0]
Number(n) == [text |-> "#", number |-> n]

ASSUME CatalogAssumption ==
  /\ "free" \in DOMAIN PlanLimits /\ MaxInputs \in Nat
  /\ \A p \in DOMAIN PlanLimits : PlanLimits[p] \in [files : Nat, size : Nat, total : Nat]
  /\ \A u \in Uploads : u.size \in Nat /\ u.pages \in Nat \ {0} /\ u.owner \in Callers
                       /\ u.stem \in Seq(ToSet(u.stem))

VARIABLES task,    \* the job
          present, \* the files that are active, and with that on disk
          bundle   \* the names in the last archive

catalogVars == <<task, present, bundle>>

-----------------------------------------------------------------------------
(* The tools: what each takes, and the keys it reads *)

Entry(takes, least, most, keys) ==
  [takes |-> takes, least |-> least, most |-> most, keys |-> keys]

Pdf == {"pdf"}
Photos == {"jpg", "jpeg"}
Raster == Photos \cup {"png"}

OrganizeTools ==
  [merge   |-> Entry(Pdf, 2, 20, {}),
   split   |-> Entry(Pdf, 1, 1, {"every_page", "ranges"}),
   rotate  |-> Entry(Pdf, 1, 10, {"pages"}),
   delete  |-> Entry(Pdf, 1, 1, {"pages"}),
   extract |-> Entry(Pdf, 1, 1, {"pages"}),
   reorder |-> Entry(Pdf, 1, 1, {"order"})]

OfficeTools ==
  [word_to_pdf  |-> Entry({"doc", "docx"}, 1, 10, {}),
   excel_to_pdf |-> Entry({"xls", "xlsx"}, 1, 10, {}),
   pdf_to_word  |-> Entry(Pdf, 1, 10, {"backwards"})]

SlideTool == [ppt_to_pdf |-> Entry({"ppt", "pptx"}, 1, 10, {})]

ImageTools == [jpg_to_pdf |-> Entry(Photos, 1, 20, {}),
               png_to_pdf |-> Entry({"png"}, 1, 20, {})]

RenderTool == [pdf_to_jpg |-> Entry(Pdf, 1, 10, {"backwards"})]
LosslessTool == [pdf_to_png |-> Entry(Pdf, 1, 10, {"backwards"})]

WatermarkTool ==
  [watermark |-> Entry(Pdf \cup Raster, 1, 11, {"image", "text", "custom", "page_range"})]
HeaderTool ==
  [header_footer |-> Entry(Pdf, 1, 10, {"header_text", "footer_text", "custom", "page_range"})]
NumbersTool == [page_numbers |-> Entry(Pdf, 1, 10, {"no_placeholder"})]
RemoveTool == [remove_watermark |-> Entry(Pdf, 1, 10, {"text"})]

ProtectTool == [protect |-> Entry(Pdf, 1, 10, {"user_password", "owner_password"})]
UnlockTool == [unlock |-> Entry(Pdf, 1, 10, {"password"})]

DocumentServices ==
  [metadata   |-> Entry(Pdf, 1, 10, {"clear_existing", "title"}),
   compare    |-> Entry(Pdf, 2, 2, {}),
   redact     |-> Entry(Pdf, 1, 10, {"texts", "areas"}),
   fill_forms |-> Entry(Pdf, 1, 1, {"fields"}),
   sign       |-> Entry(Pdf \cup Raster, 2, 11, {})]

EnhanceServices == [ocr              |-> Entry(Pdf, 1, 10, {}),
                    repair           |-> Entry(Pdf, 1, 10, {}),
                    compress_scanned |-> Entry(Pdf, 1, 10, {})]

CompressTool == [compress |-> Entry(Pdf, 1, 10, {})]

\* The tools that have an endpoint.
Families ==
  {OrganizeTools, OfficeTools, SlideTool, ImageTools, RenderTool, LosslessTool,
   WatermarkTool, HeaderTool, NumbersTool, RemoveTool, ProtectTool, UnlockTool,
   DocumentServices, EnhanceServices, CompressTool}

Catalog == [slug \in UNION {DOMAIN f : f \in Families} |->
              (CHOOSE f \in Families : slug \in DOMAIN f)[slug]]

-----------------------------------------------------------------------------
(* The options models *)

SplitOptions(o) == "every_page" \in o \/ "ranges" \in o
SelectionOptions(o) == "pages" \in o
ReorderOptions(o) == "order" \in o
RangeOptions(o) == "backwards" \notin o

WatermarkOptions(o) == /\ "image" \in o \/ "text" \in o
                       /\ "custom" \in o => "page_range" \in o

HeaderOptions(o) == /\ {"header_text", "footer_text"} \cap o # {}
                    /\ "custom" \in o => "page_range" \in o

NumbersOptions(o) == "no_placeholder" \notin o
ProtectOptions(o) == "user_password" \in o
UnlockOptions(o) == "password" \in o
MetadataOptions(o) == {"clear_existing", "title"} \cap o # {}
RedactOptions(o) == {"texts", "areas"} \cap o # {}
FormOptions(o) == "fields" \in o

OptionsValid(slug, o) ==
  CASE slug = "split" -> SplitOptions(o)
    [] slug \in {"delete", "extract"} -> SelectionOptions(o)
    [] slug = "reorder" -> ReorderOptions(o)
    [] slug \in {"pdf_to_word", "pdf_to_jpg", "pdf_to_png"} -> RangeOptions(o)
    [] slug = "watermark" -> WatermarkOptions(o)
    [] slug = "header_footer" -> HeaderOptions(o)
    [] slug = "page_numbers" -> NumbersOptions(o)
    [] slug = "protect" -> ProtectOptions(o)
    [] slug = "unlock" -> UnlockOptions(o)
    [] slug = "metadata" -> MetadataOptions(o)
    [] slug = "redact" -> RedactOptions(o)
    [] slug = "fill_forms" -> FormOptions(o)
    [] OTHER -> TRUE

-----------------------------------------------------------------------------
(* The request *)

\* Anonymous callers and unknown plans get the free tier.
LimitsFor(caller) ==
  PlanLimits[IF PlanOf[caller] \in DOMAIN PlanLimits THEN PlanOf[caller] ELSE "free"]

\* Active, and the caller's own.
GetActive(u, caller) == u \in present /\ u.owner = caller

\* Mutant: a file that is given twice counts once.
TotalMutant(inputs) == MapThenSumSet(LAMBDA u : u.size, ToSet(inputs))

Total(inputs) == FoldSeq(LAMBDA u, sum : u.size + sum, 0, inputs)

NoError == ""

\* Why a file is refused, for its caller and tool.
FileError(slug, u, caller) ==
  IF ~GetActive(u, caller) THEN "not found"
  ELSE IF u.ext \notin Catalog[slug].takes THEN "not accepted"
  ELSE IF u.size > LimitsFor(caller).size THEN "too large" ELSE NoError

\* The first check that refuses the inputs, in the order of the code.
InputError(slug, inputs, caller) ==
  LET bad == {k \in DOMAIN inputs : FileError(slug, inputs[k], caller) # NoError}
  IN IF Len(inputs) \notin Catalog[slug].least..Catalog[slug].most THEN "tool range"
     ELSE IF Len(inputs) > LimitsFor(caller).files THEN "plan files"
     ELSE IF bad # {} THEN FileError(slug, inputs[Min(bad)], caller)
     ELSE IF Total(inputs) > LimitsFor(caller).total THEN "plan total" ELSE NoError

Idle == [stage |-> "none"]

CreateJob(slug, o, inputs, caller) ==
  /\ task.stage = "none"
  /\ LET error == IF OptionsValid(slug, o) THEN InputError(slug, inputs, caller)
                  ELSE "options"
     IN task' = IF error # NoError THEN [stage |-> "refused", why |-> error]
                ELSE [stage |-> "queued", tool |-> slug, options |-> o,
                      inputs |-> inputs, caller |-> caller]
  /\ UNCHANGED <<present, bundle>>

\* A file is deleted or expires while the job waits.
Vanish(u) == /\ task.stage = "queued" /\ u \in present /\ u \in ToSet(task.inputs)
             /\ present' = present \ {u} /\ UNCHANGED <<task, bundle>>

-----------------------------------------------------------------------------
(* What the worker makes of the inputs: where it is written, and its name *)

Made(path, name) == [path |-> path, name |-> name]
Named(u, part) == Append(u.stem, part)

\* One numbered file for each input.
EachInput(inputs, suffix) ==
  [i \in DOMAIN inputs |-> Made(<<"out", i>>, Named(inputs[i], Word(suffix)))]

\* The engine writes a file named after the stored one.
ByStem(inputs) ==
  [i \in DOMAIN inputs |-> Made(<<inputs[i].id, 0>>, inputs[i].stem)]

\* The pages of each document, named after the stored one.
EachPage(inputs) ==
  FlattenSeq([i \in DOMAIN inputs |->
    [p \in 1..inputs[i].pages |->
       Made(<<inputs[i].id, p>>,
            IF inputs[i].pages = 1 THEN inputs[i].stem
            ELSE Named(inputs[i], Number(p)))]])

Album(inputs) ==
  <<Made(<<"out", 0>>, IF Len(inputs) = 1 THEN inputs[1].stem ELSE <<Word("images")>>)>>

\* Those with one of the extensions, in the order in which they are given.
OfExtension(inputs, extensions) ==
  LET kept == {i \in DOMAIN inputs : inputs[i].ext \in extensions}
      order == CHOOSE f \in [1..Cardinality(kept) -> kept] :
                 \A j, k \in DOMAIN f : j < k => f[j] < f[k]
  IN [k \in DOMAIN order |-> inputs[order[k]]]

Stamped(inputs, o) == IF "image" \in o /\ OfExtension(inputs, Raster) = <<>> THEN <<>>
                      ELSE EachInput(OfExtension(inputs, Pdf), "stamped")

Signed(inputs) == IF OfExtension(inputs, Raster) = <<>> THEN <<>>
                  ELSE EachInput(OfExtension(inputs, Pdf), "signed")

\* Nothing made means that the job fails.
Produced(slug, o, inputs) ==
  CASE slug \in {"merge", "compare"} -> <<Made(<<"out", 0>>, <<Word(slug)>>)>>
    [] slug \in {"word_to_pdf", "excel_to_pdf", "ppt_to_pdf"} -> ByStem(inputs)
    [] slug \in {"pdf_to_jpg", "pdf_to_png"} -> EachPage(inputs)
    [] slug \in {"jpg_to_pdf", "png_to_pdf"} -> Album(inputs)
    [] slug = "split" -> [p \in 1..inputs[1].pages |->
                            Made(<<"part", p>>, Named(inputs[1], Number(p)))]
    [] slug = "watermark" -> Stamped(inputs, o)
    [] slug = "sign" -> Signed(inputs)
    [] slug = "pdf_to_word" -> [i \in DOMAIN inputs |->
                                  Made(<<"out", i>>, inputs[i].stem)]
    [] OTHER -> EachInput(inputs, slug)

\* An import moves the file, so that a path is there only once.
Registered(made) == \A i, j \in DOMAIN made : made[i].path = made[j].path => i = j

\* The passwords that the worker blanks when the job ends.
Scrubbed(slug) == CASE slug = "protect" -> {"user_password", "owner_password"}
                    [] slug = "unlock" -> {"password"}
                    [] OTHER -> {}

End(stage, why, outputs) ==
  task' = [stage |-> stage, why |-> why, tool |-> task.tool, inputs |-> task.inputs,
           caller |-> task.caller, options |-> task.options \ Scrubbed(task.tool),
           outputs |-> outputs]

Run ==
  LET made == Produced(task.tool, task.options, task.inputs)
  IN /\ task.stage = "queued"
     /\ CASE ~(ToSet(task.inputs) \subseteq present) -> End("failed", "expired", <<>>)
          [] made = <<>> -> End("failed", "nothing made", <<>>)
          [] ~Registered(made) -> End("failed", "missing file", <<>>)
          [] OTHER -> End("completed", NoError, [i \in DOMAIN made |-> made[i].name])
     /\ UNCHANGED <<present, bundle>>

-----------------------------------------------------------------------------
(* The archive *)

\* A name that is used gets the first counter that is free.
Numbered(name, n) ==
  [k \in 0..n |-> IF k = 0 THEN name ELSE Append(name, Number(k))]

\* Mutant: the counter is not checked in its turn.
ArchiveNameMutant(used, name) == IF name \in used THEN Append(name, Number(1)) ELSE name

ArchiveName(used, name) ==
  LET names == Numbered(name, Cardinality(used))
  IN names[CHOOSE k \in DOMAIN names : /\ names[k] \notin used
                                       /\ \A j \in 0..k - 1 : names[j] \in used]

Archived(names) ==
  LET first[n \in 0..Len(names)] ==
        IF n = 0 THEN <<>>
        ELSE Append(first[n - 1], ArchiveName(ToSet(first[n - 1]), names[n]))
  IN first[Len(names)]

Bundle(names) == [of |-> names, names |-> Archived(names)]

\* The results of a job; one alone is served as it is.
JobArchive == /\ task.stage = "completed" /\ bundle' = Bundle(task.outputs)
              /\ UNCHANGED <<task, present>>

\* Files of the caller, in the order of the request, as results of many jobs.
FilesArchive(files, caller) ==
  /\ task.stage = "none" /\ \A u \in ToSet(files) : GetActive(u, caller)
  /\ task' = [stage |-> "archived"]
  /\ bundle' = Bundle([i \in DOMAIN files |-> files[i].stem])
  /\ UNCHANGED present

-----------------------------------------------------------------------------

CatalogInit == task = Idle /\ present = Uploads /\ bundle = Bundle(<<>>)

CatalogNext ==
  \/ \E slug \in DOMAIN Catalog : \E o \in SUBSET Catalog[slug].keys,
       inputs \in BoundedSeq(Uploads, MaxInputs), caller \in Callers :
         inputs # <<>> /\ CreateJob(slug, o, inputs, caller)
  \/ \E u \in Uploads : Vanish(u)
  \/ Run
  \/ JobArchive
  \/ \E files \in BoundedSeq(Uploads, MaxInputs), caller \in Callers :
       files # <<>> /\ FilesArchive(files, caller)

CatalogSpec == CatalogInit /\ [][CatalogNext]_catalogVars

-----------------------------------------------------------------------------
(* Properties *)

Ended == task.stage \in {"completed", "failed"}

\* What the worker reads is the caller's own and within the plan, a file that is
\* given twice counted twice.
AdmittedWithinPlan ==
  task.stage = "queued" =>
    LET limits == LimitsFor(task.caller)
    IN /\ \A i \in DOMAIN task.inputs : task.inputs[i].owner = task.caller
       /\ Len(task.inputs) <= limits.files
       /\ MapThenSumSet(LAMBDA i : task.inputs[i].size, DOMAIN task.inputs)
            <= limits.total

\* An archive holds each of its files under a name of its own.
ArchiveKeepsAll == /\ Len(bundle.names) = Len(bundle.of) /\ IsInjective(bundle.names)

\* A completed tool that works on one document at a time has handed out a result
\* for each document, named after it and in the order of the request.
EveryDocumentAnswered ==
  task.stage = "completed" /\ task.tool \notin {"merge", "compare", "split"} =>
    \A i, j \in DOMAIN task.inputs :
      LET Of(u) == {k \in DOMAIN task.outputs : IsPrefix(u.stem, task.outputs[k])}
      IN i < j /\ {task.inputs[i].ext, task.inputs[j].ext} = Pdf =>
           \E k, l \in DOMAIN task.outputs :
             k < l /\ k \in Of(task.inputs[i]) /\ l \in Of(task.inputs[j])

\* Both: no result is lost between the request and the download.
NoResultIsLost == EveryDocumentAnswered /\ ArchiveKeepsAll

\* "the same file can appear at several positions": a job that lists a file
\* twice does what it would do for two files.
RepeatsAreFiles == Ended => task.why # "missing file"
=============================================================================
