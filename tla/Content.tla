------------------------------- MODULE Content -------------------------------
(***************************************************************************)
(* What admins keep for the site (services/admin.py): announcements, FAQs,  *)
(* blog posts, pages, messages from visitors, subscriptions and the switches *)
(* of the tools.  A handler loads a row, assigns to it and commits; the      *)
(* commit writes what differs from what was loaded (SQLAlchemy), so edits of *)
(* one row overlap.                                                          *)
(*                                                                           *)
(* Times are BOOLEAN: whether there is one.  Texts of a form are one field.  *)
(***************************************************************************)
EXTENDS Naturals, FiniteSets, Functions

CONSTANTS
  Texts,        \* what a form may say
  Slugs,        \* addresses of posts and pages
  Slugify,      \* Slugify[t]: the slug made from a title t
  Tools,        \* rows of tool_configs, seeded with the start
  Users,        \* accounts that may subscribe
  Forms,        \* handlers under way at a time
  MaxRows,      \* bound: rows admins and visitors create
  MaxForms,     \* bound: handlers
  Kinds         \* the kinds of rows of this instance

ASSUME ContentAssumption == IsFiniteSet(Tools) /\ Slugify \in [Texts -> Slugs]

Statuses == {"draft", "published"}

VARIABLES
  item,      \* the rows, by id: [kind, fields]
  items,     \* ids given out
  form,      \* what each handler is doing
  forms,     \* handlers begun (bound)
  users      \* accounts that exist

contentVars == <<item, items, form, forms, users>>

Blank == [stage |-> "blank"]

\* The rows of the tools have the first ids.
ContentInit ==
  /\ items = Cardinality(Tools)
  /\ item = [i \in 1..items |->
               [kind |-> "tool",
                fields |-> [enabled |-> TRUE, maintenance |-> FALSE]]]
  /\ form = [f \in Forms |-> Blank]
  /\ forms = 0
  /\ users = Users

Items == DOMAIN item
HasKind(k) == {i \in Items : item[i].kind = k}

-----------------------------------------------------------------------------
(* What a payload says, and what a handler assigns.                         *)

Announcements == [status: Statuses, text: Texts]
Faqs == [published: BOOLEAN, text: Texts]
PostForms == [status: Statuses, text: Texts, slug: Slugs \cup {"none"}]
Switches == UNION {[S -> BOOLEAN] : S \in SUBSET {"enabled", "maintenance"}}
Renewals == UNION {[S -> Texts] : S \in SUBSET {"text"}}

Payloads(k) == CASE k = "announcement" -> Announcements
                 [] k = "faq"          -> Faqs
                 [] k \in {"post", "page"} -> PostForms
                 [] k = "message" -> [read: BOOLEAN] \cup [reply: Texts]
                 [] k = "tool" -> Switches
                 [] k = "subscription" -> Renewals

Date(b) == [x \in {"dated"} |-> b]
Over(g, f) == [x \in DOMAIN f \cup DOMAIN g |-> IF x \in DOMAIN g THEN g[x] ELSE f[x]]

\* create_announcement, create_faq: what the new row holds
NewAnnouncement(p) == Over(Date(p.status = "published"), p)
NewFaq(p) == p

\* create_blog and create_page: the slug is made from the title if there is none
Slug(p) == IF p.slug = "none" THEN Slugify[p.text] ELSE p.slug
NewPost(p) == Over(Date(p.status = "published"), [p EXCEPT !.slug = Slug(p)])
NewPage(p) == [p EXCEPT !.slug = Slug(p)]

\* Fields an update leaves alone where the payload has nothing.
WithoutSlug(p) == IF p.slug = "none" THEN [x \in {"status", "text"} |-> p[x]] ELSE p

Publishes(seen, p) == p.status = "published" /\ seen.status # "published"

\* Mutant: only a new announcement gets a date.
AssignAnnouncementMutant(seen, p) == p

\* update_announcement
AssignAnnouncement(seen, p) == IF Publishes(seen, p) THEN Over(Date(TRUE), p) ELSE p

\* update_blog; update_page; update_faq
AssignPost(seen, p) ==
  IF Publishes(seen, p) THEN Over(Date(TRUE), WithoutSlug(p)) ELSE WithoutSlug(p)
AssignPage(seen, p) == WithoutSlug(p)
AssignFaq(seen, p) == p

\* mark_message_read, reply_message
AssignMessage(seen, p) ==
  IF "read" \in DOMAIN p THEN p ELSE Over([read |-> TRUE, dated |-> TRUE], p)

\* update_tool and update_subscription: fields that are None stay
AssignTool(seen, p) == p
AssignSubscription(seen, p) == p

Assigned(k, seen, p) == CASE k = "announcement" -> AssignAnnouncement(seen, p)
                          [] k = "faq"          -> AssignFaq(seen, p)
                          [] k = "post"         -> AssignPost(seen, p)
                          [] k = "page"         -> AssignPage(seen, p)
                          [] k = "message"      -> AssignMessage(seen, p)
                          [] k = "tool"         -> AssignTool(seen, p)
                          [] k = "subscription" -> AssignSubscription(seen, p)

-----------------------------------------------------------------------------
(* The handlers.                                                            *)

InsertItem(kind, fields) ==
  /\ items < MaxRows
  /\ items' = items + 1
  /\ item' = [i \in Items \cup {items + 1} |->
                IF i \in Items THEN item[i] ELSE [kind |-> kind, fields |-> fields]]
  /\ UNCHANGED <<form, forms, users>>

\* The index refuses a second row of the kind with the slug.
SlugFree(k, slug, but) == \A i \in HasKind(k) \ but : item[i].fields.slug # slug

CreateAnnouncement(p) == InsertItem("announcement", NewAnnouncement(p))
CreateFaq(p) == InsertItem("faq", NewFaq(p))
CreateBlog(p) == SlugFree("post", Slug(p), {}) /\ InsertItem("post", NewPost(p))
CreatePage(p) == SlugFree("page", Slug(p), {}) /\ InsertItem("page", NewPage(p))
CreateSubscription(u, t) == u \in users /\ InsertItem("subscription", [user |-> u, text |-> t])

\* Nothing in the service writes a message: a row another program inserts.
MessageArrives(t) ==
  InsertItem("message", [text |-> t, read |-> FALSE, reply |-> "none", dated |-> FALSE])

\* session.get, and the assignments
LoadItem(f, i, p) ==
  /\ form[f] = Blank /\ forms < MaxForms
  /\ i \in Items /\ p \in Payloads(item[i].kind)
  /\ forms' = forms + 1
  /\ form' = [form EXCEPT ![f] =
       LET seen == item[i].fields
           new  == Assigned(item[i].kind, seen, p)
       IN [stage |-> "assigned", id |-> i,
           dirty |-> Restrict(new, {x \in DOMAIN new : x = "dated" \/ new[x] # seen[x]})]]
  /\ UNCHANGED <<item, items, users>>

\* The commit.  A row that is gone, and a slug that is taken, fail it.
CommitItem(f) ==
  /\ form[f] # Blank
  /\ LET i     == form[f].id
         dirty == form[f].dirty
     IN item' = IF /\ i \in Items
                   /\ "slug" \in DOMAIN dirty => SlugFree(item[i].kind, dirty.slug, {i})
                THEN [item EXCEPT ![i].fields = Over(dirty, @)]
                ELSE item
  /\ form' = [form EXCEPT ![f] = Blank]
  /\ UNCHANGED <<items, forms, users>>

\* delete_announcement, delete_faq, delete_blog, delete_page, delete_message,
\* delete_subscription: two of one row are no error
DeleteItem(i) ==
  /\ i \in Items /\ item[i].kind # "tool"
  /\ item' = Restrict(item, Items \ {i})
  /\ UNCHANGED <<items, form, forms, users>>

\* An account goes, and its subscriptions with it (ON DELETE CASCADE).
UserGoes(u) ==
  /\ u \in users /\ users' = users \ {u}
  /\ item' = Restrict(item, Items \ {i \in HasKind("subscription") : item[i].fields.user = u})
  /\ UNCHANGED <<items, form, forms>>

CreateStep ==
  \/ "announcement" \in Kinds /\ \E p \in Announcements : CreateAnnouncement(p)
  \/ "faq" \in Kinds /\ \E p \in Faqs : CreateFaq(p)
  \/ "post" \in Kinds /\ \E p \in PostForms : CreateBlog(p)
  \/ "page" \in Kinds /\ \E p \in PostForms : CreatePage(p)
  \/ "message" \in Kinds /\ \E t \in Texts : MessageArrives(t)
  \/ "subscription" \in Kinds /\ \E u \in Users, t \in Texts : CreateSubscription(u, t)

ContentNext ==
  \/ CreateStep
  \/ \E f \in Forms, i \in Items : \E p \in Payloads(item[i].kind) : LoadItem(f, i, p)
  \/ \E f \in Forms : CommitItem(f)
  \/ \E i \in Items : DeleteItem(i)
  \/ \E u \in Users : UserGoes(u)

ContentSpec == ContentInit /\ [][ContentNext]_contentVars

-----------------------------------------------------------------------------
(* Properties.                                                              *)

Dated(i) == item[i].fields.dated

\* Whatever is published has the time it was, and a reply the time it was given,
\* though the time follows from the row a handler loaded and the row may have
\* changed since (services/admin.py:1608, 1729): edits of one row that overlap
\* write their own fields, and publishing writes both.
PublishedIsDated ==
  /\ \A i \in HasKind("announcement") \cup HasKind("post") :
       item[i].fields.status = "published" => Dated(i)
  /\ \A i \in HasKind("message") : item[i].fields.reply # "none" => Dated(i)
=============================================================================
