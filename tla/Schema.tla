-------------------------------- MODULE Schema --------------------------------
(***************************************************************************)
(* The database: the six migrations (migrations/versions), upwards and       *)
(* downwards, as operations on tables, and the models of the code            *)
(* (app/models).  A table is its columns, by how an INSERT may treat them    *)
(* (required; filled in by the database; nullable), its foreign keys, its    *)
(* indexes and the enums it uses.  Types and widths are left out.  One call  *)
(* of alembic runs in one transaction (migrations/env.py).                   *)
(***************************************************************************)
EXTENDS Naturals, Sequences, FiniteSets, SequencesExt, Functions

CONSTANTS
  MaxFilled,     \* bound: tables that hold rows
  MaxMigrations  \* bound: calls of alembic

VARIABLES
  db,            \* [ok, enums, tables]
  revision,      \* migrations applied
  filled,        \* tables that hold rows
  migrations,    \* calls so far (bound)
  refused        \* a migration met a database it cannot be applied to

schemaVars == <<db, revision, filled, migrations, refused>>

-----------------------------------------------------------------------------
(* Tables.                                                                  *)

Empty == [ok |-> TRUE, enums |-> {}, tables |-> <<>>]

Columns(required, defaulted, nullable) ==
  [c \in required \cup defaulted \cup nullable |->
     IF c \in required THEN "required" ELSE IF c \in defaulted THEN "defaulted" ELSE "nullable"]

\* refs: <<column, table, what a deletion does>>
Tab(required, defaulted, nullable) ==
  [columns |-> Columns(required, defaulted, nullable), refs |-> {}, indexed |-> {},
   unique |-> {}, constraints |-> {}, enums |-> {}]

\* Every table but job_files: UUIDPrimaryKeyMixin, TimestampMixin; _timestamps
Row(required, defaulted, nullable) ==
  Tab(required \cup {"id"}, defaulted \cup {"created_at", "updated_at"}, nullable)

To(t, refs) == [t EXCEPT !.refs = refs]
Indexed(t, columns) == [t EXCEPT !.indexed = columns]
UniqueOn(t, columns) == [t EXCEPT !.unique = columns]
Using(t, enums) == [t EXCEPT !.enums = enums]

OfUser(column) == {<<column, "users", "SET NULL">>}

-----------------------------------------------------------------------------
(* Operations.                                                              *)

\* A table comes with its indexes, and goes after the indexes named.
Create(name, t) == [op |-> "create", table |-> name, as |-> t]
Drop(name, indexes) == [op |-> "drop", table |-> name, columns |-> indexes]
Add(name, columns, how) == [op |-> "add", table |-> name, columns |-> columns, how |-> how]
RemoveColumns(name, columns) == [op |-> "remove", table |-> name, columns |-> columns]
Default(name, column, how) == [op |-> "default", table |-> name, columns |-> {column}, how |-> how]
Index(name, columns) == [op |-> "index", table |-> name, columns |-> columns]
Unindex(name, columns) == [op |-> "unindex", table |-> name, columns |-> columns]
Refer(name, refs) == [op |-> "refer", table |-> name, refs |-> refs]
Unrefer(name, columns) == [op |-> "unrefer", table |-> name, columns |-> columns]
Constrain(name, column) == [op |-> "constrain", table |-> name, columns |-> {column}]
Release(name, column) == [op |-> "release", table |-> name, columns |-> {column}]
NewEnums(enums) == [op |-> "enum", enums |-> enums]
OldEnums(enums) == [op |-> "unenum", enums |-> enums]

Known(d, name) == name \in DOMAIN d.tables
IndexesOf(t) == t.indexed \cup t.unique

\* What the database requires of an operation, on table t if it is on one.
Allowed(d, t, full, o) ==
  CASE o.op = "drop"   -> /\ IndexesOf(t) = o.columns
                          /\ \A other \in DOMAIN d.tables \ {o.table} :
                               \A r \in d.tables[other].refs : r[2] # o.table
    [] o.op = "add"    -> /\ o.columns \cap DOMAIN t.columns = {}
                          /\ o.how = "required" => o.table \notin full
    [] o.op \in {"remove", "default", "constrain"} -> o.columns \subseteq DOMAIN t.columns
    [] o.op = "index"  -> /\ o.columns \subseteq DOMAIN t.columns
                          /\ o.columns \cap IndexesOf(t) = {}
    [] o.op = "unindex" -> o.columns \subseteq IndexesOf(t)
    [] o.op = "refer"  -> \A r \in o.refs : r[1] \in DOMAIN t.columns /\ Known(d, r[2])
    [] o.op = "unrefer" -> o.columns \subseteq {r[1] : r \in t.refs}
    [] o.op = "release" -> o.columns \subseteq t.constraints

Applicable(d, full, o) ==
  CASE o.op = "create" -> /\ ~Known(d, o.table)
                          /\ o.as.enums \subseteq d.enums
                          /\ \A r \in o.as.refs : Known(d, r[2])
                          /\ IndexesOf(o.as) \subseteq DOMAIN o.as.columns
    [] o.op = "enum"   -> o.enums \cap d.enums = {}
    [] o.op = "unenum" -> /\ o.enums \subseteq d.enums
                          /\ \A n \in DOMAIN d.tables : d.tables[n].enums \cap o.enums = {}
    [] OTHER           -> Known(d, o.table) /\ Allowed(d, d.tables[o.table], full, o)

\* Columns take their foreign keys and their indexes with them.
WithoutColumns(t, columns) ==
  [t EXCEPT !.columns = Restrict(@, DOMAIN @ \ columns),
            !.refs = {r \in @ : r[1] \notin columns},
            !.indexed = @ \ columns, !.unique = @ \ columns, !.constraints = @ \ columns]

Changed(t, o) ==
  CASE o.op \in {"add", "default"} ->
         [t EXCEPT !.columns = [c \in DOMAIN @ \cup o.columns |-> IF c \in o.columns THEN o.how ELSE @[c]]]
    [] o.op = "remove"    -> WithoutColumns(t, o.columns)
    [] o.op = "index"     -> [t EXCEPT !.indexed = @ \cup o.columns]
    [] o.op = "unindex"   -> [t EXCEPT !.unique = @ \ o.columns, !.indexed = @ \ o.columns]
    [] o.op = "refer"     -> [t EXCEPT !.refs = @ \cup o.refs]
    [] o.op = "unrefer"   -> [t EXCEPT !.refs = {r \in @ : r[1] \notin o.columns}]
    [] o.op = "constrain" -> [t EXCEPT !.constraints = @ \cup o.columns]
    [] o.op = "release"   -> [t EXCEPT !.constraints = @ \ o.columns]

Apply(d, full, o) ==
  IF ~d.ok \/ ~Applicable(d, full, o) THEN [d EXCEPT !.ok = FALSE]
  ELSE CASE o.op = "enum"   -> [d EXCEPT !.enums = @ \cup o.enums]
         [] o.op = "unenum" -> [d EXCEPT !.enums = @ \ o.enums]
         [] o.op = "create" -> [d EXCEPT !.tables = [n \in DOMAIN @ \cup {o.table} |->
                                                       IF n = o.table THEN o.as ELSE @[n]]]
         [] o.op = "drop"   -> [d EXCEPT !.tables = Restrict(@, DOMAIN @ \ {o.table})]
         [] OTHER           -> [d EXCEPT !.tables[o.table] = Changed(@, o)]

Run(d, full, ops) == FoldLeft(LAMBDA e, o : Apply(e, full, o), d, ops)

-----------------------------------------------------------------------------
(* 0001: files and jobs.                                                    *)

FileEnums == {"file_category", "file_status", "job_status", "job_file_role"}
FileIndexes == {"status", "expires_at"}
JobIndexes == {"tool", "status", "expires_at"}

StoredFiles1 == Indexed(Using(Row(
  {"original_name", "stored_name", "category", "relative_path", "media_type",
   "extension", "size_bytes", "status"}, {}, {"checksum_sha256", "expires_at"}),
  {"file_category", "file_status"}), FileIndexes)

ProcessingJobs1 == Indexed(Using(Row(
  {"tool", "status", "progress", "options"}, {},
  {"celery_task_id", "error_code", "error_message", "started_at", "finished_at", "expires_at"}),
  {"job_status"}), JobIndexes)

JobFiles1 == Using(To(Tab({"job_id", "file_id", "role", "position"}, {}, {}),
  {<<"job_id", "processing_jobs", "CASCADE">>, <<"file_id", "stored_files", "CASCADE">>}),
  {"job_file_role"})

Upgrade1 == <<NewEnums(FileEnums), Create("stored_files", StoredFiles1),
              Create("processing_jobs", ProcessingJobs1), Create("job_files", JobFiles1)>>
Downgrade1 == <<Drop("job_files", {}), Drop("processing_jobs", JobIndexes),
                Drop("stored_files", FileIndexes), OldEnums(FileEnums)>>

(* 0002: users, and the owners of files and jobs.                           *)

Users2 == [UniqueOn(Row({"name", "email", "password_hash"}, {"plan"},
                        {"avatar", "email_verified_at"}), {"email"})
             EXCEPT !.constraints = {"email"}]

Owner(name) == <<Add(name, {"user_id"}, "nullable"), Refer(name, OfUser("user_id")),
                 Index(name, {"user_id"})>>
Upgrade2 == <<Create("users", Users2)>> \o Owner("stored_files") \o Owner("processing_jobs")

NoOwner(name) == <<Unindex(name, {"user_id"}), Unrefer(name, {"user_id"}), RemoveColumns(name, {"user_id"})>>
Downgrade2 == NoOwner("processing_jobs") \o NoOwner("stored_files") \o <<Drop("users", {"email"})>>

(* 0003: feedback.                                                          *)

FeedbackIndexes == {"email", "user_id", "created_at"}
Feedback3 == Indexed(Using(To(Row({"name", "email", "category", "message"}, {},
  {"subject", "attachment_name", "attachment_content_type", "attachment_size",
   "attachment_data", "client_ip", "user_id"}), OfUser("user_id")),
  {"feedback_category"}), FeedbackIndexes)

Upgrade3 == <<NewEnums({"feedback_category"}), Create("feedback", Feedback3)>>
Downgrade3 == <<Drop("feedback", FeedbackIndexes), OldEnums({"feedback_category"})>>

(* 0004: the admin panel.                                                   *)

\* Mutant: the defaults are left to the code.
AdminColumnsMutant == <<Add("users", {"is_admin", "status"}, "required")>>

\* "additive, backfilled by default"
AdminColumns == <<Add("users", {"is_admin", "status"}, "defaulted")>>

AuditIndexes == {"actor_id", "action", "category", "created_at"}
AuditLogs4 == Indexed(To(Row({"action", "summary"}, {"category", "meta"},
  {"actor_id", "actor_email", "entity_type", "entity_id", "ip"}), OfUser("actor_id")), AuditIndexes)
AppSettings4 == UniqueOn(To(Row({"key"}, {"value", "category"}, {"updated_by"}),
  OfUser("updated_by")), {"key"})
ToolConfigs4 == UniqueOn(Row({"slug", "name"},
  {"category", "enabled", "visible", "maintenance", "file_limit_mb", "sort_order"}, {}), {"slug"})
Announcements4 == To(Row({"title", "body"}, {"status", "audience"}, {"author_id", "published_at"}),
  OfUser("author_id"))
Faqs4 == Row({"question", "answer"}, {"sort_order", "published"}, {"category"})
BlogPosts4 == UniqueOn(To(Row({"title", "slug"}, {"content", "status", "views"},
  {"excerpt", "cover_image", "author_id", "published_at"}), OfUser("author_id")), {"slug"})
ContentPages4 == UniqueOn(Row({"title", "slug", "path"}, {"status"},
  {"content", "meta_title", "meta_description"}), {"slug"})
MessageIndexes == {"email", "created_at"}
ContactMessages4 == Indexed(To(Row({"name", "email", "message"}, {"is_read"},
  {"subject", "reply", "replied_at", "user_id", "client_ip"}), OfUser("user_id")), MessageIndexes)
Subscriptions4 == Indexed(To(Row({"user_id", "plan"},
  {"price_cents", "currency", "interval", "status", "provider", "payments_count"},
  {"provider_ref", "started_at", "renews_at"}), {<<"user_id", "users", "CASCADE">>}), {"user_id"})
ErrorIndexes == {"fingerprint", "created_at"}
ErrorLogs4 == Indexed(Row({"message"}, {"level", "count", "resolved"},
  {"service", "path", "stack", "fingerprint", "last_seen_at"}), ErrorIndexes)

Upgrade4 == AdminColumns \o
  <<Create("admin_audit_logs", AuditLogs4), Create("app_settings", AppSettings4),
    Create("tool_configs", ToolConfigs4), Create("announcements", Announcements4),
    Create("faqs", Faqs4), Create("blog_posts", BlogPosts4),
    Create("content_pages", ContentPages4), Create("contact_messages", ContactMessages4),
    Create("subscriptions", Subscriptions4), Create("error_logs", ErrorLogs4)>>

Downgrade4 ==
  <<Drop("error_logs", ErrorIndexes), Drop("subscriptions", {"user_id"}),
    Drop("contact_messages", MessageIndexes), Drop("content_pages", {"slug"}),
    Drop("blog_posts", {"slug"}), Drop("faqs", {}), Drop("announcements", {}),
    Drop("tool_configs", {"slug"}), Drop("app_settings", {"key"}),
    Drop("admin_audit_logs", AuditIndexes), RemoveColumns("users", {"status", "is_admin"})>>

(* 7c44: visits; 90e5: where jobs come from.                                *)

VisitIndexes == {"created_at", "path", "session_id", "visitor_id"}
PageVisits5 == Indexed(Row({"visitor_id", "session_id", "path"}, {"is_returning"},
  {"referrer", "device", "browser", "os", "country", "source"}), VisitIndexes)

Upgrade5 == <<Create("page_visits", PageVisits5), Default("blog_posts", "content", "required"),
              Default("users", "plan", "required"), Release("users", "email")>>
Downgrade5 == <<Constrain("users", "email"), Default("users", "plan", "defaulted"),
                Default("blog_posts", "content", "defaulted"), Drop("page_visits", VisitIndexes)>>

JobOrigin == {"visitor_id", "session_id", "device", "browser", "os", "country", "source"}
Upgrade6 == <<Add("processing_jobs", JobOrigin, "nullable"),
              Add("processing_jobs", {"is_returning"}, "defaulted"),
              Index("processing_jobs", JobOrigin)>>
Downgrade6 == <<Unindex("processing_jobs", JobOrigin),
                RemoveColumns("processing_jobs", JobOrigin \cup {"is_returning"})>>

Up == <<Upgrade1, Upgrade2, Upgrade3, Upgrade4, Upgrade5, Upgrade6>>
Down == <<Downgrade1, Downgrade2, Downgrade3, Downgrade4, Downgrade5, Downgrade6>>

-----------------------------------------------------------------------------
(* The models.                                                              *)

StoredFile == Using(Indexed(To(Row(
  {"original_name", "stored_name", "category", "relative_path", "media_type", "extension",
   "size_bytes", "status"}, {}, {"checksum_sha256", "user_id", "expires_at"}),
  OfUser("user_id")), {"status", "user_id", "expires_at"}), {"file_category", "file_status"})
ProcessingJob == Using(Indexed(To(Row(
  {"tool", "status", "progress", "options"}, {"is_returning"},
  {"celery_task_id", "user_id", "error_code", "error_message", "started_at", "finished_at",
   "expires_at", "visitor_id", "session_id", "device", "browser", "os", "country", "source"}),
  OfUser("user_id")), {"tool", "status", "user_id", "expires_at", "visitor_id", "session_id",
   "device", "browser", "os", "country", "source"}), {"job_status"})
JobFile == Using(To(Tab({"job_id", "file_id", "role", "position"}, {}, {}),
  {<<"job_id", "processing_jobs", "CASCADE">>, <<"file_id", "stored_files", "CASCADE">>}),
  {"job_file_role"})
User == UniqueOn(Row({"name", "email", "password_hash", "plan"}, {"is_admin", "status"},
  {"avatar", "email_verified_at"}), {"email"})
Feedback == Using(Indexed(To(Row({"name", "email", "category", "message"}, {},
  {"subject", "attachment_name", "attachment_content_type", "attachment_size",
   "attachment_data", "client_ip", "user_id"}), OfUser("user_id")),
  {"email", "user_id", "created_at"}), {"feedback_category"})
PageVisit == Indexed(Row({"visitor_id", "session_id", "path"}, {"is_returning"},
  {"referrer", "device", "browser", "os", "country", "source"}),
  {"visitor_id", "session_id", "path", "created_at"})
AdminAuditLog == Indexed(To(Row({"action", "summary"}, {"category", "meta"},
  {"actor_id", "actor_email", "entity_type", "entity_id", "ip"}), OfUser("actor_id")),
  {"actor_id", "action", "category", "created_at"})
AppSetting == UniqueOn(To(Row({"key"}, {"value", "category"}, {"updated_by"}),
  OfUser("updated_by")), {"key"})
ToolConfig == UniqueOn(Row({"slug", "name"},
  {"category", "enabled", "visible", "maintenance", "file_limit_mb", "sort_order"}, {}), {"slug"})
Announcement == To(Row({"title", "body"}, {"status", "audience"},
  {"author_id", "published_at"}), OfUser("author_id"))
Faq == Row({"question", "answer"}, {"sort_order", "published"}, {"category"})
BlogPost == UniqueOn(To(Row({"title", "slug", "content"}, {"status", "views"},
  {"excerpt", "cover_image", "author_id", "published_at"}), OfUser("author_id")), {"slug"})
ContentPage == UniqueOn(Row({"title", "slug", "path"}, {"status"},
  {"content", "meta_title", "meta_description"}), {"slug"})
ContactMessage == Indexed(To(Row({"name", "email", "message"}, {"is_read"},
  {"subject", "reply", "replied_at", "user_id", "client_ip"}), OfUser("user_id")),
  {"email", "created_at"})
Subscription == Indexed(To(Row({"user_id", "plan"},
  {"price_cents", "currency", "interval", "status", "provider", "payments_count"},
  {"provider_ref", "started_at", "renews_at"}), {<<"user_id", "users", "CASCADE">>}), {"user_id"})
ErrorRow == Indexed(Row({"message"}, {"level", "count", "resolved"},
  {"service", "path", "stack", "fingerprint", "last_seen_at"}), {"fingerprint", "created_at"})

Models == [stored_files |-> StoredFile, processing_jobs |-> ProcessingJob,
  job_files |-> JobFile, users |-> User, feedback |-> Feedback, page_visits |-> PageVisit,
  admin_audit_logs |-> AdminAuditLog, app_settings |-> AppSetting, tool_configs |-> ToolConfig,
  announcements |-> Announcement, faqs |-> Faq, blog_posts |-> BlogPost,
  content_pages |-> ContentPage, contact_messages |-> ContactMessage,
  subscriptions |-> Subscription, error_logs |-> ErrorRow]

-----------------------------------------------------------------------------
(* Behaviour.                                                               *)

SchemaInit ==
  /\ db = Empty /\ revision = 0 /\ filled = {} /\ migrations = 0 /\ refused = FALSE

\* Rows come into a table; one that is referred to may stay without.
Fills(t) ==
  /\ t \in DOMAIN db.tables /\ Cardinality(filled \cup {t}) <= MaxFilled
  /\ filled' = filled \cup {t}
  /\ UNCHANGED <<db, revision, migrations, refused>>

\* alembic upgrade, or downgrade, to a revision: all of it or nothing
Migrates(ops, to) ==
  /\ migrations < MaxMigrations /\ migrations' = migrations + 1
  /\ LET after == Run(db, filled, ops)
     IN IF after.ok
        THEN /\ db' = after /\ revision' = to
             /\ filled' = filled \cap DOMAIN after.tables
             /\ UNCHANGED refused
        ELSE refused' = TRUE /\ UNCHANGED <<db, revision, filled>>

Upgrade(to) ==
  /\ to \in revision + 1 .. Len(Up)
  /\ Migrates(FlattenSeq(SubSeq(Up, revision + 1, to)), to)

Downgrade(to) ==
  /\ to \in 0 .. revision - 1
  /\ Migrates(FlattenSeq(Reverse(SubSeq(Down, to + 1, revision))), to)

SchemaNext ==
  \/ \E t \in DOMAIN db.tables : Fills(t)
  \/ \E to \in 0..Len(Up) : Upgrade(to) \/ Downgrade(to)

-----------------------------------------------------------------------------
(* Properties.                                                              *)

SchemaAt(n) == Run(Empty, {}, FlattenSeq(SubSeq(Up, 1, n)))

\* Upwards and downwards, one by one or many at once, and whatever the tables
\* hold, every migration can be applied: it adds no required column to a table
\* with rows, refers to nothing that is not there, and drops nothing that is in
\* use.  Going down undoes what going up did, and the newest database is the one
\* the models describe, so that no INSERT leaves a required column out
\* (migrations/versions; "Everything here is additive", 0004).
MigrationsFit ==
  /\ ~refused
  /\ db = SchemaAt(revision)
  /\ revision = Len(Up) => db.tables = Models
=============================================================================
