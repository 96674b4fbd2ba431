------------------------------- MODULE MCService -------------------------------
(* The service around the tools, for TLC: accounts, limits, settings, the log  *)
(* of errors, what admins keep for the site, and the migrations.  The parts    *)
(* share no state; a behaviour is one of one of them, and the others rest.     *)
EXTENDS Accounts, Limits, Settings, ErrorLog, Content, Schema

CONSTANTS w1, w2  \* the two handlers, or processes, of each part

VARIABLE part

vars == <<part, accountVars, limitVars, settingVars, errorVars, contentVars, schemaVars>>

MCNormal == "Ann" :> "ann" @@ "ann" :> "ann" @@ "root" :> "root"

\* A form of its visitor's, and a copy sent under the address in lower case.
MCForm == [mailbox |-> "Ann", attachment |-> "image", trap |-> FALSE, signed |-> TRUE,
           age |-> 1, solved |-> TRUE, category |-> "known"]
MCPosts == {MCForm, [MCForm EXCEPT !.mailbox = "ann", !.age = 0]}
MCCanonical == "Ann" :> "ann" @@ "ann" :> "ann"
MCLimits == [b \in Buckets |-> IF b = "upload" THEN 0 ELSE 1]

MCDefaults == "branding" :> (<<"logo">> :> "a" @@ <<"social", "x">> :> "b"
                               @@ <<"social", "y">> :> "c")
                @@ "auth" :> (<<"session">> :> "30")
MCOverrides == {<<"branding", <<"social", "x">> :> "d">>,
                <<"branding", <<"social">> :> "none">>}

MCSlugify == [t \in Texts |-> "s"]

\* No part tells its handlers apart.
Symmetry == Permutations({w1, w2})

\* The updates of settings and the account of ADMIN_EMAIL do not meet: starts
\* meet the updates in one part, and what becomes of the account in another.
Init == /\ part \in {"accounts", "limits", "settings", "starts", "errors", "content",
                     "schema"}
        /\ AccountsInit /\ LimitsInit /\ SettingsInit
        /\ ErrorsInit /\ ContentInit /\ SchemaInit
        /\ part # "starts" => configured = {}

AccountsStep ==
  /\ part = "accounts" /\ AccountsNext
  /\ UNCHANGED <<part, limitVars, settingVars, errorVars, contentVars, schemaVars>>
LimitsStep ==
  /\ part = "limits" /\ LimitsNext
  /\ UNCHANGED <<part, accountVars, settingVars, errorVars, contentVars, schemaVars>>
SettingsStep ==
  /\ part = "settings" /\ SettingsNext
  /\ UNCHANGED <<part, accountVars, limitVars, errorVars, contentVars, schemaVars>>
StartsStep ==
  /\ part = "starts" /\ SettingsNext /\ UNCHANGED <<editor, edits>>
  /\ UNCHANGED <<part, accountVars, limitVars, errorVars, contentVars, schemaVars>>
ErrorsStep ==
  /\ part = "errors" /\ ErrorsNext
  /\ UNCHANGED <<part, accountVars, limitVars, settingVars, contentVars, schemaVars>>
ContentStep ==
  /\ part = "content" /\ ContentNext
  /\ UNCHANGED <<part, accountVars, limitVars, settingVars, errorVars, schemaVars>>
SchemaStep ==
  /\ part = "schema" /\ SchemaNext
  /\ UNCHANGED <<part, accountVars, limitVars, settingVars, errorVars, contentVars>>

Next == AccountsStep \/ LimitsStep \/ SettingsStep \/ StartsStep
          \/ ErrorsStep \/ ContentStep \/ SchemaStep

Spec == Init /\ [][Next]_vars
=============================================================================
