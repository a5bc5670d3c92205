------------------------------- MODULE Schema -------------------------------
(***************************************************************************)
(* The tables of initial_schema with their foreign keys, in the order the   *)
(* migration creates them, and the lists of tables under row-level          *)
(* security.  Columns, types and indexes are left out.                      *)
(***************************************************************************)
EXTENDS Sequences, SequencesExt

T(table, refs) == [table |-> table, refs |-> refs]

\* What a foreign key does when the row it names is deleted.
With(t) == <<t, "CASCADE">>
\* Mutant: a key that should be emptied cascades.
WithoutMistaken(t) == <<t, "CASCADE">>
Without(t) == <<t, "SET NULL">>
Never(t) == <<t, "RESTRICT">>
Owner == With("companies")

TablesA ==
    <<T("companies", {}), T("plans", {}), T("roles", {}),
      T("automations", {Owner}), T("channels", {Owner}), T("chatbot_flows", {Owner}),
      T("custom_fields", {Owner}), T("glossary_terms", {Owner})>>
TablesB ==
    <<T("landing_pages", {Owner}), T("message_templates", {Owner}), T("pipelines", {Owner}),
      T("product_categories", {Owner}), T("shipping_providers", {Owner}),
      T("subscriptions", {Owner, Never("plans")}), T("surveys", {Owner}), T("tags", {Owner})>>
TablesC ==
    <<T("users", {Owner}), T("web_chat_widgets", {Owner}),
      T("api_keys", {Owner, Without("users")}), T("audit_logs", {Owner, Without("users")}),
      T("automation_actions", {With("automations")}),
      T("automation_logs", {Owner, With("automations")})>>
TablesD ==
    <<T("campaigns", {Owner, Without("users")}), T("contacts", {Owner, Without("users")}),
      T("invoices", {Owner, Without("subscriptions")}),
      T("pipeline_stages", {With("pipelines")}),
      T("products", {Owner, Without("product_categories")}),
      T("user_roles", {With("users"), With("roles")})>>
TablesE ==
    <<T("campaign_recipients", {With("campaigns"), With("contacts")}),
      T("contact_tags", {With("contacts"), With("tags")}),
      T("conversations", {Owner, With("contacts"), Without("users")}),
      T("custom_field_values", {With("contacts"), With("custom_fields")}),
      T("deals", {Owner, Without("users"), Without("contacts"), With("pipelines"),
                  Without("pipeline_stages")}),
      T("payments", {Owner, Without("invoices")}),
      T("survey_responses", {Owner, Without("contacts"), With("surveys")}),
      T("ai_conversation_contexts", {Owner, With("conversations")})>>
TablesF ==
    <<T("deal_activities", {With("deals"), Without("users")}),
      T("messages", {Owner, With("conversations")}),
      T("routing_decisions", {Owner, Without("users"), Without("contacts"),
                              With("conversations")}),
      T("shipments", {Owner, Without("contacts"), Without("deals"),
                      Without("shipping_providers")}),
      T("shipment_tracking_events", {With("shipments")})>>

Created == TablesA \o TablesB \o TablesC \o TablesD \o TablesE \o TablesF
Tables == {Created[k].table : k \in DOMAIN Created}
Refs(t) == (CHOOSE k \in ToSet(Created) : k.table = t).refs
Parents(t) == {r[1] : r \in Refs(t)}

\* The downgrade names every table in the opposite order.
Dropped == Reverse([k \in DOMAIN Created |-> Created[k].table])

\* Mutant: a name that no table has.
TENANT_TABLES_Misspelt == {"contacts", "conversation", "users"}
(* enable_rls_on_tenant_tables lists them by hand ...                       *)
TENANT_TABLES ==
    {"ai_conversation_contexts", "api_keys", "audit_logs", "automation_logs", "automations",
     "campaigns", "channels", "chatbot_flows", "contacts", "conversations", "custom_fields",
     "deals", "glossary_terms", "invoices", "landing_pages", "message_templates", "messages",
     "payments", "pipelines", "product_categories", "products", "routing_decisions",
     "shipments", "shipping_providers", "subscriptions", "survey_responses", "surveys", "tags",
     "users", "web_chat_widgets"}

(* ... and so do, without users, a later migration and the compliance page. *)
EXPECTED_RLS_TABLES == TENANT_TABLES \ {"users"}

(* The tables whose rows go with a row of table t: by the keys that         *)
(* cascade, over any number of them.                                        *)
GoesWith(Ts) == Ts \cup {t \in Tables : \E p \in Ts : With(p) \in Refs(t)}
DeletedWith(t) == GoesWith(GoesWith(GoesWith({t})))
=============================================================================
