---------------------------- MODULE SchemaHistory ----------------------------
(***************************************************************************)
(* The database schema as its 33 migrations make it                        *)
(* (src/database/migration_manager.ts/migration.ts).  A migration is two   *)
(* sequences of statements, `up` and `down`; its version is its place in   *)
(* the list, for the list is in the order of the version numbers.          *)
(*                                                                         *)
(* A schema is a set of objects: <<"table", t>>, a column added later      *)
(* <<"column", t, c>>, an index <<"index", t, i>> and a foreign key        *)
(* <<"key", t, c, parent, rule>>, where the rule says what deleting the    *)
(* parent's row does.  Types, defaults and checks are left out, and so is  *)
(* the index of doc_vecs, a table no migration makes.                      *)
(***************************************************************************)
EXTENDS Integers, Sequences

CONSTANT HasTrigrams  \* whether the database offers the extension pg_trgm

ASSUME SchemaAssumption == HasTrigrams \in BOOLEAN

\* Statements.  refs is a set of <<column, parent, rule>>.
Table(t, refs)     == [op |-> "table", t |-> t, x |-> t, refs |-> refs]
Column(t, c, refs) == [op |-> "column", t |-> t, x |-> c, refs |-> refs]
Index(t, i)        == [op |-> "index", t |-> t, x |-> i, refs |-> {}]
DropTable(t)       == [op |-> "drop table", t |-> t, x |-> t, refs |-> {}]
DropAll(t)         == [op |-> "drop table cascade", t |-> t, x |-> t, refs |-> {}]
DropColumn(t, c)   == [op |-> "drop column", t |-> t, x |-> c, refs |-> {}]
DropIndex(i)       == [op |-> "drop index", t |-> "", x |-> i, refs |-> {}]

Tables(objs) == {o[2] : o \in {x \in objs : x[1] = "table"}}
Keys(objs)   == {o \in objs : o[1] = "key"}

\* Whether PostgreSQL carries a statement out, and what it leaves.  Every
\* statement that can be repeated says IF [NOT] EXISTS.
Possible(s, objs) ==
  CASE s.op = "table"      -> {r[2] : r \in s.refs} \subseteq Tables(objs) \union {s.t}
    [] s.op = "column"     -> {r[2] : r \in s.refs} \union {s.t} \subseteq Tables(objs)
    [] s.op = "index"      -> s.t \in Tables(objs)
    [] s.op = "drop table" -> \A k \in Keys(objs) : k[4] = s.t => k[2] = s.t
    [] OTHER               -> TRUE

Result(s, objs) ==
  CASE s.op = "table" /\ s.t \in Tables(objs) -> objs
    [] s.op \in {"table", "column"} ->
         objs \union {IF s.op = "table" THEN <<"table", s.t>> ELSE <<"column", s.t, s.x>>}
              \union {<<"key", s.t, r[1], r[2], r[3]>> : r \in s.refs}
    [] s.op = "index" -> objs \union {<<"index", s.t, s.x>>}
    [] s.op \in {"drop table", "drop table cascade"} ->
         {o \in objs : o[2] # s.t /\ ~(o[1] = "key" /\ o[4] = s.t)}
    [] s.op = "drop column" ->
         {o \in objs : ~(o[1] \in {"column", "key"} /\ o[2] = s.t /\ o[3] = s.x)}
    [] s.op = "drop index" -> {o \in objs : ~(o[1] = "index" /\ o[3] = s.x)}

Plain == {}
Cascade(c, t) == {<<c, t, "cascade">>}
SetNull(c, t) == {<<c, t, "set null">>}

-----------------------------------------------------------------------------
ChatMigrations == <<
  [up |-> << Table("sessions", Plain), Table("chat_messages", Cascade("session_id", "sessions")),
             Index("chat_messages", "session_id"), Index("chat_messages", "role"),
             Index("chat_messages", "type"), Index("chat_messages", "created_at"),
             Index("chat_messages", "content"), Index("chat_messages", "metadata") >>,
   down |-> << DropAll("chat_messages"), DropAll("sessions") >>],
  [up |-> << Column("sessions", "userid", Plain), Index("sessions", "userid") >>,
   down |-> << DropIndex("userid"), DropColumn("sessions", "userid") >>],
  [up |-> << DropIndex("content"), DropIndex("metadata"), DropIndex("role"), DropIndex("type"),
             DropIndex("session_id"), Index("chat_messages", "session_order"),
             DropIndex("userid"), Index("sessions", "userid_updated") >>,
   down |-> << DropIndex("userid_updated"), Index("sessions", "userid"),
               DropIndex("session_order"), Index("chat_messages", "session_id"),
               Index("chat_messages", "type"), Index("chat_messages", "role"),
               Index("chat_messages", "metadata"), Index("chat_messages", "content") >>],
  [up |-> << Table("whatsapp_links", SetNull("active_session_id", "sessions")),
             Table("whatsapp_link_codes", Cascade("session_id", "sessions")),
             Index("whatsapp_link_codes", "wa_codes_user"), Column("sessions", "source", Plain) >>,
   down |-> << DropColumn("sessions", "source"), DropTable("whatsapp_link_codes"),
               DropTable("whatsapp_links") >>] >>

AgentMigrations == <<
  [up |-> << Table("agents", Plain), Index("agents", "agents_user"),
             Table("agent_functions", Cascade("agent_id", "agents")),
             Table("agent_mcp_servers", Cascade("agent_id", "agents")),
             Table("agent_schedules", Cascade("agent_id", "agents") \union SetNull("session_id", "sessions")),
             Index("agent_schedules", "schedules_due"),
             Table("agent_runs", Cascade("schedule_id", "agent_schedules") \union Cascade("agent_id", "agents")),
             Index("agent_runs", "runs_agent"),
             Column("sessions", "agent_id", SetNull("agent_id", "agents")) >>,
   down |-> << DropColumn("sessions", "agent_id"), DropTable("agent_runs"),
               DropTable("agent_schedules"), DropTable("agent_mcp_servers"),
               DropTable("agent_functions"), DropTable("agents") >>],
  [up |-> << Column("agents", "instruction_files", Plain) >>,
   down |-> << DropColumn("agents", "instruction_files") >>] >>

PipelineMigrations == <<
  [up |-> << Table("agent_code_functions", Cascade("agent_id", "agents")),
             Table("pipelines", Plain), Index("pipelines", "pipelines_user"),
             Table("pipeline_runs", Cascade("pipeline_id", "pipelines")),
             Index("pipeline_runs", "pipeline_runs_pipeline") >>,
   down |-> << DropTable("pipeline_runs"), DropTable("pipelines"), DropTable("agent_code_functions") >>] >>

\* Faulty variant, for mutation checks: deleting a chat deletes what it cost, too.
UsageGoesWithTheChat == <<
  [up |-> << Table("token_usage", Cascade("session_id", "sessions")) >>,
   down |-> << DropTable("token_usage") >>] >>

UsageMigrations == <<
  [up |-> << Table("token_usage", SetNull("session_id", "sessions")),
             Index("token_usage", "usage_user_time"), Index("token_usage", "usage_session") >>,
   down |-> << DropTable("token_usage") >>] >>

NativeMigrations == <<
  [up |-> << Table("native_agents", Plain), Index("native_agents", "native_agents_user"),
             Column("sessions", "native_agent_id", SetNull("native_agent_id", "native_agents")),
             Column("sessions", "remote_session_id", Plain),
             Table("user_settings", Plain), Table("native_provider_state", Plain) >>,
   down |-> << DropTable("native_provider_state"), DropTable("user_settings"),
               DropColumn("sessions", "remote_session_id"), DropColumn("sessions", "native_agent_id"),
               DropTable("native_agents") >>],
  [up |-> << Table("native_agent_functions", Cascade("agent_id", "native_agents")),
             Table("native_agent_code_functions", Cascade("agent_id", "native_agents")) >>,
   down |-> << DropTable("native_agent_code_functions"), DropTable("native_agent_functions") >>],
  [up |-> << Table("whatsapp_away", Plain), Table("whatsapp_away_replies", Plain) >>,
   down |-> << DropTable("whatsapp_away_replies"), DropTable("whatsapp_away") >>],
  [up |-> << Column("native_agents", "browser", Plain) >>,
   down |-> << DropColumn("native_agents", "browser") >>] >>

BillingMigrations == <<
  [up |-> << Table("billing_accounts", Plain), Table("billing_subscriptions", Plain),
             Index("billing_subscriptions", "subscriptions_user"), Table("billing_payments", Plain),
             Index("billing_payments", "payments_user"), Table("billing_events", Plain) >>,
   down |-> << DropTable("billing_events"), DropTable("billing_payments"),
               DropTable("billing_subscriptions"), DropTable("billing_accounts") >>],
  [up |-> << Index("sessions", "sessions_agent"), Index("sessions", "sessions_native_agent") >>
          \o (IF HasTrigrams THEN << Index("chat_messages", "content_trgm"), Index("sessions", "title_trgm") >>
                             ELSE << >>),
   down |-> << DropIndex("title_trgm"), DropIndex("content_trgm"),
               DropIndex("sessions_native_agent"), DropIndex("sessions_agent") >>] >>

KeyMigrations == <<
  [up |-> << Table("user_llm_keys", Plain), Index("user_llm_keys", "llm_keys_user"),
             Column("token_usage", "byok", Plain), Column("token_usage", "key_id", Plain),
             Table("app_settings", Plain) >>,
   down |-> << DropTable("app_settings"), DropColumn("token_usage", "key_id"),
               DropColumn("token_usage", "byok"), DropTable("user_llm_keys") >>] >>

ArtifactMigrations == <<
  [up |-> << Table("artifacts", Plain), Index("artifacts", "artifacts_user"), Index("artifacts", "artifacts_session"),
             Table("artifact_versions", Cascade("artifact_id", "artifacts")) >>,
   down |-> << DropTable("artifact_versions"), DropTable("artifacts") >>],
  [up |-> << Column("sessions", "pinned_at", Plain), Index("sessions", "sessions_pinned") >>,
   down |-> << DropIndex("sessions_pinned"), DropColumn("sessions", "pinned_at") >>] >>

MemoryMigrations == <<
  [up |-> << Table("session_summaries", Cascade("session_id", "sessions")) >>,
   down |-> << DropTable("session_summaries") >>],
  [up |-> << Table("user_memories", SetNull("session_id", "sessions")), Index("user_memories", "memories_user"),
             Table("user_memory_settings", Plain) >>,
   down |-> << DropTable("user_memory_settings"), DropTable("user_memories") >>] >>

SkillMigrations == <<
  [up |-> << Table("channel_links", SetNull("active_session_id", "sessions")),
             Table("channel_link_codes", Cascade("session_id", "sessions")),
             Index("channel_link_codes", "channel_codes_user") >>,
   down |-> << DropTable("channel_link_codes"), DropTable("channel_links") >>],
  [up |-> << Table("skills", Plain), Index("skills", "skills_user"),
             Column("agents", "skill_mode", Plain), Column("agents", "skill_ids", Plain),
             Column("pipelines", "flow", Plain), Column("pipeline_runs", "state", Plain),
             Index("pipeline_runs", "pipeline_runs_waiting") >>,
   down |-> << DropIndex("pipeline_runs_waiting"), DropColumn("pipeline_runs", "state"),
               DropColumn("pipelines", "flow"), DropColumn("agents", "skill_ids"),
               DropColumn("agents", "skill_mode"), DropTable("skills") >>],
  [up |-> << Table("generated_files", SetNull("session_id", "sessions")), Index("generated_files", "files_user"),
             Table("document_styles", Plain) >>,
   down |-> << DropTable("document_styles"), DropTable("generated_files") >>] >>

MarketMigrations == <<
  [up |-> << Table("market_wallets", Plain), Table("market_ledger", Plain),
             Index("market_ledger", "ledger_user"), Index("market_ledger", "ledger_time"),
             Index("market_ledger", "uq_ledger_payment"), Table("market_orders", Plain),
             Index("market_orders", "orders_user"), Table("market_api_keys", Plain),
             Index("market_api_keys", "api_keys_user"), Table("market_favorites", Plain) >>,
   down |-> << DropTable("market_favorites"), DropTable("market_api_keys"), DropTable("market_orders"),
               DropTable("market_ledger"), DropTable("market_wallets") >>],
  [up |-> << Table("market_providers", Plain), Table("market_models", Plain),
             Table("market_offers", Cascade("model_id", "market_models")
                                    \union Cascade("provider_id", "market_providers")),
             Index("market_offers", "offers_model"), Column("market_ledger", "provider", Plain) >>,
   down |-> << DropColumn("market_ledger", "provider"), DropTable("market_offers"),
               DropTable("market_models"), DropTable("market_providers") >>] >>

StudioMigrations == <<
  [up |-> << Table("market_provider_stats", Plain), Index("market_provider_stats", "stats_hour") >>,
   down |-> << DropTable("market_provider_stats") >>],
  [up |-> << Table("market_discovered", Cascade("provider_id", "market_providers")),
             Index("market_discovered", "discovered_status"), Column("market_providers", "budget_usd", Plain),
             Column("market_providers", "last_synced_at", Plain), Column("market_providers", "sync_error", Plain) >>,
   down |-> << DropColumn("market_providers", "sync_error"), DropColumn("market_providers", "last_synced_at"),
               DropColumn("market_providers", "budget_usd"), DropTable("market_discovered") >>],
  [up |-> << Table("studio_projects", SetNull("pipeline_id", "pipelines")),
             Index("studio_projects", "studio_user"), Index("studio_projects", "uq_studio_command"),
             Index("studio_projects", "studio_due"), Index("studio_projects", "studio_pipeline") >>,
   down |-> << DropTable("studio_projects") >>] >>

AutomationMigrations == <<
  [up |-> << Table("tasks", Plain), Index("tasks", "tasks_user"), Index("tasks", "tasks_due"),
             Table("web_watchers", Plain), Index("web_watchers", "watchers_user"),
             Index("web_watchers", "watchers_due"), Table("automation_alerts", Plain),
             Index("automation_alerts", "alerts_user"), Table("automation_settings", Plain) >>,
   down |-> << DropTable("automation_settings"), DropTable("automation_alerts"),
               DropTable("web_watchers"), DropTable("tasks") >>],
  [up |-> << Column("agents", "helper_agent_ids", Plain) >>,
   down |-> << DropColumn("agents", "helper_agent_ids") >>],
  [up |-> << Column("agent_schedules", "deliver_email", Plain), Column("agent_schedules", "email_to", Plain),
             Table("email_log", Plain), Index("email_log", "email_log_user") >>,
   down |-> << DropTable("email_log"), DropColumn("agent_schedules", "email_to"),
               DropColumn("agent_schedules", "deliver_email") >>] >>

WorkspaceMigrations == <<
  [up |-> << Table("workspaces", Plain), Table("workspace_members", Cascade("workspace_id", "workspaces")),
             Index("workspace_members", "members_user"), Index("workspace_members", "uq_one_owner"),
             Table("workspace_invites", Cascade("workspace_id", "workspaces")),
             Index("workspace_invites", "invites_ws"),
             Table("workspace_audit", Cascade("workspace_id", "workspaces")), Index("workspace_audit", "audit_ws"),
             Column("agents", "workspace_id", Cascade("workspace_id", "workspaces")),
             Index("agents", "agents_workspace"), Index("agents", "agents_personal") >>,
   down |-> << DropIndex("agents_personal"), DropIndex("agents_workspace"), DropColumn("agents", "workspace_id"),
               DropTable("workspace_audit"), DropTable("workspace_invites"),
               DropTable("workspace_members"), DropTable("workspaces") >>],
  [up |-> << Table("skill_files", Cascade("skill_id", "skills")), Column("skills", "license", Plain),
             Column("skills", "source", Plain) >>,
   down |-> << DropColumn("skills", "source"), DropColumn("skills", "license"), DropTable("skill_files") >>],
  [up |-> << Column("agents", "limits", Plain) >>, down |-> << DropColumn("agents", "limits") >>] >>

Migrations ==
  ChatMigrations \o AgentMigrations \o PipelineMigrations \o UsageMigrations \o NativeMigrations \o BillingMigrations
    \o KeyMigrations \o ArtifactMigrations \o MemoryMigrations \o SkillMigrations \o MarketMigrations \o StudioMigrations
    \o AutomationMigrations \o WorkspaceMigrations

SchemaVersions == 1 .. Len(Migrations)

-----------------------------------------------------------------------------
\* A sequence of statements in one transaction: it stops at the first that fails.
RunAll(stmts, objs) ==
  LET run[n \in 0 .. Len(stmts)] ==
        IF n = 0 THEN [ok |-> TRUE, objs |-> objs]
        ELSE LET last == run[n - 1]
             IN IF last.ok /\ Possible(stmts[n], last.objs)
                THEN [ok |-> TRUE, objs |-> Result(stmts[n], last.objs)]
                ELSE [ok |-> FALSE, objs |-> objs]
  IN run[Len(stmts)]

\* The schema after the first n migrations.  The one before is bound to a name
\* so that TLC has computed it when the migration begins.
SchemaAt[n \in 0 .. Len(Migrations)] ==
  IF n = 0 THEN {}
  ELSE UNION {RunAll(Migrations[n].up, before).objs : before \in {SchemaAt[n - 1]}}

\* The tables that lose rows when a row of t is deleted.
GoWith(t, objs) ==
  LET step(S) == S \union {k[2] : k \in {x \in Keys(objs) : x[4] \in S /\ x[5] = "cascade"}}
  IN step(step(step(step({t}))))
=============================================================================
