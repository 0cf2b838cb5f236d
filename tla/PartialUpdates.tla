--------------------------- MODULE PartialUpdates ---------------------------
(***************************************************************************)
(* The parameter types of the services' updates and what they put in the   *)
(* body of a request.  A type lists its JSON fields by how a field says    *)
(* that it is to stay as it is:                                            *)
(*   optional  a pointer or raw JSON, omitted when nil; a pointer to an    *)
(*             empty value is sent                                         *)
(*   nullable  a date with a Clear flag beside it: the campaign's          *)
(*             MarshalJSON sends null for the flag, which wins             *)
(*   shadowed  the same for the campaign of a form: its MarshalJSON puts a *)
(*             null field in front of the pointer's                        *)
(*   flagged   a pointer with a clear flag that is a field of its own      *)
(*   list      a slice or a map, omitted when nil and when empty           *)
(*   value     a plain value, omitted when zero                            *)
(*   always    never omitted; a nil slice is sent as null                  *)
(*   delta     additions to and removals from another field, as a list;    *)
(*             what they do is the server's and is left out below          *)
(* Two editors update one record through the request engine, which sends a *)
(* request again when its answer is lost.  The server is external: it      *)
(* merges the fields it is sent, or, for the types whose comment says so,  *)
(* replaces the whole record; an editor of those reads the record first.   *)
(***************************************************************************)
EXTENDS FiniteSets, Naturals

CONSTANT Editors  \* they write their own name in the fields they set

ASSUME EditorsAssumption ==
  Editors \cap {"old", "nil", "empty", "null", "absent", "keep"} = {}

-----------------------------------------------------------------------------
(* Types whose update merges: a nil field is left unchanged.               *)

SkillUpdateParams == [optional |-> {"name", "description", "content", "enabled"}]

APIKeyUpdateParams ==
  [optional |-> {"name", "description", "permissions", "allowed_ips", "allowed_email_accounts",
   "rate_limit_per_minute"}]

MCPServerUpdateParams == [optional |-> {"name", "enabled", "token"}]

ProfileUpdateParams == [value |-> {"first_name", "last_name"}]

CampaignUpdateParams ==
  [optional |-> {"name", "description", "status", "stop_on_reply", "open_tracking", "link_tracking",
   "text_only", "daily_limit", "unsubscribe_header", "risky_emails", "unsubscribe_mode", "timezone",
   "days", "start_time", "end_time", "schedule_windows", "contact_order_by", "contact_order_dir",
   "contact_order_field", "sender_strategy", "rotation_mode", "ramp_enabled", "ramp_start",
   "ramp_increment", "ramp_ceiling", "esp_match_mode", "max_new_leads_per_day",
   "prioritize_new_leads", "continuous", "tracking_domain", "utm_tracking", "utm_source",
   "utm_medium", "utm_campaign", "guardrail_enabled", "guardrail_bounce_rate_max",
   "guardrail_complaint_rate_max", "guardrail_reply_rate_min", "guardrail_min_sample",
   "guardrail_window_days"},
   nullable |-> {"start_date", "end_date"},
   list |-> {"cc", "bcc", "email_tags", "folders"}]

StepUpdateParams ==
  [optional |-> {"name", "subject", "body_plain", "body_html", "body_sync", "body_code",
   "wait_after", "conditions", "kind", "action"}]

ABVariantUpdateParams ==
  [optional |-> {"name", "weight", "subject", "body_html", "body_plain", "is_control", "is_active"},
   list |-> {"metadata"}]

ContactUpdateParams ==
  [optional |-> {"first_name", "last_name", "company", "phone", "subscribed"},
   list |-> {"custom_fields", "campaigns", "categories"},
   delta |-> {"add_categories", "remove_categories"}]

PipelineUpdateParams == [optional |-> {"name"}]

StageUpdateParams == [optional |-> {"name", "color"}]

DealUpdateParams ==
  [optional |-> {"stage_id", "contact_id", "name", "value", "currency", "status",
   "expected_close_date", "lost_reason", "assigned_to"}]

TaskTypeUpdateParams == [optional |-> {"name", "color", "position"}]

CRMTaskUpdateParams ==
  [optional |-> {"assigned_to", "assigned_team_id", "title", "description", "due_date", "priority",
   "type", "status"}]

EmailUpdateParams ==
  [optional |-> {"name", "signature_plain", "signature_html", "signature_sync", "signature_code",
   "status", "campaign_limit", "min_wait_time", "reply_to", "timezone", "save_to_sent", "warmup",
   "warmup_base", "warmup_max", "warmup_increase", "warmup_reply_rate", "warmup_tag",
   "warmup_start_time", "warmup_end_time", "warmup_days"},
   list |-> {"tags"}]

SendingBehaviorUpdateParams ==
  [optional |-> {"enabled", "daily_limit_min", "daily_limit_max", "hourly_limit_min",
   "hourly_limit_max", "gap_min_seconds", "gap_max_seconds", "work_start_min", "work_start_max",
   "work_end_min", "work_end_max", "lunch_enabled", "lunch_earliest", "lunch_latest",
   "lunch_min_minutes", "lunch_max_minutes", "weekdays"}]

FormUpdateParams ==
  [optional |-> {"name", "status", "fields", "design", "success_message", "redirect_url",
   "category_ids", "allowed_domains", "captcha_enabled"},
   shadowed |-> {"campaign_id"}]

GroupUpdateParams == [optional |-> {"title", "color"}]

ConnectionConfigParams == [optional |-> {"config_capabilities"}, value |-> {"sync_direction"}]

LeadSyncUpdateParams ==
  [optional |-> {"sheet_id", "sheet_title", "tab_title", "has_header", "column_mapping", "dedup",
   "category_ids", "subscribed_default", "label"},
   flagged |-> {"target_campaign_id"}]

RoleUpdateParams == [optional |-> {"name", "description", "color", "permissions"}]

OrganizationUpdateParams ==
  [optional |-> {"name", "slug", "presence_show_online", "presence_show_activity",
   "product_description", "icp_notes", "voice_profile", "inbox_agent_enabled",
   "assistant_shared_history"}]

SegmentUpdateParams ==
  [always |-> {"conditions"},
   optional |-> {"name", "description", "color", "match"}]

TeamUpdateParams == [optional |-> {"name", "color"}]

TemplateUpdateParams == [optional |-> {"name", "subject", "body_html", "body_plain"}]

WebsiteTrackingUpdateParams ==
  [optional |-> {"enabled", "consent_mode", "location_precision", "allowed_hosts",
   "retention_days"}]

MergedUpdates ==
  {SkillUpdateParams, APIKeyUpdateParams, MCPServerUpdateParams, ProfileUpdateParams,
   CampaignUpdateParams, StepUpdateParams, ABVariantUpdateParams, ContactUpdateParams,
   PipelineUpdateParams, StageUpdateParams, DealUpdateParams, TaskTypeUpdateParams,
   CRMTaskUpdateParams, EmailUpdateParams, SendingBehaviorUpdateParams, FormUpdateParams,
   GroupUpdateParams, ConnectionConfigParams, LeadSyncUpdateParams, RoleUpdateParams,
   OrganizationUpdateParams, SegmentUpdateParams, TeamUpdateParams, TemplateUpdateParams,
   WebsiteTrackingUpdateParams}

-----------------------------------------------------------------------------
(* Types whose update replaces the whole record.                           *)

WebhookUpdateParams ==
  [always |-> {"url"},
   optional |-> {"enabled"},
   list |-> {"event_types"},
   value |-> {"description"}]

OAuthAppParams ==
  [always |-> {"name", "redirect_uris", "scopes"},
   list |-> {"allowed_webhook_domains", "webhook_events"},
   value |-> {"description", "logo_url", "website_url", "webhook_url"}]

WarmupRoutingRuleParams ==
  [always |-> {"name", "sender_match_type", "recipient_match_type"},
   optional |-> {"enabled"},
   value |-> {"priority", "sender_match_value", "recipient_match_value", "weight"}]

AutomationCreateParams ==
  [always |-> {"name", "enabled", "trigger_event", "graph"},
   optional |-> {"filter"}]

OutreachSettings ==
  [always |-> {"bounce_pipeline", "task_reliability", "ab_testing", "reply_intent",
   "send_time_optimization", "preflight", "dashboard", "unsubscribe"},
   list |-> {"custom"}]

CreditSettingsParams ==
  [optional |-> {"spend_limit_daily", "spend_limit_weekly", "spend_limit_monthly",
   "member_limit_daily", "member_limit_weekly", "member_limit_monthly"},
   value |-> {"low_balance_threshold", "auto_topup_enabled", "auto_topup_pack",
   "auto_topup_threshold", "auto_topup_max_per_month"}]

ComposeDraftParams ==
  [list |-> {"to", "cc", "bcc"},
   value |-> {"email_account_id", "subject", "body"}]

AdvisorSettings ==
  [always |-> {"organization_id", "enabled", "muted_categories", "muted_detectors", "min_severity",
   "autopilot", "updated_at"},
   optional |-> {"autopilot_actor_id"}]

UpdateMemberParams == [optional |-> {"role_id"}, list |-> {"role_ids"}]

WholeUpdates ==
  {WebhookUpdateParams, OAuthAppParams, WarmupRoutingRuleParams, AutomationCreateParams,
   OutreachSettings, CreditSettingsParams, ComposeDraftParams, AdvisorSettings,
   UpdateMemberParams}

ASSUME FieldsNamedOnce ==
  \A u \in MergedUpdates \cup WholeUpdates : \A k, l \in DOMAIN u :
    k # l => u[k] \cap u[l] = {}

-----------------------------------------------------------------------------
VARIABLES
  shape,   \* the update's style and the kinds of two fields of one type
  record,  \* the server's record: what each of the two fields holds
  edits,   \* per editor: where its update is, what it read, asked and sent
  overlap  \* an update began while another was under way

updateVars == <<shape, record, edits, overlap>>

Pair == 1 .. 2
KindPairs(types) ==
  UNION {{pair \in [Pair -> (DOMAIN u) \ {"delta"}] :
            pair[1] = pair[2] => Cardinality(u[pair[1]]) > 1} : u \in types}

Shapes ==
  [whole : {FALSE}, kinds : KindPairs(MergedUpdates)]
    \cup [whole : {TRUE}, kinds : KindPairs(WholeUpdates)]

NoAsk == [value |-> "nil", clear |-> FALSE]

UpdatesInit ==
  /\ shape \in Shapes
  /\ record = [f \in Pair |-> "old"]
  /\ edits = [e \in Editors |->
       [at |-> "idle", copy |-> record, asks |-> [f \in Pair |-> NoAsk],
        body |-> [f \in Pair |-> "absent"]]]
  /\ overlap = FALSE

\* What an editor may put in a field.
FieldAsks(kind, e) ==
  CASE kind = "value" /\ ~ shape.whole -> [value : {"empty", e}, clear : {FALSE}]
    [] kind \in {"nullable", "shadowed"} -> [value : {"nil", e}, clear : BOOLEAN]
    [] kind = "flagged" -> [value : {"nil", e}, clear : {FALSE}] \cup {[NoAsk EXCEPT !.clear = TRUE]}
    [] OTHER -> [value : {"nil", "empty", e}, clear : {FALSE}]

\* encoding/json of a pointer with omitempty, and of a list or a plain value.
Optional(ask) == IF ask.value = "nil" THEN "absent" ELSE ask.value
Omitted(ask) == IF ask.value \in {"nil", "empty"} THEN "absent" ELSE ask.value

\* Mutant: the date is looked at before its flag.
NullableDatePointerFirst(ask) ==
  IF ask.value # "nil" THEN ask.value ELSE IF ask.clear THEN "null" ELSE "absent"

NullableDate(ask) == IF ask.clear THEN "null" ELSE Optional(ask)

Shadowed(ask) == IF ~ ask.clear THEN Optional(ask) ELSE "null"

\* The field in the body.
Encoded(kind, ask) ==
  CASE kind = "optional"          -> Optional(ask)
    [] kind = "nullable"          -> NullableDate(ask)
    [] kind = "shadowed"          -> Shadowed(ask)
    [] kind = "flagged"           -> IF ask.clear THEN "null" ELSE Optional(ask)
    [] kind \in {"list", "value"} -> Omitted(ask)
    [] kind = "always"            -> IF ask.value = "nil" THEN "null" ELSE ask.value

\* The server: a field that is absent, or a list that is null, stays.
Merged(kind, old, sent) ==
  IF sent = "absent" \/ (sent = "null" /\ kind = "always") THEN old
  ELSE IF sent = "null" THEN "empty" ELSE sent

Replaced(sent) == IF sent \in {"absent", "null"} THEN "empty" ELSE sent

UnderWay(e) == edits[e].at \in {"read", "sent", "failed"}
Overlaps(e) == overlap \/ \E o \in Editors \ {e} : UnderWay(o)

\* Get, before an update that must send the complete state.
EditRead(e) ==
  /\ shape.whole /\ edits[e].at = "idle"
  /\ edits' = [edits EXCEPT ![e].at = "read", ![e].copy = record]
  /\ overlap' = Overlaps(e)
  /\ UNCHANGED <<shape, record>>

\* A field the editor does not touch is left nil, or sent as it was read.
EditSend(e) ==
  /\ edits[e].at = IF shape.whole THEN "read" ELSE "idle"
  /\ \E a \in FieldAsks(shape.kinds[1], e), b \in FieldAsks(shape.kinds[2], e) :
       LET asks == <<a, b>>
           Filled(f) == IF shape.whole /\ asks[f].value = "nil"
                        THEN [asks[f] EXCEPT !.value = edits[e].copy[f]] ELSE asks[f]
       IN  edits' = [edits EXCEPT ![e].at = "sent", ![e].asks = asks,
                       ![e].body = [f \in Pair |-> Encoded(shape.kinds[f], Filled(f))]]
  /\ overlap' = Overlaps(e)
  /\ UNCHANGED <<shape, record>>

\* The server executes the request; the answer arrives, or is lost and the
\* engine sends the same body again.  It may also come too late for a caller
\* that has given up.
EditServed(e) ==
  /\ edits[e].at \in {"sent", "failed"}
  /\ record' = [f \in Pair |->
       IF shape.whole THEN Replaced(edits[e].body[f])
       ELSE Merged(shape.kinds[f], record[f], edits[e].body[f])]
  /\ \/ UNCHANGED edits
     \/ edits[e].at = "sent" /\ edits' = [edits EXCEPT ![e].at = "done"]
  /\ UNCHANGED <<shape, overlap>>

EditFails(e) ==
  /\ edits[e].at = "sent"
  /\ edits' = [edits EXCEPT ![e].at = "failed"]
  /\ UNCHANGED <<shape, record, overlap>>

UpdatesNext ==
  \E e \in Editors : EditRead(e) \/ EditSend(e) \/ EditServed(e) \/ EditFails(e)

-----------------------------------------------------------------------------
\* What the types' comments say an ask means: "keep", "empty" or a value.
Intent(e, f) ==
  LET ask == edits[e].asks[f]
  IN  CASE ask.clear -> "empty"
        [] ~ ask.clear /\ ask.value = "nil" -> "keep"
        [] ~ ask.clear /\ ask.value = "empty" /\ ~ shape.whole /\ shape.kinds[f] \in {"list", "value"} -> "keep"
        [] OTHER -> ask.value

Askers(f) == {e \in Editors : edits[e].at \notin {"idle", "read"} /\ Intent(e, f) # "keep"}

\* A field nobody asked to change keeps its value, and one that a single
\* editor asked for ends as he asked, cleared or set, whatever the other one
\* writes beside it and however often either request is executed.  For the
\* updates that replace the record this takes editors who do not overlap.
UpdatesKept ==
  ~ (shape.whole /\ overlap) => \A f \in Pair :
    /\ record[f] \in {"old"} \cup {Intent(e, f) : e \in Askers(f)}
    /\ \A e \in Askers(f) :
         edits[e].at = "done" /\ Askers(f) = {e} => record[f] = Intent(e, f)

\* emails.go, EmailUpdateParams: a list that is not nil replaces the stored
\* one wholesale, an empty one too.  Refuted for the lists with omitempty.
EmptyListClears ==
  \A e \in Editors, f \in Pair :
    /\ ~ shape.whole /\ shape.kinds[f] = "list"
    /\ edits[e].at = "done" /\ edits[e].asks[f].value = "empty"
    /\ Askers(f) = {}
    => record[f] = "empty"

=============================================================================
