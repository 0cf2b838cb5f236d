------------------------------ MODULE RestApi ------------------------------
(***************************************************************************)
(* The operations of the REST services: one entry per exported method that *)
(* makes a request, grouped as the source groups them.  An entry keeps the *)
(* verb and route the method calls, and what decides how the request       *)
(* engine (RestClient) treats it:                                          *)
(*   body    "none"    no body is ever sent                                *)
(*           "params"  the caller's argument; a nil one sends no body      *)
(*           "value"   a struct the method builds                          *)
(*           "file"    a multipart form (postMultipart)                    *)
(*   answer  "nothing" out is nil            "one"  a freshly allocated T  *)
(*           "rows"    a slice, never nil    "part" one field of the answer*)
(*           "page"    a page of a list      "raw"  copied to an io.Writer *)
(*           "events"  an event stream                                     *)
(*   effect  what a second execution by the server would do, from the      *)
(*           method's comment: "read" changes nothing, "set" leaves what   *)
(*           the first one left, "add" makes one more (a record, a mail, a *)
(*           charge, a secret), "once" uses up a code, a token or a        *)
(*           decision, so a second execution cannot answer like the first. *)
(* Path arguments are written {name}; query parameters are left out.       *)
(***************************************************************************)
EXTENDS Naturals

Operation(name, verb, route, body, answer, effect) ==
  [name |-> name, verb |-> verb, route |-> route,
   body |-> body, answer |-> answer, effect |-> effect]

\* get sends no body and only reads; delete sends none and decodes nothing;
\* the other verbs carry whatever the method passes.
Get(name, route, answer) == Operation(name, "GET", route, "none", answer, "read")
Delete(name, route) == Operation(name, "DELETE", route, "none", "nothing", "set")
DeleteBody(name, route, body) ==
  Operation(name, "DELETE", route, body, "nothing", "set")
Put(name, route, body, answer) == Operation(name, "PUT", route, body, answer, "set")
Patch(name, route, body, answer) == Operation(name, "PATCH", route, body, answer, "set")
Post(name, route, body, answer, effect) ==
  Operation(name, "POST", route, body, answer, effect)

AdvisorService ==
  { Get("Recommendations", "advisor/recommendations", "rows"), Get("Summary", "advisor/summary", "one"),
    Post("Refresh", "advisor/refresh", "none", "one", "set"),
    Post("Apply", "advisor/recommendations/{id}/apply", "none", "one", "set"),
    Post("Undo", "advisor/recommendations/{id}/undo", "none", "one", "set"),
    Post("AgentFix", "advisor/recommendations/{id}/agent-fix", "none", "one", "add"),
    Post("Snooze", "advisor/recommendations/{id}/snooze", "value", "nothing", "set"),
    Post("Dismiss", "advisor/recommendations/{id}/dismiss", "value", "nothing", "set"),
    Post("Feedback", "advisor/recommendations/{id}/feedback", "value", "nothing", "set"),
    Get("Settings", "advisor/settings", "one"),
    Patch("UpdateSettings", "advisor/settings", "params", "one") }

AgentToolService ==
  { Get("List", "ai/tools", "rows"), Get("ListFunctions", "ai/tools", "rows"),
    Post("Call", "ai/tools/{name}/call", "params", "part", "add") }

GenerationService ==
  { Post("Write", "generation/write", "params", "one", "add"),
    Post("Edit", "generation/edit", "params", "one", "add"),
    Post("AIVariable", "generation/ai-variable", "params", "one", "add") }

SkillService ==
  { Get("List", "ai/skills", "rows"), Post("Create", "ai/skills", "params", "one", "add"),
    Patch("Update", "ai/skills/{id}", "params", "one"), Delete("Delete", "ai/skills/{id}") }

AnalyticsService ==
  { Get("Dashboard", "analytics/dashboard", "one"), Get("Campaign", "analytics/campaigns/{id}", "one"),
    Get("CampaignDaily", "analytics/campaigns/{id}/daily", "rows"),
    Get("CampaignHourly", "analytics/campaigns/{id}/hourly", "rows"),
    Get("CompareCampaigns", "analytics/campaigns/compare", "one"), Get("Warmup", "analytics/warmup", "one"),
    Get("Deliverability", "analytics/deliverability", "one"), Get("Accounts", "analytics/accounts", "rows"),
    Get("Account", "analytics/accounts/{id}", "one"), Get("Usage", "analytics/usage", "one") }

APIKeyService ==
  { Get("List", "api-keys", "page"), Get("Get", "api-keys/{id}", "one"),
    Post("Create", "api-keys", "params", "one", "add"), Patch("Update", "api-keys/{id}", "params", "one"),
    Delete("Revoke", "api-keys/{id}"), Delete("RevokeSelf", "api-keys/self"),
    Get("Permissions", "api-keys/permissions", "one"), Get("UsageSummary", "api-keys/usage/summary", "one"),
    Get("UsageAnalytics", "api-keys/usage/analytics", "one"),
    Get("Analytics", "api-keys/{id}/analytics", "one"), Get("Logs", "api-keys/{id}/logs", "page") }

AssistantSessions ==
  { Post("CreateSession", "ai/sessions", "value", "one", "add"), Get("Sessions", "ai/sessions", "page"),
    Get("Transcript", "ai/sessions/{sessionID}/messages", "one"),
    Delete("DeleteSession", "ai/sessions/{sessionID}"), Delete("ClearSessions", "ai/sessions"),
    Post("SendMessage", "ai/sessions/{sessionID}/messages", "params", "events", "add"),
    Post("Approve", "ai/sessions/{sessionID}/approve", "value", "events", "once") }

AssistantConnections ==
  { Get("MCPServers", "ai/connections", "rows"),
    Post("ConnectMCPServer", "ai/connections", "params", "one", "add"),
    Patch("UpdateMCPServer", "ai/connections/{id}", "params", "one"),
    Delete("DeleteMCPServer", "ai/connections/{id}"),
    Post("RefreshMCPServer", "ai/connections/{id}/refresh", "none", "one", "set") }

AuditLogService ==
  { Get("List", "audit-logs", "page") }

AuthSignIn ==
  { Post("Login", "auth/login", "params", "one", "add"),
    Post("LoginConfirm", "auth/login/confirm", "params", "one", "once"),
    Post("Register", "auth/register", "params", "one", "add"),
    Post("RegisterConfirm", "auth/register/confirm", "params", "one", "once"),
    Post("ResetPassword", "auth/reset-password", "value", "nothing", "add"),
    Post("ResetPasswordConfirm", "auth/reset-password/confirm", "value", "nothing", "once"),
    Post("Refresh", "auth/refresh", "value", "one", "once"), Get("Providers", "auth/providers", "one"),
    Get("Config", "auth/config", "one"), Get("Instance", "auth/instance", "one"),
    Post("Setup", "auth/setup", "params", "one", "once"),
    Post("BeginSSO", "auth/{provider}/begin", "none", "one", "add"),
    Post("ExchangeSSO", "auth/sso/exchange", "value", "one", "once"),
    Post("StartCLIAuth", "auth/cli/code", "params", "one", "add") }

AuthHandshake ==
  { Post("PollCLIAuth", "auth/cli/poll", "value", "one", "once") }

AuthAccount ==
  { Get("CLIAuthRequest", "auth/cli/codes/{userCode}", "one"),
    Post("ApproveCLIAuth", "auth/cli/codes/{userCode}/approve", "value", "one", "once"),
    Post("DenyCLIAuth", "auth/cli/codes/{userCode}/deny", "none", "nothing", "set"),
    Post("LoginWithApple", "auth/apple", "value", "one", "once"),
    Post("LoginWithGoogle", "auth/google", "value", "one", "once"),
    Post("Logout", "auth/logout", "none", "nothing", "set"),
    Post("LogoutAll", "auth/logout-all", "none", "nothing", "set"),
    Get("Sessions", "auth/sessions", "rows"), Delete("RevokeSession", "auth/sessions/{id}"),
    Delete("RevokeOtherSessions", "auth/sessions"), Get("Me", "auth/me", "one"),
    Patch("UpdateProfile", "auth/me", "params", "one"),
    Patch("CompleteOnboarding", "auth/me/onboarding", "params", "one"),
    Post("UploadAvatar", "auth/me/avatar", "file", "part", "set"), Delete("DeleteAvatar", "auth/me/avatar"),
    Post("ChangePassword", "auth/me/password", "value", "nothing", "set"),
    Put("SetUndoSendSeconds", "auth/me/send-preferences", "value", "nothing"),
    Get("TwoFAStatus", "auth/2fa/status", "one"),
    Post("EnrollTwoFA", "auth/2fa/enroll/start", "none", "one", "add"),
    Post("ConfirmTwoFA", "auth/2fa/enroll/confirm", "value", "one", "once") }

AuthTwoFA ==
  { DeleteBody("DisableTwoFA", "auth/2fa", "value"),
    Post("VerifyTwoFA", "auth/2fa/verify", "value", "one", "once"),
    Get("Passkeys", "auth/passkey/credentials", "rows") }

AuthPasskeys ==
  { Post("BeginPasskeyLogin", "auth/passkey/login/begin", "none", "one", "add"),
    Post("FinishPasskeyLogin", "auth/passkey/login/finish", "value", "one", "once"),
    Post("BeginPasskeyRegistration", "auth/passkey/register/begin", "none", "one", "add"),
    Post("FinishPasskeyRegistration", "auth/passkey/register/finish", "value", "one", "once"),
    Patch("RenamePasskey", "auth/passkey/credentials/{id}", "value", "one"),
    Delete("DeletePasskey", "auth/passkey/credentials/{id}"),
    Get("NotificationPreferences", "auth/me/notification-preferences", "one"),
    Put("UpdateNotificationPreferences", "auth/me/notification-preferences", "value", "one"),
    Get("Notifications", "auth/me/notifications", "one"),
    Post("MarkNotificationRead", "auth/me/notifications/{id}/read", "none", "nothing", "set"),
    Put("MarkAllNotificationsRead", "auth/me/notifications", "none", "nothing"),
    Post("RegisterDeviceToken", "auth/me/device-tokens", "value", "nothing", "set"),
    Delete("DeleteDeviceToken", "auth/me/device-tokens/{token}"),
    Get("DangerZone", "me/danger-zone", "one"),
    Post("ScheduleDeletion", "me/danger-zone/delete", "params", "one", "set"),
    DeleteBody("CancelDeletion", "me/danger-zone/delete", "value") }

AutomationService ==
  { Get("List", "automations", "part"), Post("Create", "automations", "params", "part", "add"),
    Get("Get", "automations/{id}", "part"), Patch("Update", "automations/{id}", "params", "part"),
    Patch("UpdateLayout", "automations/{id}/layout", "value", "nothing"),
    Delete("Delete", "automations/{id}"), Post("Test", "automations/{id}/test", "params", "one", "read"),
    Post("DryRun", "automations/{id}/test", "params", "one", "read"),
    Get("Runs", "automations/{id}/runs", "part") }

BillingService ==
  { Get("Get", "subscription", "one"), Get("Limits", "subscription/limits", "one"),
    Get("Trial", "subscription/trial", "one"), Get("Features", "subscription/features", "one"),
    Post("Checkout", "subscription/checkout", "params", "one", "add"),
    Post("Portal", "subscription/portal", "value", "part", "add"),
    Post("Cancel", "subscription/cancel", "value", "nothing", "set"),
    Post("ChangePlan", "subscription/change-plan", "params", "part", "set"),
    Get("PreviewPlanChange", "subscription/preview-change", "one"),
    Post("ValidateDiscount", "subscription/discount/validate", "value", "one", "read"),
    Get("AppliedDiscounts", "subscription/discounts", "rows"),
    Post("EnterpriseInquiry", "subscription/enterprise-inquiry", "params", "part", "add"),
    Get("Credits", "subscription/credits", "one"),
    Get("CreditTransactions", "subscription/credits/transactions", "page"),
    Post("BuyCredits", "subscription/credits/checkout", "value", "one", "add"),
    Get("CreditUsage", "subscription/credits/usage", "one") }

BillingReferrals ==
  { Get("CreditSettings", "subscription/credits/settings", "one"),
    Patch("UpdateCreditSettings", "subscription/credits/settings", "params", "one"),
    Get("Referral", "subscription/referral", "one"),
    Post("EnsureReferralCode", "subscription/referral", "none", "one", "set"),
    Get("ReferralAttributions", "subscription/referral/attributions", "page"),
    Get("ReferralEarnings", "subscription/referral/earnings", "page") }

CampaignService ==
  { Get("List", "campaigns", "page"), Get("Overview", "campaigns-overview", "one"),
    Post("Estimate", "campaigns-estimate", "params", "one", "read"),
    Post("Create", "campaigns", "params", "one", "add"), Get("Get", "campaigns/{id}", "one"),
    Patch("Update", "campaigns/{id}", "params", "one"), Delete("Delete", "campaigns/{id}"),
    Post("Duplicate", "campaigns/{id}/duplicate", "params", "one", "add"),
    Post("Start", "campaigns/{id}/start", "none", "one", "set"),
    Post("StartWithOptions", "campaigns/{id}/start", "params", "one", "set"),
    Post("Stop", "campaigns/{id}/stop", "none", "one", "set"), Get("Logs", "campaigns/{id}/logs", "page"),
    Post("Preflight", "campaigns/{id}/preflight", "none", "one", "read"),
    Post("SendTestEmail", "campaigns/{id}/test-email", "params", "one", "add"),
    Post("PreviewTemplate", "campaign-template-preview", "params", "one", "read"),
    Post("VerifyTrackingDomain", "campaigns/{id}/tracking-domain/verify", "none", "one", "set"),
    Get("Forms", "campaigns/{id}/forms", "rows"), Get("Senders", "campaigns/{id}/senders", "rows"),
    Put("ReplaceSenders", "campaigns/{id}/senders", "value", "rows"),
    Get("ListSegments", "campaigns/{id}/segments", "rows") }

CampaignParts ==
  { Put("SetSegments", "campaigns/{id}/segments", "value", "one"),
    Get("AdvancedSettings", "campaigns/{id}/advanced", "one"),
    Patch("UpdateAdvancedSettings", "campaigns/{id}/advanced", "value", "nothing"),
    Get("ListSteps", "campaigns/{id}/steps", "rows"),
    Post("CreateStep", "campaigns/{id}/steps", "none", "one", "add"),
    Patch("UpdateStep", "campaigns/{id}/steps/{stepID}", "params", "one"),
    Delete("DeleteStep", "campaigns/{id}/steps/{stepID}"),
    Patch("UpdateStepLayout", "campaigns/{id}/step-layout", "value", "nothing"),
    Get("ListABVariants", "campaigns/{id}/ab-variants", "rows"),
    Post("CreateABVariant", "campaigns/{id}/ab-variants", "params", "one", "add"),
    Patch("UpdateABVariant", "campaigns/{id}/ab-variants/{variantID}", "params", "one"),
    Delete("DeleteABVariant", "campaigns/{id}/ab-variants/{variantID}"),
    Get("ABAnalysis", "campaigns/{id}/ab-analysis", "one"),
    Get("ListAttachments", "campaigns/{id}/attachments", "rows"),
    Post("UploadAttachment", "campaigns/{id}/attachments", "file", "one", "add"),
    Delete("DeleteAttachment", "campaigns/{id}/attachments/{attachmentID}") }

CloudLinkConnect ==
  { Get("Status", "cloud-link", "one"), Post("Connect", "cloud-link/connect", "value", "one", "add"),
    Post("PollConnect", "cloud-link/connect/poll", "none", "one", "set") }

CloudLinkMailboxes ==
  { Delete("Disconnect", "cloud-link"), Get("ListMailboxes", "cloud-link/mailboxes", "rows"),
    Post("EnrollMailbox", "cloud-link/mailboxes/{id}/enroll", "none", "one", "set"),
    Delete("UnenrollMailbox", "cloud-link/mailboxes/{id}/enroll"),
    Post("PauseMailbox", "cloud-link/mailboxes/{id}/pause", "none", "one", "set"),
    Post("ResumeMailbox", "cloud-link/mailboxes/{id}/resume", "none", "one", "set"),
    Post("StartOAuth", "cloud-link/oauth/start", "value", "one", "add"),
    Post("FinishOAuth", "cloud-link/oauth/finish", "value", "one", "once"),
    Get("ListWorkspaceMailboxes", "cloud-link/workspace-mailboxes", "rows"),
    Post("AdoptWorkspaceMailbox", "cloud-link/workspace-mailboxes/{id}/adopt", "none", "one", "set") }

ContactService ==
  { Post("Create", "contacts", "params", "rows", "set"), Patch("BulkUpdate", "contacts", "params", "rows"),
    DeleteBody("BulkDelete", "contacts", "params"), Get("Get", "contacts/{id}", "one"),
    Patch("Update", "contacts/{id}", "params", "one"), Delete("Delete", "contacts/{id}"),
    Get("Lookup", "contacts/lookup", "part"), Get("CustomFields", "contacts/custom-fields", "rows"),
    Get("VerificationOverview", "contacts/verification", "one"),
    Post("RequestVerification", "contacts/verification", "params", "one", "set"),
    Get("Emails", "contacts/{id}/emails", "rows"), Get("Timeline", "contacts/{id}/timeline", "rows"),
    Get("ListTimeline", "contacts/{id}/timeline", "page"),
    Get("CampaignStates", "contacts/{id}/campaigns", "rows"),
    Get("Segments", "contacts/{id}/segments", "rows"), Get("Notes", "contacts/{id}/notes", "page"),
    Post("AddNote", "contacts/{id}/notes", "value", "one", "add"),
    Patch("UpdateNote", "contacts/{id}/notes/{noteID}", "value", "one"),
    Delete("DeleteNote", "contacts/{id}/notes/{noteID}"),
    Get("Activities", "contacts/{id}/activities", "page"), Get("Deals", "contacts/{id}/deals", "rows") }

ContactSearch ==
  { Post("Search", "contacts/search", "params", "page", "read") }

ContactFiles ==
  { Post("Export", "contacts/export", "params", "raw", "read"),
    Post("ImportPreview", "contacts/import/preview", "file", "one", "read"),
    Post("ImportCommit", "contacts/import/commit", "file", "one", "add"),
    Post("Research", "contacts/{id}/research", "value", "one", "add"),
    Get("ListResearch", "contacts/{id}/research", "rows"),
    Post("BatchResearch", "contacts/research/batch", "value", "part", "add") }

CRMService ==
  { Get("ListPipelines", "crm/pipelines", "rows"),
    Post("CreatePipeline", "crm/pipelines", "params", "one", "add"),
    Get("GetPipeline", "crm/pipelines/{id}", "one"),
    Patch("UpdatePipeline", "crm/pipelines/{id}", "params", "one"),
    Delete("DeletePipeline", "crm/pipelines/{id}"),
    Post("CreateStage", "crm/pipelines/{pipelineID}/stages", "params", "one", "add"),
    Patch("UpdateStage", "crm/pipelines/{pipelineID}/stages/{stageID}", "params", "one"),
    Delete("DeleteStage", "crm/pipelines/{pipelineID}/stages/{stageID}"),
    Get("ListDeals", "crm/deals", "page"),
    Post("SearchDeals", "crm/deals/search", "params", "page", "read"),
    Post("DealsSummary", "crm/deals/summary", "params", "one", "read"),
    Post("CreateDeal", "crm/deals", "params", "one", "add"), Get("GetDeal", "crm/deals/{id}", "one"),
    Patch("UpdateDeal", "crm/deals/{id}", "params", "one"), Delete("DeleteDeal", "crm/deals/{id}"),
    Get("ListTaskTypes", "crm/task-types", "rows"),
    Post("CreateTaskType", "crm/task-types", "params", "one", "add"),
    Patch("UpdateTaskType", "crm/task-types/{id}", "params", "one"),
    Delete("DeleteTaskType", "crm/task-types/{id}"), Get("ListTasks", "crm/tasks", "page"),
    Post("SearchTasks", "crm/tasks/search", "params", "page", "read"),
    Post("TasksSummary", "crm/tasks/summary", "params", "one", "read"),
    Post("CreateTask", "crm/tasks", "params", "one", "add"), Get("GetTask", "crm/tasks/{id}", "one"),
    Patch("UpdateTask", "crm/tasks/{id}", "params", "one") }

CRMTaskRemoval ==
  { Delete("DeleteTask", "crm/tasks/{id}") }

EmailService ==
  { Get("List", "emails", "page"), Get("Get", "emails/{id}", "one"),
    Patch("Update", "emails/{id}", "params", "one"), Delete("Delete", "emails/{id}"),
    Patch("BulkTag", "emails/tags", "params", "one"), Get("Allowance", "emails/allowance", "one"),
    Get("GetTrackingDomain", "emails/{id}/track", "one"),
    Patch("UpdateTrackingDomain", "emails/{id}/track", "none", "one"),
    Post("VerifyTrackingDomain", "emails/{id}/track/verify", "none", "one", "set"),
    Get("AuthCheck", "emails/{id}/auth-check", "one"),
    Post("RefreshAuthCheck", "emails/{id}/auth-check", "none", "one", "set"),
    Get("SyncStatus", "emails/{id}/sync", "one"), Get("Behavior", "emails/{id}/behavior", "one"),
    Put("UpdateBehavior", "emails/{id}/behavior", "params", "one"),
    Get("BehaviorPlan", "emails/{id}/behavior/plan", "one"),
    Post("Hold", "emails/{id}/hold", "none", "one", "set"),
    Post("Release", "emails/{id}/release", "none", "one", "set") }

EmailSending ==
  { Post("Verify", "emails/verify", "value", "one", "set"),
    Post("Send", "emails/{id}/send", "params", "one", "add"),
    Post("StartWarmup", "emails/{id}/warmup/start", "none", "one", "set"),
    Post("PauseWarmup", "emails/{id}/warmup/pause", "none", "one", "set"),
    Post("ResumeWarmup", "emails/{id}/warmup/resume", "none", "one", "set"),
    Post("StopWarmup", "emails/{id}/warmup/stop", "none", "one", "set"),
    Get("WarmupBanStatus", "emails/{id}/warmup/ban-status", "one"),
    Post("AppealWarmupBan", "emails/{id}/warmup/appeal", "params", "one", "add") }

EmailOnboarding ==
  { Post("StartOAuth", "emails/onboarding/oauth/start", "value", "one", "add"),
    Post("FinishOAuth", "emails/onboarding/oauth/finish", "value", "one", "once"),
    Post("ReauthOAuth", "emails/onboarding/oauth/reauth/{id}", "none", "one", "add"),
    Post("ConnectSMTPIMAP", "emails/onboarding/smtp-imap", "params", "one", "set"),
    Post("ConnectSMTPIMAPBulk", "emails/onboarding/smtp-imap/bulk", "params", "one", "set"),
    Put("UpdateSMTPIMAPCredentials", "emails/onboarding/smtp-imap/{id}", "params", "one") }

FormService ==
  { Get("List", "forms", "rows"), Get("Config", "forms/config", "one"),
    Post("Create", "forms", "params", "one", "add"), Get("Get", "forms/{id}", "one"),
    Patch("Update", "forms/{id}", "params", "one"), Delete("Delete", "forms/{id}"),
    Get("ListSubmissions", "forms/{id}/submissions", "page") }

FormFiles ==
  { Delete("DeleteSubmission", "forms/{id}/submissions/{submissionID}"),
    Get("Stats", "forms/{id}/stats", "one"), Get("MintLink", "forms/{id}/links/{contactID}", "one"),
    Post("UploadAsset", "forms/{id}/assets/{kind}", "file", "one", "set"),
    Operation("DeleteAsset", "DELETE", "forms/{id}/assets/{kind}", "none", "one", "set"),
    Get("Domain", "forms/domain", "one"), Put("SetDomain", "forms/domain", "value", "one"),
    Post("VerifyDomain", "forms/domain/verify", "none", "one", "set") }

GroupService ==
  { Post("Create", "{name}", "params", "one", "add"), Patch("Update", "{name}/{id}", "params", "one"),
    Patch("Move", "{name}/{id}/move", "value", "rows"), Delete("Delete", "{name}/{id}") }

IntegrationService ==
  { Get("Catalog", "integrations/catalog", "part"), Get("Connections", "integrations/connections", "part"),
    Post("Connect", "integrations/connections", "params", "one", "add"),
    Get("Connection", "integrations/connections/{id}", "one"),
    Patch("UpdateConfig", "integrations/connections/{id}/config", "params", "part"),
    Delete("Disconnect", "integrations/connections/{id}"),
    Get("Events", "integrations/connections/{id}/events", "part"),
    Post("CreateEvent", "integrations/connections/{id}/events", "params", "one", "add"),
    Delete("DeleteEvent", "integrations/connections/{id}/events/{eventID}"),
    Get("FieldMappings", "integrations/connections/{id}/field-mappings", "part"),
    Put("ReplaceFieldMappings", "integrations/connections/{id}/field-mappings", "value", "part"),
    Get("Runs", "integrations/connections/{id}/runs", "part"),
    Get("WebhookSecret", "integrations/connections/{id}/webhook-secret", "one"),
    Post("Test", "integrations/connections/{id}/test", "none", "part", "add"),
    Post("Push", "integrations/connections/{id}/push", "value", "one", "add") }

IntegrationConsent ==
  { Post("StartOAuth", "integrations/oauth/start", "value", "one", "add"),
    Post("FinishOAuth", "integrations/oauth/finish", "value", "one", "once"),
    Post("ReauthOAuth", "integrations/oauth/reauth/{id}", "none", "one", "add") }

MeetingService ==
  { Get("List", "meetings", "page"), Get("Summary", "meetings/summary", "one"),
    Post("Create", "meetings", "params", "part", "add"), Delete("Delete", "meetings/{id}") }

IntegrationBookings ==
  { Get("Bookings", "integrations/bookings", "part") }

LeadSyncService ==
  { Get("Connection", "lead-sync/google/connection", "one"),
    Post("Spreadsheet", "lead-sync/google/spreadsheet", "value", "one", "read"),
    Post("Preview", "lead-sync/google/preview", "value", "one", "read"),
    Get("Sources", "lead-sync/sources", "rows"), Get("SourcesForCampaign", "lead-sync/sources", "rows"),
    Post("Create", "lead-sync/sources", "params", "one", "add"),
    Get("Get", "lead-sync/sources/{id}", "one"), Patch("Update", "lead-sync/sources/{id}", "params", "one"),
    Delete("Delete", "lead-sync/sources/{id}"),
    Post("Sync", "lead-sync/sources/{id}/sync", "none", "one", "set") }

MetaService ==
  { Get("Identity", "me", "one"), Get("Plans", "plans", "part"), Get("Timezones", "timezones", "rows") }

MetaRealtime ==
  { Get("Realtime", "realtime/info", "one") }

MetaTicket ==
  { Post("GatewayTicket", "getaway", "none", "one", "add") }

OAuthAppService ==
  { Get("List", "oauth/applications", "part"), Get("Get", "oauth/applications/{id}", "one"),
    Post("Create", "oauth/applications", "params", "one", "add"),
    Patch("Update", "oauth/applications/{id}", "params", "one"),
    Delete("Delete", "oauth/applications/{id}"),
    Post("RotateSecret", "oauth/applications/{id}/rotate-secret", "none", "part", "add"),
    Post("UploadLogo", "oauth/application-logo", "file", "part", "add"),
    Get("WebhookSecret", "oauth/applications/{id}/webhook-secret", "part"),
    Post("RotateWebhookSecret", "oauth/applications/{id}/webhook-secret/rotate", "none", "part", "add"),
    Get("WebhookEndpoints", "oauth/applications/{id}/webhook-endpoints", "part"),
    Get("WebhookDeliveries", "oauth/applications/{id}/webhook-deliveries", "page"),
    Get("AuthorizeDetails", "oauth/authorize/details", "one"),
    Post("Authorize", "oauth/authorize", "params", "part", "add"),
    Get("AuthorizedApps", "oauth/authorized-apps", "part"),
    Delete("RevokeAuthorizedApp", "oauth/authorized-apps/{applicationID}") }

OAuthRegistration ==
  { Post("RegisterDynamicClient", "oauth/register", "params", "one", "add") }

OrganizationService ==
  { Post("Create", "organization", "params", "one", "add"), Get("List", "organization", "rows"),
    Post("Switch", "organization/switch/{id}", "none", "nothing", "set"),
    Get("Current", "organization/current", "one"), Patch("Update", "organization/current", "params", "one"),
    Get("Limits", "organization/current/limits", "one"),
    Post("UploadAvatar", "organization/avatar", "file", "part", "set"),
    Delete("DeleteAvatar", "organization/avatar"), Get("Members", "organization/members", "rows"),
    Post("Invite", "organization/members/invite", "params", "part", "add"),
    Patch("UpdateMember", "organization/members/{id}", "params", "one"),
    Delete("RemoveMember", "organization/members/{id}"),
    Post("TransferOwnership", "organization/transfer-ownership", "value", "nothing", "set"),
    Get("Roles", "organization/roles", "rows"),
    Post("CreateRole", "organization/roles", "params", "one", "add"),
    Patch("UpdateRole", "organization/roles/{id}", "params", "one"),
    Delete("DeleteRole", "organization/roles/{id}"), Get("Invitations", "organization/invitations", "rows"),
    Delete("CancelInvitation", "organization/invitations/{id}"),
    Get("InvitationLink", "organization/invitations/{id}/link", "part"),
    Get("MyInvitations", "invitations", "rows") }

OrganizationInvitations ==
  { Get("PreviewInvitation", "invitations/lookup", "one"),
    Post("AcceptInvitation", "invitations/accept", "value", "part", "once") }

OrganizationLimits ==
  { Get("LimitRequests", "organization/{orgID}/limit-requests", "rows"),
    Post("RequestLimitIncrease", "organization/{orgID}/limit-requests", "params", "one", "add"),
    Delete("CancelLimitRequest", "limit-requests/{id}"), Get("Risk", "organization/current/risk", "one") }

OrganizationTransfer ==
  { Get("TransferGroups", "organization/current/transfer/groups", "one"),
    Post("CreateExport", "organization/current/export", "params", "one", "add"),
    Get("Exports", "organization/current/export", "rows"),
    Get("Export", "organization/current/export/{id}", "one"),
    Get("DownloadExport", "organization/current/export/{id}/download", "raw"),
    Delete("DeleteExport", "organization/current/export/{id}"),
    Post("PreflightImport", "organization/current/import/preflight", "file", "one", "read"),
    Post("CreateImport", "organization/current/import", "file", "one", "add"),
    Get("Imports", "organization/current/import", "rows"),
    Get("Import", "organization/current/import/{id}", "one"),
    Get("DangerZone", "organization/current/danger-zone", "one"),
    Post("ScheduleDeletion", "organization/current/danger-zone/delete", "params", "one", "set"),
    DeleteBody("CancelDeletion", "organization/current/danger-zone/delete", "value") }

OutreachService ==
  { Get("Get", "outreach/settings", "one"), Patch("Update", "outreach/settings", "value", "nothing") }

DeliverabilityService ==
  { Post("Ingest", "deliverability/events", "params", "nothing", "add") }

PoolLinkService ==
  { Post("StartCode", "pool-link/codes", "params", "one", "add"),
    Post("Poll", "pool-link/poll", "value", "one", "once") }

PoolLinkAdmin ==
  { Get("DescribeCode", "pool-link/codes/{userCode}", "one"),
    Post("ApproveCode", "pool-link/codes/{userCode}/approve", "value", "one", "once"),
    Post("DenyCode", "pool-link/codes/{userCode}/deny", "none", "nothing", "set"),
    Get("ListInstances", "pool-link/instances", "one"),
    Delete("RevokeInstance", "pool-link/instances/{id}") }

SegmentService ==
  { Get("List", "segments", "rows"), Get("Fields", "segments/fields", "rows"),
    Post("Preview", "segments/preview", "params", "one", "read"),
    Post("Create", "segments", "params", "one", "add"), Get("Get", "segments/{id}", "one"),
    Patch("Update", "segments/{id}", "params", "one"), Delete("Delete", "segments/{id}"),
    Post("SetMembers", "segments/{id}/members", "value", "part", "set"),
    Post("MemberModes", "segments/{id}/members/lookup", "value", "part", "read"),
    Get("Overrides", "segments/{id}/overrides", "rows"),
    Post("AddToCampaign", "segments/{id}/add-to-campaign", "value", "one", "set") }

SuppressionService ==
  { Get("List", "suppressions", "page"), Post("Add", "suppressions", "params", "one", "set"),
    Delete("Delete", "suppressions/{id}") }

TeamService ==
  { Get("List", "teams", "rows"), Post("Create", "teams", "params", "one", "add"),
    Get("Get", "teams/{id}", "one"), Patch("Update", "teams/{id}", "params", "one"),
    Delete("Delete", "teams/{id}"), Post("AddMember", "teams/{id}/members", "value", "one", "set"),
    Delete("RemoveMember", "teams/{id}/members/{userID}") }

TemplateService ==
  { Get("List", "templates", "rows"), Get("Get", "templates/{id}", "one"),
    Post("Create", "templates", "params", "one", "add"), Patch("Update", "templates/{id}", "params", "one"),
    Delete("Delete", "templates/{id}"), Patch("Reorder", "templates/reorder", "value", "rows"),
    Post("Duplicate", "templates/{id}/duplicate", "none", "one", "add"),
    Post("Render", "templates/{id}/render", "value", "one", "read"),
    Post("Score", "templates/score", "params", "one", "read") }

UniboxService ==
  { Get("List", "unibox", "page"), Get("UnseenCount", "unibox/count", "part"),
    Get("Overview", "unibox/overview", "one"), Get("Thread", "unibox/thread", "page"),
    Get("Get", "unibox/{id}", "one"), Get("ThreadLabels", "unibox/thread/labels", "rows"),
    Put("SetThreadLabels", "unibox/thread/labels", "value", "rows"),
    Patch("MarkSeen", "unibox/seen", "value", "nothing"),
    Patch("MarkFolderSeen", "unibox/seen", "value", "nothing"),
    Post("Reply", "unibox/reply", "params", "one", "add"),
    Post("Compose", "unibox/compose", "params", "one", "add"),
    Get("ComposeCandidates", "unibox/compose/candidates", "one"),
    Post("DraftCompose", "unibox/compose/draft", "value", "one", "add"),
    Post("DraftReply", "unibox/reply/draft", "value", "one", "add"), Get("Drafts", "unibox/drafts", "rows"),
    Put("SaveDraft", "unibox/drafts/{id}", "params", "nothing"),
    Delete("DeleteDraft", "unibox/drafts/{id}") }

UniboxDrafts ==
  { Get("AgentDrafts", "unibox/agent-drafts", "rows"),
    Post("ApproveAgentDraft", "unibox/agent-drafts/{id}/approve", "params", "one", "once"),
    Post("DiscardAgentDraft", "unibox/agent-drafts/{id}/discard", "none", "nothing", "set"),
    Get("Snoozes", "unibox/snoozes", "rows"), Post("Snooze", "unibox/snooze", "value", "one", "set"),
    Delete("Unsnooze", "unibox/snooze"), Get("Scheduled", "unibox/scheduled", "rows"),
    Delete("CancelScheduled", "unibox/scheduled/{taskID}") }

WarmupRoutingService ==
  { Get("List", "warmup/routing", "part"), Post("Create", "warmup/routing", "params", "one", "add"),
    Patch("Update", "warmup/routing/{id}", "params", "one"), Delete("Delete", "warmup/routing/{id}") }

TaskService ==
  { Get("DeadLetters", "tasks/dlq", "rows"),
    Post("Replay", "tasks/dlq/{id}/replay", "none", "nothing", "add") }

WebhookService ==
  { Get("List", "webhooks", "one"), Post("Create", "webhooks", "params", "one", "add"),
    Patch("Update", "webhooks/{id}", "params", "one"), Delete("Delete", "webhooks/{id}"),
    Post("RotateSecret", "webhooks/{id}/rotate-secret", "none", "part", "add"),
    Post("Verify", "webhooks/{id}/verify", "none", "nothing", "set"),
    Get("EventTypes", "webhooks/event-types", "part"), Get("Deliveries", "webhooks/deliveries", "page"),
    Get("EndpointDeliveries", "webhooks/{id}/deliveries", "page"),
    Post("Redeliver", "webhooks/deliveries/{deliveryID}/redeliver", "none", "nothing", "add"),
    Get("Drops", "webhooks/throttle-drops", "part") }

WebsiteTrackingService ==
  { Get("Settings", "website-tracking/settings", "one"),
    Patch("UpdateSettings", "website-tracking/settings", "params", "one"),
    Post("RotateKey", "website-tracking/settings/rotate-key", "none", "one", "add") }

Services ==
  << AdvisorService, AgentToolService, GenerationService, SkillService,
     AnalyticsService, APIKeyService, AssistantSessions,
     AssistantConnections, AuditLogService, AuthSignIn, AuthHandshake,
     AuthAccount, AuthTwoFA, AuthPasskeys, AutomationService,
     BillingService, BillingReferrals, CampaignService, CampaignParts,
     CloudLinkConnect, CloudLinkMailboxes, ContactService, ContactSearch,
     ContactFiles, CRMService, CRMTaskRemoval, EmailService, EmailSending,
     EmailOnboarding, FormService, FormFiles, GroupService,
     IntegrationService, IntegrationConsent, MeetingService,
     IntegrationBookings, LeadSyncService, MetaService, MetaRealtime,
     MetaTicket, OAuthAppService, OAuthRegistration, OrganizationService,
     OrganizationInvitations, OrganizationLimits, OrganizationTransfer,
     OutreachService, DeliverabilityService, PoolLinkService, PoolLinkAdmin,
     SegmentService, SuppressionService, TeamService, TemplateService,
     UniboxService, UniboxDrafts, WarmupRoutingService, TaskService,
     WebhookService, WebsiteTrackingService >>

Operations == UNION {Services[i] : i \in DOMAIN Services}

\* The second method of a route, which the methods' own comments describe as
\* a variant of the first: one more query parameter or body field.
Variants ==
  {<<"ListFunctions", "ai/tools">>, <<"Test", "automations/{id}/test">>,
   <<"StartWithOptions", "campaigns/{id}/start">>, <<"ListTimeline", "contacts/{id}/timeline">>,
   <<"SourcesForCampaign", "lead-sync/sources">>, <<"MarkFolderSeen", "unibox/seen">>}

\* No two methods reach the same verb and route but for those variants: a
\* method copied from its neighbour with the neighbour's path would.
ASSUME RoutesDistinct ==
  \A i, j \in DOMAIN Services : \A o \in Services[i], p \in Services[j] :
    o.verb = p.verb /\ o.route = p.route =>
      i = j /\ (o = p \/ {<<o.name, o.route>>, <<p.name, p.route>>} \cap Variants # {})

=============================================================================
