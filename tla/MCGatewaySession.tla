-------------------------- MODULE MCGatewaySession --------------------------
(* A workspace channel and one extra; c.topics names the workspace too.    *)
EXTENDS GatewaySession

CONSTANTS org, user

MCTopics == {org, user}
MCWorkspaceOnly == {org}
MCExtraTopics == <<org, user>>
MCNoExtraTopics == <<>>
=============================================================================
