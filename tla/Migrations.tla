----------------------------- MODULE Migrations -----------------------------
(***************************************************************************)
(* src/src/migrations: what each migration does to the tables and columns  *)
(* of the database.  A schema is a set of pairs <<table, column>>; a table *)
(* that does not exist has none.  Types, defaults, indexes, enum values    *)
(* and constraints are abstracted to the columns the statement names: a    *)
(* statement fails if one of them is missing, or if it adds what is there  *)
(* already.  The body of a migration that only changes rows, indexes,      *)
(* constraints or enum types is one Uses per table.                        *)
(***************************************************************************)
EXTENDS Naturals, Sequences, SequencesExt

\* A statement on a table: the columns it requires, those that must not be
\* there, those it adds and those it removes.
Alter(table, requires, forbids, adds, removes) ==
    [table |-> table, creates |-> FALSE, drops |-> FALSE, requires |-> requires,
     forbids |-> forbids, adds |-> adds, removes |-> removes]

CreateTable(table, columns) ==
    [Alter(table, {}, {}, columns, {}) EXCEPT !.creates = TRUE]
DropTable(table) == [Alter(table, {}, {}, {}, {}) EXCEPT !.drops = TRUE]
AddColumns(table, columns) == Alter(table, {}, columns, columns, {})
DropColumns(table, columns) == Alter(table, columns, {}, {}, columns)
AddIfMissing(table, columns) == Alter(table, {}, {}, columns, {})
DropIfThere(table, columns) == Alter(table, {}, {}, {}, columns)
Rename(table, old, new) == Alter(table, {old}, {new}, {new}, {old})
Uses(table, columns) == Alter(table, columns, {}, {}, {})

Exists(schema, table) == \E p \in schema : p[1] = table

\* The statement succeeds on the schema.
Applies(schema, st) ==
    /\ Exists(schema, st.table) = ~st.creates
    /\ \A c \in st.requires : <<st.table, c>> \in schema
    /\ \A c \in st.forbids : <<st.table, c>> \notin schema

Takes(st, p) == p[1] = st.table /\ (st.drops \/ p[2] \in st.removes)

\* What a statement that succeeds makes of the schema.
Execute(schema, st) ==
    {p \in schema : ~Takes(st, p)} \cup {<<st.table, c>> : c \in st.adds}

\* The schemas a list of statements passes through: after[n] is what the first
\* n of them leave.
Schemas(schema, sts) ==
    LET after[n \in 0 .. Len(sts)] ==
            IF n = 0 THEN schema ELSE Execute(after[n - 1], sts[n])
    IN  after

Outcome(schema, sts) == Schemas(schema, sts)[Len(sts)]

\* No statement of the list fails: the transaction gets to its end.
RunsOn(schema, sts) ==
    \A n \in 1 .. Len(sts) : Applies(Schemas(schema, sts)[n - 1], sts[n])

-----------------------------------------------------------------------------
(* The migrations, in the order of their time stamps.                        *)

\* Full text indexes on messages: the first migration in time stamp order names
\* a table that only the fourth one creates.
AddMessageFullTextSearch ==
    [up   |-> <<Uses("messages", {"content", "searchableText", "planetId", "createdAt",
                  "deletedAt"})>>,
     down |-> << >>]

\* The foreign key of push_tokens needs users, which does not exist yet.
CreatePushTokenTable ==
    [up   |-> <<CreateTable("push_tokens", {"id", "userId", "token", "platform", "deviceId",
                  "appVersion", "deviceModel", "osVersion", "isTokenActive", "lastUsedAt",
                  "failureCount", "lastFailureAt", "metadata", "createdAt", "updatedAt"}),
              Uses("users", {"id"})>>,
     down |-> <<DropTable("push_tokens")>>]

AddPerformanceIndexes ==
    [up   |-> <<Uses("messages", {"planetId", "createdAt"}),
              Uses("notifications", {"userId", "status"}),
              Uses("travels", {"status", "visibility"}),
              Uses("planet_users", {"userId", "status"}),
              Uses("travel_users", {"userId", "status"})>>,
     down |-> << >>]

CreateAdmins ==
    CreateTable("admins", {"id", "name", "email", "password", "refreshToken",
        "createdAt", "updatedAt"})

CreateAnalytics ==
    CreateTable("analytics", {"id", "type", "entityType", "entityId",
        "period", "date", "metrics", "dimensions", "comparison", "forecast",
        "label", "description", "metadata", "createdAt", "updatedAt"})

CreateUsers ==
    CreateTable("users", {"id", "socialId", "provider", "name", "email",
        "avatar", "status", "isOnline", "lastSeenAt", "notificationsEnabled",
        "language", "timezone", "refreshToken", "refreshTokenExpiresAt",
        "isActive", "isBanned", "banExpiresAt", "loginCount", "firstLoginAt",
        "socialMetadata", "createdAt", "updatedAt"})

CreateFileUploads ==
    CreateTable("file_uploads", {"id", "userId", "originalFileName",
        "storageKey", "mimeType", "fileSize", "uploadType", "status",
        "uploadId", "totalChunks", "completedChunks", "uploadedBytes",
        "progress", "folder", "publicUrl", "metadata", "errorMessage",
        "retryCount", "startedAt", "completedAt", "lastChunkUploadedAt",
        "createdAt", "updatedAt", "user_id"})

CreateTravels ==
    CreateTable("travels", {"id", "name", "description", "imageUrl",
        "createdBy", "status", "isActive", "startDate", "endDate",
        "expiryDate", "visibility", "inviteCode", "inviteCodeEnabled",
        "maxPlanets", "maxGroupMembers", "memberCount", "planetCount",
        "totalMessages", "lastActivityAt", "settings", "metadata",
        "createdAt", "updatedAt"})

CreatePlanets ==
    CreateTable("planets", {"id", "name", "description", "imageUrl", "type",
        "travelId", "createdBy", "status", "isActive", "timeRestriction",
        "memberCount", "maxMembers", "messageCount", "lastMessageAt",
        "lastMessagePreview", "lastMessageUserId", "settings", "partnerId",
        "metadata", "createdAt", "updatedAt"})

CreateMessages ==
    CreateTable("messages", {"id", "type", "planetId", "senderId", "content",
        "fileMetadata", "systemMetadata", "status", "isDeleted", "deletedAt",
        "deletedBy", "isEdited", "editedAt", "originalContent",
        "replyToMessageId", "replyCount", "readCount", "firstReadAt",
        "reactions", "searchableText", "metadata", "createdAt", "updatedAt"})

CreateNotifications ==
    CreateTable("notifications", {"id", "userId", "type", "title", "content",
        "priority", "status", "isRead", "readAt", "travelId", "planetId",
        "messageId", "triggeredBy", "channels", "deliveryResults",
        "scheduledAt", "expiresAt", "data", "metadata", "createdAt",
        "updatedAt"})

CreatePerformanceMetrics ==
    CreateTable("performance_metrics", {"id", "type", "category",
        "resourceType", "resourceId", "value", "unit", "metadata",
        "createdAt"})

CreatePerformanceAlerts ==
    CreateTable("performance_alerts", {"id", "metricType", "severity",
        "title", "description", "threshold", "currentValue", "resourceType",
        "resourceId", "isResolved", "resolvedAt", "context", "createdAt"})

CreatePlanetUsers ==
    CreateTable("planet_users", {"id", "planetId", "userId", "role", "status",
        "joinedAt", "lastSeenAt", "leftAt", "invitedBy", "invitedAt",
        "respondedAt", "lastReadMessageId", "lastReadAt", "unreadCount",
        "notificationsEnabled", "isMuted", "muteUntil", "isBanned",
        "bannedAt", "banExpiresAt", "bannedBy", "banReason", "permissions",
        "personalSettings", "messageCount", "fileCount", "firstMessageAt",
        "lastMessageAt", "metadata", "createdAt", "updatedAt"})

CreateProfiles ==
    CreateTable("profiles", {"id", "userId", "nickname", "name", "gender",
        "age", "occupation", "bio", "profileImageUrl", "settings"})

CreateReadReceipts ==
    CreateTable("message_read_receipts", {"id", "messageId", "userId",
        "planetId", "isRead", "readAt", "deviceType", "userAgent", "metadata",
        "createdAt", "updatedAt"})

CreateSecurityEvents ==
    CreateTable("security_events", {"id", "type", "riskLevel", "status",
        "title", "description", "userId", "ipAddress", "userAgent",
        "requestUrl", "requestMethod", "resourceType", "resourceId",
        "fileName", "fileType", "fileSize", "metadata", "detectionSource",
        "resolvedAt", "resolvedBy", "resolutionNotes", "createdAt",
        "updatedAt"})

CreateBlockedIps ==
    CreateTable("blocked_ips", {"id", "ipAddress", "reason", "riskLevel",
        "isActive", "blockedUntil", "blockedBy", "blockCount",
        "lastViolationAt", "metadata", "createdAt", "updatedAt"})

CreateFileScanResults ==
    CreateTable("file_scan_results", {"id", "fileHash", "fileName",
        "mimeType", "fileSize", "scanStatus", "threatLevel", "isMalicious",
        "isSpam", "scanResults", "uploadedBy", "uploadIp", "storageKey",
        "scanStartedAt", "scanCompletedAt", "createdAt", "updatedAt"})

CreateStreamingSessions ==
    CreateTable("streaming_sessions", {"id", "userId", "sessionId",
        "storageKey", "status", "currentQuality", "initialQuality",
        "deviceType", "userAgent", "ipAddress", "bytesTransferred",
        "qualityChanges", "bufferingEvents", "totalBufferingTime",
        "playbackTime", "estimatedBandwidth", "averageBitrate",
        "qualityHistory", "bufferingHistory", "errorLogs", "country", "city",
        "edgeServer", "startedAt", "endedAt", "lastActivityAt", "createdAt",
        "updatedAt", "user_id"})

CreateTravelUsers ==
    CreateTable("travel_users", {"id", "travelId", "userId", "role", "status",
        "joinedAt", "lastSeenAt", "leftAt", "invitedBy", "invitedAt",
        "respondedAt", "isBanned", "bannedAt", "banExpiresAt", "bannedBy",
        "banReason", "permissions", "settings", "messageCount",
        "createdPlanetCount", "inviteCount", "metadata", "createdAt",
        "updatedAt"})

CreateVideoProcessing ==
    CreateTable("video_processing", {"id", "userId", "fileUploadId",
        "processingType", "status", "qualityProfile", "inputStorageKey",
        "originalFileName", "inputFileSize", "inputMimeType",
        "outputStorageKeys", "outputTotalSize", "outputUrls", "progress",
        "estimatedDurationSeconds", "actualDurationSeconds", "inputMetadata",
        "outputMetadata", "thumbnails", "errorMessage", "processingLogs",
        "retryCount", "startedAt", "completedAt", "createdAt", "updatedAt",
        "user_id", "file_upload_id"})

CreateQueryResultCache ==
    CreateTable("query-result-cache", {"id", "identifier", "time", "duration",
        "query", "result"})

DropProcessingTables ==
    <<DropTable("query-result-cache"), DropTable("video_processing")>>

DropSecurityTables ==
    <<DropTable("travel_users"), DropTable("streaming_sessions"),
        DropTable("file_scan_results"), DropTable("blocked_ips"),
        DropTable("security_events")>>

DropMemberTables ==
    <<DropTable("message_read_receipts"), DropTable("profiles"),
        DropTable("planet_users"), DropTable("performance_alerts"),
        DropTable("performance_metrics")>>

DropMessageTables ==
    <<DropTable("notifications"), DropTable("messages")>>

DropTravelTables ==
    <<DropTable("planets"), DropTable("travels")>>

DropAccountTables ==
    <<DropTable("file_uploads"), DropTable("users"), DropTable("analytics"),
        DropTable("admins")>>

\* The foreign keys at the end of up name columns of the tables just created.
InitialSchema ==
    [up   |-> <<CreateAdmins, CreateAnalytics, CreateUsers,
                CreateFileUploads, CreateTravels, CreatePlanets,
                CreateMessages, CreateNotifications, CreatePerformanceMetrics,
                CreatePerformanceAlerts, CreatePlanetUsers, CreateProfiles,
                CreateReadReceipts, CreateSecurityEvents, CreateBlockedIps,
                CreateFileScanResults, CreateStreamingSessions, CreateTravelUsers,
                CreateVideoProcessing, CreateQueryResultCache>>,
     down |-> DropProcessingTables \o DropSecurityTables \o DropMemberTables
                \o DropMessageTables \o DropTravelTables \o DropAccountTables]

ChangeCreatedByToAdminId ==
    [up   |-> <<Rename("travels", "createdBy", "createdByAdminId"),
              Rename("planets", "createdBy", "createdByAdminId")>>,
     down |-> <<Rename("planets", "createdByAdminId", "createdBy"),
              Rename("travels", "createdByAdminId", "createdBy")>>]

CreateSystemUsersForHardDelete ==
    [up   |-> <<Uses("users", {"socialId", "provider", "name", "email", "avatar", "status",
                  "isOnline", "isActive", "isBanned", "createdAt", "updatedAt"}),
              Uses("admins", {"name", "email", "password", "createdAt", "updatedAt"}),
              Uses("profiles", {"userId", "nickname", "name", "gender", "age", "occupation",
                  "bio", "profileImageUrl", "settings"})>>,
     down |-> <<Uses("profiles", {"userId"}),
              Uses("admins", {"id"}),
              Uses("users", {"id"})>>]

AddHardDeleteAnonymizationFieldsUp ==
    <<AddColumns("file_uploads", {"isFromDeletedUser"}),
      AddColumns("messages", {"isFromDeletedUser", "deletedUserType"}),
      AddColumns("planet_users", {"isDeletedUser"}),
      AddColumns("streaming_sessions", {"isFromDeletedUser"}),
      AddColumns("travel_users", {"isDeletedUser"}),
      AddColumns("video_processing", {"isFromDeletedUser"})>>

AddHardDeleteAnonymizationFieldsDown ==
    <<DropColumns("video_processing", {"isFromDeletedUser"}),
      DropColumns("travel_users", {"isDeletedUser"}),
      DropColumns("streaming_sessions", {"isFromDeletedUser"}),
      DropColumns("planet_users", {"isDeletedUser"}),
      DropColumns("messages", {"deletedUserType", "isFromDeletedUser"}),
      DropColumns("file_uploads", {"isFromDeletedUser"})>>

AddHardDeleteAnonymizationFields ==
    [up |-> AddHardDeleteAnonymizationFieldsUp, down |-> AddHardDeleteAnonymizationFieldsDown]

RemoveExpiryDateFromTravel ==
    [up   |-> <<DropColumns("travels", {"expiryDate"})>>,
     down |-> <<AddColumns("travels", {"expiryDate"})>>]

SimplifyTravelStatus ==
    [up   |-> <<Uses("travels", {"status", "createdByAdminId", "endDate", "isActive"})>>,
     down |-> <<Uses("travels", {"status", "endDate", "createdByAdminId", "isActive"})>>]

RemoveIsActiveFromTravel ==
    [up   |-> <<DropColumns("travels", {"isActive"})>>,
     down |-> <<AddColumns("travels", {"isActive"})>>]

SimplifyTravelVisibility ==
    [up   |-> <<Uses("travels", {"visibility", "status"})>>,
     down |-> <<Uses("travels", {"visibility", "status"})>>]

RemoveAdminOwnership ==
    [up   |-> <<DropColumns("travels", {"createdByAdminId"}),
              DropColumns("planets", {"createdByAdminId"})>>,
     down |-> <<AddColumns("planets", {"createdByAdminId"}),
              AddColumns("travels", {"createdByAdminId"})>>]

AddPhoneToUser ==
    [up   |-> <<AddColumns("users", {"phone"})>>,
     down |-> <<DropColumns("users", {"phone"})>>]

AddAdvertisingConsentToUser ==
    [up   |-> <<AddColumns("users", {"advertisingConsentEnabled"})>>,
     down |-> <<DropColumns("users", {"advertisingConsentEnabled"})>>]

SimplifyBanSystem ==
    [up   |-> <<DropColumns("users", {"banExpiresAt"}),
              DropColumns("planet_users", {"banExpiresAt"}),
              DropColumns("travel_users", {"banExpiresAt"})>>,
     down |-> <<AddColumns("travel_users", {"banExpiresAt"}),
              AddColumns("planet_users", {"banExpiresAt"}),
              AddColumns("users", {"banExpiresAt"})>>]

RemovePlanetUserBanSystem ==
    [up   |-> <<DropColumns("planet_users", {"isBanned", "bannedAt", "bannedBy", "banReason"})>>,
     down |-> <<AddColumns("planet_users", {"banReason", "bannedBy", "bannedAt", "isBanned"})>>]

RemoveUserOnlineStatus ==
    [up   |-> <<DropIfThere("users", {"status"})>>,
     down |-> <<AddIfMissing("users", {"status"})>>]

SyncAllEntityChanges ==
    [up   |-> <<DropColumns("users", {"avatar", "isOnline", "lastSeenAt",
                  "refreshTokenExpiresAt", "isActive", "loginCount", "firstLoginAt"})>>,
     down |-> <<AddColumns("users", {"firstLoginAt", "loginCount", "isActive",
                  "refreshTokenExpiresAt", "lastSeenAt", "isOnline", "avatar"})>>]

AddCascadeDeleteRelations ==
    [up   |-> <<Uses("planets", {"travelId"}),
              Uses("messages", {"planetId", "senderId"}),
              Uses("notifications", {"userId", "travelId", "planetId", "triggeredBy"})>>,
     down |-> <<Uses("notifications", {"userId", "travelId", "planetId", "triggeredBy"}),
              Uses("messages", {"planetId", "senderId"}),
              Uses("planets", {"travelId"})>>]

SoftDeleteConfiguration ==
    [up   |-> <<DropIfThere("messages", {"isDeleted"}),
              AddColumns("users", {"deletedAt", "deletedBy", "deletionReason"}),
              AddIfMissing("messages", {"deletionReason"})>>,
     down |-> <<AddColumns("messages", {"isDeleted"}),
              DropIfThere("messages", {"deletionReason"}),
              DropIfThere("users", {"deletionReason", "deletedBy", "deletedAt"})>>]

RemoveUserLanguageTimezone ==
    [up   |-> <<DropColumns("users", {"language", "timezone"})>>,
     down |-> <<AddColumns("users", {"timezone", "language"})>>]

RemoveUserLanguageTimezoneAgain ==
    [up   |-> <<DropIfThere("users", {"language", "timezone"})>>,
     down |-> <<AddColumns("users", {"language", "timezone"})>>]

\* down restores columns the table never had, and drops columns it had from the start.
\* It exchanges columns that profiles has with others, and back, if they are there.
SimpleProfile == {"nickname", "name", "gender", "age", "occupation"}

RichProfile ==
    {"bio", "profileImage", "coverImage", "birthday", "hobbies", "interests", "website",
     "socialLinks", "education", "work", "skills", "profileImageUrl", "settings"}

SimplifyProfileEntity ==
    [up   |-> <<AddIfMissing("profiles", SimpleProfile), DropIfThere("profiles", RichProfile)>>,
     down |-> <<AddIfMissing("profiles", RichProfile), DropIfThere("profiles", SimpleProfile)>>]

SimplifyTravelEntity ==
    [up   |-> <<DropColumns("travels", {"inviteCodeEnabled", "maxPlanets", "maxGroupMembers",
                  "memberCount", "planetCount", "totalMessages", "lastActivityAt", "settings",
                  "metadata"})>>,
     down |-> <<AddColumns("travels", {"metadata", "settings", "lastActivityAt",
                  "totalMessages", "planetCount", "memberCount", "maxGroupMembers",
                  "maxPlanets", "inviteCodeEnabled"})>>]

AddAnnouncementPlanetType ==
    [up   |-> <<Uses("planets", {"type", "isActive", "travelId"})>>,
     down |-> <<Uses("planets", {"type", "travelId", "isActive"})>>]

RemovePlanetStatusArchivedBlocked ==
    [up   |-> <<Uses("planets", {"status", "travelId"})>>,
     down |-> <<Uses("planets", {"status", "travelId"})>>]

RemovePlanetUnusedColumns ==
    [up   |-> <<DropColumns("planets", {"isActive", "memberCount", "maxMembers", "messageCount",
                  "lastMessageAt", "lastMessagePreview", "lastMessageUserId", "settings",
                  "partnerId", "metadata"})>>,
     down |-> <<AddColumns("planets", {"metadata", "partnerId", "settings", "lastMessageUserId",
                  "lastMessagePreview", "lastMessageAt", "messageCount", "maxMembers",
                  "memberCount", "isActive"})>>]

RemoveMessageCountColumns ==
    [up   |-> <<DropColumns("messages", {"replyCount", "readCount"})>>,
     down |-> <<AddColumns("messages", {"readCount", "replyCount"})>>]

\* It looks thirteen columns up by names in lower case, and so finds the three
\* that have no capital.
RemoveTravelUserColumns ==
    [up   |-> <<DropIfThere("travel_users", {"permissions", "settings", "metadata"}),
              Uses("travel_users", {"travelId", "userId", "role", "status", "joinedAt"})>>,
     down |-> << >>]

RemoveLeftStatusFromTravelUser ==
    [up   |-> <<Uses("travel_users", {"status"})>>,
     down |-> << >>]

\* Drops the travel_users columns again, without looking.
RemovePlanetUserColumnsUp ==
    <<DropColumns("planet_users", {"role", "lastSeenAt", "leftAt", "invitedBy", "invitedAt",
          "respondedAt", "lastReadMessageId", "lastReadAt", "unreadCount", "isMuted",
          "muteUntil", "permissions", "personalSettings", "messageCount", "fileCount",
          "firstMessageAt", "lastMessageAt", "metadata"}),
      DropColumns("travel_users", {"lastSeenAt", "leftAt", "invitedBy", "invitedAt",
          "respondedAt", "bannedBy", "permissions", "settings", "messageCount",
          "createdPlanetCount", "inviteCount", "metadata", "isDeletedUser"})>>

RemovePlanetUserColumnsDown ==
    <<AddColumns("travel_users", {"isDeletedUser", "metadata", "inviteCount",
          "createdPlanetCount", "messageCount", "settings", "permissions", "bannedBy",
          "respondedAt", "invitedAt", "invitedBy", "leftAt", "lastSeenAt"}),
      AddColumns("planet_users", {"metadata", "lastMessageAt", "firstMessageAt", "fileCount",
          "messageCount", "personalSettings", "permissions", "muteUntil", "isMuted",
          "unreadCount", "lastReadAt", "lastReadMessageId", "respondedAt", "invitedAt",
          "invitedBy", "leftAt", "lastSeenAt", "role"})>>

RemovePlanetUserColumns ==
    [up |-> RemovePlanetUserColumnsUp, down |-> RemovePlanetUserColumnsDown]

RemoveIsReadAndReadAtFromNotifications ==
    [up   |-> <<DropIfThere("notifications", {"isRead", "readAt", "deliveryResults"})>>,
     down |-> <<AddColumns("notifications", {"deliveryResults", "readAt", "isRead"})>>]

\* Drops ten travel_users columns that RemovePlanetUserColumns has dropped already.
RemoveNotificationMetadataUp ==
    <<DropColumns("notifications", {"metadata"}),
      DropColumns("travel_users", {"lastSeenAt", "leftAt", "invitedBy", "invitedAt",
          "respondedAt", "bannedBy", "messageCount", "createdPlanetCount", "inviteCount",
          "isDeletedUser"})>>

RemoveNotificationMetadataDown ==
    <<AddColumns("travel_users", {"isDeletedUser", "inviteCount", "createdPlanetCount",
          "messageCount", "bannedBy", "respondedAt", "invitedAt", "invitedBy", "leftAt",
          "lastSeenAt"}),
      AddColumns("notifications", {"metadata"})>>

RemoveNotificationMetadata ==
    [up |-> RemoveNotificationMetadataUp, down |-> RemoveNotificationMetadataDown]

RemoveFileUploadLegacyFields ==
    [up   |-> <<DropColumns("file_uploads", {"uploadId", "totalChunks", "completedChunks",
                  "uploadedBytes", "progress", "retryCount", "lastChunkUploadedAt"})>>,
     down |-> <<AddColumns("file_uploads", {"lastChunkUploadedAt", "retryCount", "progress",
                  "uploadedBytes", "completedChunks", "totalChunks", "uploadId"})>>]

AddUserRoleAndDropAdminTable ==
    [up   |-> <<AddColumns("users", {"role"})>>,
     down |-> <<DropColumns("users", {"role"})>>]

UpdateUserEntityForAdminLogin ==
    [up   |-> <<AddColumns("users", {"password"})>>,
     down |-> <<DropColumns("users", {"password"})>>]

RemoveVideoProcessingAndAddCloudflareMedia ==
    [up   |-> <<AddColumns("file_uploads", {"thumbnailUrl", "cloudflareMediaId", "mediaStorage",
                  "mediaVariants"})>>,
     down |-> <<DropColumns("file_uploads", {"mediaVariants", "mediaStorage",
                  "cloudflareMediaId", "thumbnailUrl"})>>]

RemoveUnnecessaryFieldsFromFileUpload ==
    [up   |-> <<DropColumns("file_uploads", {"errorMessage", "startedAt", "completedAt",
                  "isFromDeletedUser", "thumbnailUrl", "cloudflareMediaId", "mediaStorage",
                  "mediaVariants"})>>,
     down |-> <<AddColumns("file_uploads", {"mediaVariants", "mediaStorage",
                  "cloudflareMediaId", "thumbnailUrl", "isFromDeletedUser", "completedAt",
                  "startedAt", "errorMessage"})>>]

AddSessionTrackingFieldsToUser ==
    [up   |-> <<Uses("messages", {"status", "createdAt"})>>,
     down |-> <<Uses("messages", {"status", "createdAt"})>>]

AddSessionTrackingFieldsToUserAgain ==
    [up   |-> <<AddColumns("users", {"bannedAt", "bannedReason", "bannedBy", "bannedUntil",
                  "lastForcedLogout", "sessionVersion"})>>,
     down |-> <<DropColumns("users", {"sessionVersion", "lastForcedLogout", "bannedUntil",
                  "bannedBy", "bannedReason", "bannedAt"})>>]

CreateReportTable ==
    [up   |-> <<CreateTable("reports", {"id", "reporterId", "reportedUserId", "type", "context",
                  "description", "status", "travelId", "planetId", "messageId", "reviewedBy",
                  "adminNotes", "reviewedAt", "resolvedAt", "metadata", "evidenceUrls",
                  "createdAt", "updatedAt"})>>,
     down |-> <<DropTable("reports")>>]

CreateAccommodationTable ==
    [up   |-> <<CreateTable("accommodations", {"id", "name", "description", "createdAt",
                  "updatedAt"}),
              AddColumns("travels", {"accommodationId"})>>,
     down |-> <<DropColumns("travels", {"accommodationId"}),
              DropTable("accommodations")>>]

CreateMissions ==
    CreateTable("missions", {"id", "type", "target", "title", "description", "metadata",
        "startAt", "endAt", "isActive", "maxSubmissions", "allowResubmission",
        "createdAt", "updatedAt"})

CreateMissionTravels ==
    CreateTable("mission_travels", {"id", "missionId", "travelId", "planetId",
        "assignedBy", "isActive", "submissionCount", "assignedAt"})

CreateMissionSubmissions ==
    CreateTable("mission_submissions", {"id", "missionId", "userId", "travelId",
        "submissionType", "content", "status", "reviewedBy", "reviewedAt",
        "reviewComment", "messageId", "submittedAt", "updatedAt"})

CreateMissionTables ==
    [up   |-> <<CreateMissions, CreateMissionTravels, CreateMissionSubmissions>>,
     down |-> <<DropTable("mission_submissions"), DropTable("mission_travels"),
              DropTable("missions")>>]

-----------------------------------------------------------------------------
(* The releases.                                                             *)

Migrations ==
    <<AddMessageFullTextSearch, CreatePushTokenTable, AddPerformanceIndexes,
      InitialSchema, ChangeCreatedByToAdminId,
      CreateSystemUsersForHardDelete, AddHardDeleteAnonymizationFields,
      RemoveExpiryDateFromTravel, SimplifyTravelStatus,
      RemoveIsActiveFromTravel, SimplifyTravelVisibility,
      RemoveAdminOwnership, AddPhoneToUser, AddAdvertisingConsentToUser,
      SimplifyBanSystem, RemovePlanetUserBanSystem, RemoveUserOnlineStatus,
      SyncAllEntityChanges, AddCascadeDeleteRelations,
      SoftDeleteConfiguration, RemoveUserLanguageTimezone,
      RemoveUserLanguageTimezoneAgain, SimplifyProfileEntity,
      SimplifyTravelEntity, AddAnnouncementPlanetType,
      RemovePlanetStatusArchivedBlocked, RemovePlanetUnusedColumns,
      RemoveMessageCountColumns, RemoveTravelUserColumns,
      RemoveLeftStatusFromTravelUser, RemovePlanetUserColumns,
      RemoveIsReadAndReadAtFromNotifications, RemoveNotificationMetadata,
      RemoveFileUploadLegacyFields, AddUserRoleAndDropAdminTable,
      UpdateUserEntityForAdminLogin,
      RemoveVideoProcessingAndAddCloudflareMedia,
      RemoveUnnecessaryFieldsFromFileUpload, AddSessionTrackingFieldsToUser,
      AddSessionTrackingFieldsToUserAgain, CreateReportTable,
      CreateAccommodationTable, CreateMissionTables>>

Latest == Len(Migrations)

\* What a list of statements gives on an empty database: the columns that one
\* adds and none after it takes.
Built(sts) ==
    UNION {{p \in {<<sts[n].table, c>> : c \in sts[n].adds} :
               \A m \in n + 1 .. Len(sts) : ~Takes(sts[m], p)} : n \in 1 .. Len(sts)}

\* The releases: which migrations are recorded and which schema they give.  How
\* a database got there is left open: the first three migrations cannot run on
\* an empty one.
Releases ==
    {[records |-> 1 .. k,
      schema  |-> Built(FlattenSeq([n \in 1 .. k |-> Migrations[n].up]))] :
         k \in 0 .. Latest}
=============================================================================
