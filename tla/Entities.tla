------------------------------ MODULE Entities ------------------------------
(***************************************************************************)
(* The columns each TypeORM entity of src/src/modules maps, which are the  *)
(* columns every SELECT and INSERT the application sends for the entity    *)
(* names: a statement on an entity works if the table has all of them.     *)
(***************************************************************************)

\* BaseActiveRecord, which every entity extends.
TimeStamps == {"createdAt", "updatedAt"}

UserAccount ==
    {"id", "socialId", "provider", "name", "email", "phone", "role",
     "notificationsEnabled", "advertisingConsentEnabled", "password",
     "refreshToken"}

UserModeration ==
    {"isBanned", "bannedAt", "bannedReason", "bannedBy", "bannedUntil",
     "lastForcedLogout", "sessionVersion", "socialMetadata", "deletedAt",
     "deletedBy", "deletionReason"}

Profile == {"id", "userId", "nickname", "name", "gender", "age", "occupation"}

PushToken ==
    {"id", "userId", "token", "platform", "deviceId", "appVersion", "deviceModel",
     "osVersion", "isTokenActive", "lastUsedAt", "failureCount", "lastFailureAt",
     "metadata"}

Accommodation == {"id", "name", "description"}

Travel ==
    {"id", "name", "description", "imageUrl", "status", "startDate", "endDate",
     "accommodationId", "visibility", "inviteCode"}

TravelUser ==
    {"id", "travelId", "userId", "role", "status", "joinedAt", "isBanned",
     "bannedAt", "banReason"}

Planet ==
    {"id", "name", "description", "imageUrl", "type", "travelId", "status",
     "timeRestriction"}

PlanetUser ==
    {"id", "planetId", "userId", "status", "joinedAt", "notificationsEnabled",
     "isDeletedUser"}

MessageContent ==
    {"id", "type", "planetId", "senderId", "isFromDeletedUser", "deletedUserType",
     "content", "fileMetadata", "systemMetadata", "status", "deletedAt", "deletedBy",
     "deletionReason"}

MessageTraces ==
    {"isEdited", "editedAt", "originalContent", "replyToMessageId", "firstReadAt",
     "reactions", "searchableText", "metadata"}

MessageReadReceipt ==
    {"id", "messageId", "userId", "planetId", "isRead", "readAt", "deviceType",
     "userAgent", "metadata"}

Notification ==
    {"id", "userId", "type", "title", "content", "priority", "status", "travelId",
     "planetId", "messageId", "triggeredBy", "channels", "scheduledAt", "expiresAt",
     "data"}

\* The relation to the user joins on a column of its own, user_id.
FileUpload ==
    {"id", "userId", "user_id", "originalFileName", "storageKey", "mimeType",
     "fileSize", "uploadType", "status", "folder", "publicUrl", "metadata"}

Report ==
    {"id", "reporterId", "reportedUserId", "type", "context", "description",
     "status", "travelId", "planetId", "messageId", "reviewedBy", "adminNotes",
     "reviewedAt", "resolvedAt", "metadata", "evidenceUrls"}

Mission ==
    {"id", "type", "target", "title", "description", "metadata", "startAt", "endAt",
     "active", "maxSubmissions", "allowResubmission"}

MissionTravel ==
    {"id", "missionId", "travelId", "planetId", "assignedBy", "active",
     "submissionCount"}

MissionSubmission ==
    {"id", "missionId", "userId", "travelId", "submissionType", "content", "status",
     "reviewedBy", "reviewedAt", "reviewComment", "messageId"}

\* The table of each entity, and the columns the entity declares in it.
Declared ==
    [users                 |-> UserAccount \cup UserModeration,
     profiles              |-> Profile,
     push_tokens           |-> PushToken,
     accommodations        |-> Accommodation,
     travels               |-> Travel,
     travel_users          |-> TravelUser,
     planets               |-> Planet,
     planet_users          |-> PlanetUser,
     messages              |-> MessageContent \cup MessageTraces,
     message_read_receipts |-> MessageReadReceipt,
     notifications         |-> Notification,
     file_uploads          |-> FileUpload,
     reports               |-> Report,
     missions              |-> Mission,
     mission_travels       |-> MissionTravel,
     mission_submissions   |-> MissionSubmission]

\* The columns that TypeORM names for a row of the table.
Mapped(table) == Declared[table] \cup TimeStamps

\* The entities whose statements a database with this schema rejects.
Rejected(schema) ==
    {table \in DOMAIN Declared : \E c \in Mapped(table) : <<table, c>> \notin schema}
=============================================================================
