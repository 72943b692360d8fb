---------------------------- MODULE Serialization ----------------------------
(***************************************************************************)
(* The body pipeline of a Connection: SerializationHandler, then            *)
(* CompressionHandler, then EncryptionHandler on the way out, and the same  *)
(* three backwards on the way in.  A body is the name of the C++ type held  *)
(* by the std::any of Message::mBody ("none" when the any is empty): the    *)
(* only thing the pipeline looks at is whether it is the type that the      *)
(* switch over the message type asks for.                                   *)
(***************************************************************************)
EXTENDS Naturals

\* The types whose case is an empty break, in both directions.
Bodiless == {"ServerAccept", "ServerPing", "MessageAll", "ServerMessage"}

\* The types that the outgoing switch and the incoming switch both know, with
\* the type of body they ask for: the messages and replies of a channel ...
ConversationBody ==
    [ChannelListRequest |-> "vector<ChannelInfo>", MessageHistoryRequest |-> "uint64",
     MessageHistoryAnswer |-> "vector<MessageInfo>", MessageStoreRequest |-> "MessageInfo",
     MessageStoreAnswer |-> "StoringMessageCodes", ReplyHistoryRequest |-> "uint64",
     ReplyHistoryAnswer |-> "vector<ReplyInfo>", ReplyStoreRequest |-> "ReplyInfo",
     ReplyStoreAnswer |-> "StoringReplyCodes", MessageDeleteRequest |-> "MessageInfo",
     MessageDeleteAnswer |-> "DeletingMessageCodes", MessageReactionRequest |-> "MessageInfo",
     MessageReactionAnswer |-> "ReactionMessageCodes"]

\* ... and the accounts and the channels.
AccountBody ==
    [RegistrationRequest |-> "RegistrationInfo", RegistrationAnswer |-> "RegistrationCodes",
     LoginRequest |-> "LoginInfo", LoginAnswer |-> "bool", ChannelLeaveRequest |-> "string",
     ChannelLeaveAnswer |-> "ChannelLeaveCodes",
     ChannelSubscribeRequest |-> "ChannelSubscriptionInfo",
     ChannelSubscribeAnswer |-> "ChannelSubscribingCodes",
     ChannelSubscriptionListRequest |-> "ChannelSubscriptionInfo",
     ChannelSubscriptionListAnswer |-> "vector<uint64>", ChannelDeleteRequest |-> "string",
     ChannelDeleteAnswer |-> "ChannelDeleteCode", ChannelCreateRequest |-> "string",
     ChannelCreateAnswer |-> "ChannelCreateCodes", DirectMessageCreateRequest |-> "uint64",
     DirectMessageCreateAnswer |-> "DirectMessageStatus"]

SharedBody == [type \in DOMAIN ConversationBody \cup DOMAIN AccountBody |->
                  IF type \in DOMAIN AccountBody THEN AccountBody[type] ELSE ConversationBody[type]]

\* Only the outgoing switch has a case for these two.
EditBody == [MessageEditRequest |-> "MessageInfo", MessageEditAnswer |-> "EditingMessageCodes"]

MessageType == Bodiless \cup DOMAIN SharedBody \cup DOMAIN EditBody

\* handleOutcomingMessage's switch: "ignored" is the empty break.
OutBody(type) == IF type \in Bodiless THEN "ignored"
                 ELSE IF type \in DOMAIN EditBody THEN EditBody[type]
                 ELSE SharedBody[type]

\* handleIncomingMessageBody's switch: "unknown" leaves the state FAILURE.
InBody_NoReactions(type) == IF type \in DOMAIN SharedBody \ {"MessageReactionAnswer"}
                            THEN SharedBody[type] ELSE "unknown"
InBody(type) == IF type \in DOMAIN SharedBody THEN SharedBody[type] ELSE "unknown"

\* A MessageInfo, alone or in a vector, of none of the three kinds or with the
\* content of another kind than its own: the archive function throws.
Malformed == [malformedMessage |-> "MessageInfo", malformedHistory |-> "vector<MessageInfo>"]
AnyType(body) == IF body \in DOMAIN Malformed THEN Malformed[body] ELSE body

\* YasSerializer::serialize: a std::exception becomes FAILURE.
Archived(body) == body \notin DOMAIN Malformed

\* A message of this type with this body leaves the switch with SUCCESS: there
\* is no body, the type takes none, or the any_cast finds the type it asks for
\* (bad_any_cast is caught and becomes FAILURE) and the archive takes it.
Serializes(type, body) ==
    \/ body = "none"
    \/ OutBody(type) = "ignored"
    \/ OutBody(type) = AnyType(body) /\ Archived(body)

\* The number of body units that result: none when nothing was serialized.
SerializedUnits(type, body, units) ==
    IF body = "none" \/ OutBody(type) = "ignored" THEN 0 ELSE units

\* The switch of the receiver restores a body of this type from the bytes of
\* one; of other bytes YasSerializer::deserialize makes FAILURE when they do not
\* load, and the readers of this operator compare the bytes themselves.
Deserializes(type, body) == InBody(type) = body

\* What the reader is told.  The chain starts with the EncryptionHandler, and
\* it and the CompressionHandler return SUCCESS whatever the handler after
\* them has returned.
IncomingResult(serializationResult) == "SUCCESS"
==============================================================================
