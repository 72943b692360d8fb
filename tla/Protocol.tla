------------------------------ MODULE Protocol ------------------------------
(***************************************************************************)
(* What the two ends of a connection agree on without a common definition: *)
(* the body that Client::<operation> puts into a request, the answer that  *)
(* Server::onMessage gives, and the body that Client::loop casts it to.    *)
(***************************************************************************)
EXTENDS Serialization

\* The requests of a Client, with the body that is put into their std::any:
\* those about a message or a reply ...
MessageRequest ==
    [MessageHistoryRequest |-> "uint64", ReplyHistoryRequest |-> "uint64",
     MessageStoreRequest |-> "MessageInfo", ReplyStoreRequest |-> "ReplyInfo",
     MessageDeleteRequest |-> "MessageInfo", MessageReactionRequest |-> "MessageInfo"]

\* ... those that change a channel or who is in it ...
ChannelRequest ==
    [ChannelDeleteRequest |-> "string", ChannelLeaveRequest |-> "string",
     ChannelCreateRequest |-> "string", ChannelSubscribeRequest |-> "ChannelSubscriptionInfo",
     DirectMessageCreateRequest |-> "uint64"]

\* ... and the rest.
AccountRequest ==
    [ServerPing |-> "none", MessageAll |-> "none", ChannelListRequest |-> "none",
     ChannelSubscriptionListRequest |-> "none", RegistrationRequest |-> "RegistrationInfo",
     LoginRequest |-> "LoginInfo"]

ClientRequest ==
    [type \in DOMAIN MessageRequest \cup DOMAIN ChannelRequest \cup DOMAIN AccountRequest |->
        CASE type \in DOMAIN MessageRequest -> MessageRequest[type]
          [] type \in DOMAIN ChannelRequest -> ChannelRequest[type]
          [] type \in DOMAIN AccountRequest -> AccountRequest[type]]

\* The requests that go to a repository: the type and the body of the answer.
MessageAnswer ==
    [MessageHistoryRequest |-> [type |-> "MessageHistoryAnswer", body |-> "vector<MessageInfo>"],
     MessageStoreRequest |-> [type |-> "MessageStoreAnswer", body |-> "StoringMessageCodes"],
     ReplyHistoryRequest |-> [type |-> "ReplyHistoryAnswer", body |-> "vector<ReplyInfo>"],
     ReplyStoreRequest |-> [type |-> "ReplyStoreAnswer", body |-> "StoringReplyCodes"],
     MessageDeleteRequest |-> [type |-> "MessageDeleteAnswer", body |-> "DeletingMessageCodes"],
     MessageEditRequest |-> [type |-> "MessageEditAnswer", body |-> "EditingMessageCodes"],
     MessageReactionRequest |-> [type |-> "MessageReactionAnswer", body |-> "ReactionMessageCodes"]]

AccountAnswer ==
    [ChannelListRequest |-> [type |-> "ChannelListRequest", body |-> "vector<ChannelInfo>"],
     RegistrationRequest |-> [type |-> "RegistrationAnswer", body |-> "RegistrationCodes"],
     LoginRequest |-> [type |-> "LoginAnswer", body |-> "bool"]]

ChannelAnswer ==
    [ChannelLeaveRequest |-> [type |-> "ChannelLeaveAnswer", body |-> "ChannelLeaveCodes"],
     ChannelSubscribeRequest |-> [type |-> "ChannelSubscribeAnswer", body |-> "ChannelSubscribingCodes"],
     ChannelSubscriptionListRequest |-> [type |-> "ChannelSubscriptionListAnswer", body |-> "vector<uint64>"],
     ChannelDeleteRequest |-> [type |-> "ChannelDeleteAnswer", body |-> "ChannelDeleteCode"],
     ChannelCreateRequest |-> [type |-> "ChannelCreateAnswer", body |-> "ChannelCreateCodes"],
     DirectMessageCreateRequest |-> [type |-> "DirectMessageCreateAnswer", body |-> "DirectMessageStatus"]]

Answer ==
    [type \in DOMAIN MessageAnswer \cup DOMAIN AccountAnswer \cup DOMAIN ChannelAnswer |->
        CASE type \in DOMAIN MessageAnswer -> MessageAnswer[type]
          [] type \in DOMAIN AccountAnswer -> AccountAnswer[type]
          [] type \in DOMAIN ChannelAnswer -> ChannelAnswer[type]]

\* The messages that loop() has a case for, with the type it casts the body to.
LoopCast ==
    [ServerAccept |-> "none", ServerPing |-> "none", ServerMessage |-> "none",
     LoginAnswer |-> "bool", RegistrationAnswer |-> "RegistrationCodes",
     ChannelListRequest |-> "vector<ChannelInfo>",
     ChannelSubscriptionListAnswer |-> "vector<uint64>",
     MessageHistoryAnswer |-> "vector<MessageInfo>", ReplyHistoryAnswer |-> "vector<ReplyInfo>",
     MessageStoreAnswer |-> "StoringMessageCodes", ReplyStoreAnswer |-> "StoringReplyCodes",
     MessageDeleteAnswer |-> "DeletingMessageCodes",
     MessageReactionAnswer |-> "ReactionMessageCodes",
     ChannelSubscribeAnswer |-> "ChannelSubscribingCodes",
     ChannelLeaveAnswer |-> "ChannelLeaveCodes", ChannelDeleteAnswer |-> "ChannelDeleteCode",
     ChannelCreateAnswer |-> "ChannelCreateCodes",
     DirectMessageCreateAnswer |-> "DirectMessageStatus"]

\* What a reader's any holds after the pipeline, when the sender put b into it.
Arrives(type, b) == IF b # "none" /\ Serializes(type, b) /\ Deserializes(type, b) THEN b ELSE "none"
==============================================================================
