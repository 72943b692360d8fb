----------------------------- MODULE MCChatPage -----------------------------
EXTENDS ChatPage
==============================================================================
