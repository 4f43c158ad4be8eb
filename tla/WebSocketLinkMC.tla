---------------------------- MODULE WebSocketLinkMC ----------------------------
EXTENDS WebSocketLink
===============================================================================
