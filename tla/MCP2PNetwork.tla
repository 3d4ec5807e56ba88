---------------------------- MODULE MCP2PNetwork ----------------------------
EXTENDS P2PNetwork
CONSTANTS p1
MCBootstrap == <<Malformed, p1>>
=============================================================================
