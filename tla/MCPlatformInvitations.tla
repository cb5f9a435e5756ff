------------------------- MODULE MCPlatformInvitations -------------------------
EXTENDS PlatformInvitations
=============================================================================
