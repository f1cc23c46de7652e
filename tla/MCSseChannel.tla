---------------------------- MODULE MCSseChannel ----------------------------
EXTENDS SseChannelProps
=============================================================================
