----------------------------- MODULE MCSemaphore -----------------------------
EXTENDS SemaphoreProperties
=============================================================================
