----------------------------- MODULE MCLifecycle -----------------------------
EXTENDS Lifecycle

CONSTANTS sigint, sigterm
=============================================================================
