----------------------------- MODULE MCLifecycle -----------------------------
EXTENDS Lifecycle

CONSTANTS p1, p2, q1, q2

=============================================================================
