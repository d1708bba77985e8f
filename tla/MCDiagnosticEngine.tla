--------------------------- MODULE MCDiagnosticEngine ---------------------------
(* Instances of DiagnosticEngine for TLC.                                  *)
EXTENDS DiagnosticEngine

CONSTANTS s1, c1, c2

OneSession == {s1}
TwoCalls == {c1, c2}

\* The limiter shares nothing with the other two but the session.
Parts == {{"rotationMonitor", "connectionTracker"}, {"rateLimiter"}}
=============================================================================
