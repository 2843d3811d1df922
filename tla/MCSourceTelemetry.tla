------------------------- MODULE MCSourceTelemetry -------------------------
EXTENDS SourceTelemetry, TLC

MCViewer == {"v1", "v2"}
MCKinds == {"pipeline", "camera"}
=============================================================================
