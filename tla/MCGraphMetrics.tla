--------------------------- MODULE MCGraphMetrics ----------------------------
EXTENDS GraphMetrics

=============================================================================
