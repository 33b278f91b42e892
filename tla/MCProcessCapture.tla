--------------------------- MODULE MCProcessCapture ---------------------------
\* One byte may be kept of each stream, three may be written.
EXTENDS ProcessCapture
=============================================================================
