------------------------- MODULE MCEvidencePublication -------------------------
\* Two documents and their manifest.
EXTENDS EvidencePublication
CONSTANTS a, b
MCDocuments == <<a, b>>
=============================================================================
