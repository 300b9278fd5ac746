--------------------------- MODULE MCPromptSession --------------------------
EXTENDS PromptDocs
=============================================================================
