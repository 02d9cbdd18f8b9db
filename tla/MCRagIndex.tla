----------------------------- MODULE MCRagIndex -----------------------------
EXTENDS RagIndex
=============================================================================
