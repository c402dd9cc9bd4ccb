----------------------------- MODULE MCUsartIT -----------------------------
EXTENDS UsartIT
=============================================================================
