------------------------------ MODULE MCForms ------------------------------
EXTENDS Forms
=============================================================================
