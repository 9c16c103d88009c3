---------------------------- MODULE MCStatements ----------------------------
\* Small instances of Statements.
EXTENDS Statements
=============================================================================
