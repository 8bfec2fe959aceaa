---------------------------- MODULE MCSchemaSync ----------------------------
\* One data source whose target changes three times; jobs come and go without end.
EXTENDS SchemaSync, TLC

Tables == Permutations(Table)
=============================================================================
