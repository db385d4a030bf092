\* The head of gfm_table.py: no table is invented.
SPECIFICATION Spec
CONSTANT Alphabets <- MCParagraphs
INVARIANT TrustedTablesAreRendered
CHECK_DEADLOCK FALSE
