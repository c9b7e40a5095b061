---------------------------- MODULE MCJournalStore ----------------------------
EXTENDS JournalStore

CONSTANTS r1, r2, l, n1, n2

W(name, path, paused) == [name |-> name, path |-> path, paused |-> paused]

MCConfigs == {
  <<W(n1, l, TRUE)>>,
  <<W(n1, r1, FALSE), W(n2, l, FALSE)>>}
==============================================================================
