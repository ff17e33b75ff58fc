--------------------------- MODULE MCDocumentStore ---------------------------
(***************************************************************************)
(* TLC instance of DocumentStore: both unload modes, two edits, two        *)
(* connections, and a debounce of one tick under a max_debounce of two, so *)
(* that the soft and the hard deadline can each come first.                *)
(***************************************************************************)
EXTENDS DocumentStore

MCEdits == {"e1", "e2"}
MCConns == {"c1", "c2"}
MCBothModes == BOOLEAN
MCEagerMode == {TRUE}    \* Config::default
=============================================================================
