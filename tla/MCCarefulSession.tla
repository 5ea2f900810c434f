-------------------------- MODULE MCCarefulSession --------------------------
(***************************************************************************)
(* CarefulSession on the schema of MCCliSession, without the confusable    *)
(* names, the refused keys and the absolute paths that go up.              *)
(***************************************************************************)
EXTENDS CarefulSession, MCCliSession

=============================================================================
