---------------------------- MODULE MCFolderPages ----------------------------
(* FolderPages on a few messages with pages of two rows. *)
EXTENDS FolderPages
=============================================================================
