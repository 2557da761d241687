-------------------------- MODULE MCDropboxUploads --------------------------
(***************************************************************************)
(* Two uploads of one base name, files of two pieces: the least with which *)
(* a file can be torn.                                                     *)
(***************************************************************************)
EXTENDS DropboxUploads

MCPieces == 2
MCMaxUploads == 2

=============================================================================
