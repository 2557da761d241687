--------------------------- MODULE MCAuditedStore ---------------------------
(***************************************************************************)
(* Two uploads of one name, of the same content, of another or of no       *)
(* bytes, so that the second overwrites the first; a challenge of two      *)
(* items, so that the store can change between them.                       *)
(***************************************************************************)
EXTENDS AuditedStore

MCContents == {"one", "other", "nothing"}
MCEmptyContents == {"nothing"}
MCMaxUploads == 2
MCMaxItems == 2

=============================================================================
