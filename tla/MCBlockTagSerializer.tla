------------------------ MODULE MCBlockTagSerializer ------------------------
(***************************************************************************)
(* Tags of one, three and five bytes and a limit of four: tags that are    *)
(* buffered together, that force a flush, and that exceed the limit alone. *)
(***************************************************************************)
EXTENDS BlockTagSerializer

MCTagSizes == {1, 3, 5}
MCFlushLimit == 4
MCMaxTags == 4

=============================================================================
