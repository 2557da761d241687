--------------------------- MODULE MCRemoteStore ---------------------------
(***************************************************************************)
(* Two uploads of one name, so that the requests of the first can outlive  *)
(* its application into the second; bodies that arrive in one piece, in    *)
(* the buffer or on the disk.  The block tags are read as the file is.     *)
(* A third upload is of an empty file, and begins when the requests of     *)
(* the others are over.                                                    *)
(***************************************************************************)
EXTENDS RemoteStore

MCData == {"file"}
MCMaxUploads == 3
MCEmptyUploads == {3}
MCChunks == 1

EmptyOneAlone == current \in MCEmptyUploads => ~remains

=============================================================================
