------------------------------ MODULE MCVersions ------------------------------
(***************************************************************************)
(* Histories of up to three versions: two plain uploads and a multipart    *)
(* one of the same size, an upload of another size, and a delete marker    *)
(* (which has size 0 and no ETag in a listing).                            *)
(***************************************************************************)
EXTENDS VersionHistory

Upload(size, etag) == [marker |-> FALSE, size |-> size, etag |-> etag]

ContentsDef == {Upload(1, "md5A"), Upload(1, "md5B"), Upload(1, "mpC"), Upload(2, "md5D"),
                [marker |-> TRUE, size |-> 0, etag |-> ""]}
=============================================================================
