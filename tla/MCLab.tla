--------------------------------- MODULE MCLab ---------------------------------
(***************************************************************************)
(* The lab's bucket and one more, the two kinds of objects seed.sh makes,  *)
(* one fault, one write of an application and one clean.                   *)
(***************************************************************************)
EXTENDS LabPipeline

CONSTANTS seed, more, small, big

BucketsDef == {seed, more}

\* Everything, as by default, or the second bucket alone.
AsksDef == {"all", more}
=============================================================================
