------------------------- MODULE MCPublicInfoForIp --------------------------
(***************************************************************************)
(* PublicInfoForIp with up to four keys: none, the last one only, the      *)
(* first and the last, and two of those shown without the introduction.    *)
(***************************************************************************)
EXTENDS PublicInfoForIp
=============================================================================
