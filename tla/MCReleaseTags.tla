----------------------------- MODULE MCReleaseTags -----------------------------
(* Releases for TLC: two patches, a minor and a major release, and a patch of *)
(* the older minor series.                                                    *)
EXTENDS ReleaseTags

FourVersions == {<<0, 1, 0>>, <<0, 1, 1>>, <<0, 2, 0>>, <<1, 0, 0>>}
=============================================================================
