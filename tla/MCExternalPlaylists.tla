------------------------ MODULE MCExternalPlaylists ------------------------
(***************************************************************************)
(* Instances of ExternalPlaylists for TLC: a list that repeats an asset,   *)
(* one that reorders it, and none.                                         *)
(***************************************************************************)
EXTENDS ExternalPlaylists

CONSTANTS a1, a2, s1, s2

Both == {"jellyfin", "plex"}
OnlyPlex == {"plex"}
NoRemap == {FALSE}

OneList == {<<a1>>}
ShortLists == {<<a1>>, <<a2, a1, a2>>}
=============================================================================
