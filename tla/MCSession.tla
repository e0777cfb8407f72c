----------------------------- MODULE MCSession ------------------------------
(* PlaylistSession on a small instance: two playlists over two wallpapers,  *)
(* either of which the user may choose.                                     *)
EXTENDS PlaylistSession

CONSTANTS s1, s2, both, single

MCSpecs == {s1, s2}
MCPlaylists == {both, single}
MCEntries == [p \in MCPlaylists |-> IF p = both THEN {s1, s2} ELSE {s2}]
MCChoices == {s1}
NoChoices == {}

=============================================================================
