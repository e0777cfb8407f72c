----------------------------- MODULE MCPlaylist ------------------------------
(* Instances of PlaylistRuntime: three wallpapers.                             *)
EXTENDS PlaylistRuntime

CONSTANTS w1, w2, w3

(* All four kinds over three entries; two kinds over two of them, turned round. *)
MCDefinitions ==
  [entries : {<<w1, w2, w3>>}, repeat : BOOLEAN, shuffle : BOOLEAN]
    \cup {[entries |-> <<w3, w1>>, repeat |-> b, shuffle |-> b] : b \in BOOLEAN}
==============================================================================
