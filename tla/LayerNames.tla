----------------------------- MODULE LayerNames -----------------------------
(***************************************************************************)
(* The names in a layer's tar.  A name is in Names, or is one of the       *)
(* control names of an overlay layer: Wh(n) for ".wh.<n>" and Opq for      *)
(* ".wh..wh..opq".  The other ".wh..wh.*" names, which extractWhiteouts    *)
(* skips, are left out.  A path is a sequence of names, the root is <<>>.  *)
(***************************************************************************)
CONSTANTS
    Names,        \* ordinary file names
    Opq,          \* ".wh..wh..opq"
    DefaultMode   \* what insertNode gives a directory without a tar entry

ASSUME NamesAssumption == Opq \notin Names

Wh(n) == <<"wh", n>>
IsMarker(name) == name \notin Names
=============================================================================
