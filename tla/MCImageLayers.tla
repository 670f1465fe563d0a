--------------------------- MODULE MCImageLayers ----------------------------
(* Instances of ImageLayers small enough for TLC.                            *)
EXTENDS ImageLayers

CONSTANTS d, x, default, own

Shape(path, type, mode, link) == [path |-> path, type |-> type, mode |-> mode, link |-> link]
Dirs  == {Shape(<<d>>, "dir", m, <<>>) : m \in {default, own}}
Files == {Shape(p, "reg", own, <<>>) : p \in {<<d>>, <<x>>, <<d, x>>}}
Links == {Shape(<<x>>, "link", own, <<d, x>>), Shape(<<d, x>>, "link", own, <<x>>)}
Markers == {Shape(p, "reg", own, <<>>) : p \in {<<Wh(d)>>, <<Wh(x)>>, <<d, Wh(x)>>, <<Opq>>, <<d, Opq>>}}

\* A directory, a file in it and one of the same name beside it: enough for
\* every change of kind, for links across the directory's border, and for
\* every marker to hit something and to miss something.
AllShapes == Dirs \cup Files \cup Links \cup Markers

=============================================================================
