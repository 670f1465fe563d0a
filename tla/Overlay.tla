------------------------------ MODULE Overlay -------------------------------
(***************************************************************************)
(* What a stack of layers means, said without trees: a file system is a    *)
(* function from paths to attributes, a layer one more such function       *)
(* (markers are files in it), and a layer over a file system hides what    *)
(* its whiteouts, opaque directories and files cover.  This is the         *)
(* reference the tree algorithms of src/image are held against.            *)
(*                                                                         *)
(* `inode` identifies stored content: the path and the layer of the write. *)
(***************************************************************************)
EXTENDS LayerNames, Integers, Sequences, FiniteSets, SequencesExt

IsMarkerPath(p) == Last(p) \notin Names
NoInode == <<>>
DefaultDir == [kind |-> "dir", mode |-> DefaultMode, inferred |-> TRUE, inode |-> NoInode]

Empty == [p \in {} |-> DefaultDir]

IsDirIn(f, p) == p \in DOMAIN f /\ f[p].kind = "dir"
Ancestors(p) == {SubSeq(p, 1, k) : k \in 1..(Len(p) - 1)}

\* Writing one path: its ancestors are directories, and a file has nothing
\* below it.
Put(f, p, attr) ==
    LET stays == {q \in DOMAIN f : attr.kind = "dir" \/ ~IsStrictPrefix(p, q)}
    IN [q \in stays \cup Ancestors(p) \cup {p} |->
            IF q = p THEN attr
            ELSE IF q \in Ancestors(p) /\ ~IsDirIn(f, q) THEN DefaultDir ELSE f[q]]

\* Layer up hides path q of what is below.
Hides(up, q) ==
    \E m \in DOMAIN up :
        LET dir == Front(m)
        IN CASE Last(m) = Opq -> IsStrictPrefix(dir, q)
             [] Last(m) \in Names -> up[m].kind # "dir" /\ IsPrefix(m, q)
             [] OTHER -> IsPrefix(Append(dir, Last(m)[2]), q)

\* Layer up over the file system f.  A directory the layer only implies
\* keeps the attributes it had.
Over(f, up) ==
    LET kept  == {q \in DOMAIN f : ~Hides(up, q)}
        plain == {q \in DOMAIN up : ~IsMarkerPath(q)}
    IN [q \in kept \cup plain |->
            IF q \in plain /\ ~(up[q].inferred /\ q \in kept /\ IsDirIn(f, q)) THEN up[q] ELSE f[q]]

=============================================================================
