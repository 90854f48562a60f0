------------------------------ MODULE FileTree ------------------------------
(***************************************************************************)
(* A file system with symbolic links, as far as staging and output         *)
(* collection see it through LocalDirFS (writefs.go).  A name is a         *)
(* sequence of parts, "a.txt" being <<"a", "txt">>; a path is a sequence   *)
(* of names, absolute, and <<>> stands for no path; a tree maps the paths  *)
(* that exist to nodes.  What a file holds is one token.                   *)
(***************************************************************************)
EXTENDS Naturals, Sequences, FiniteSets, SequencesExt, TLC

Dir     == [kind |-> "dir"]
File(b) == [kind |-> "file", bytes |-> b]
Link(p) == [kind |-> "link", to |-> p]
MaxLinks == 6   \* how many links one lookup follows

Under(tree, p) == {q \in DOMAIN tree : IsPrefix(p, q)}
Below(from, to, q) == to \o SubSeq(q, Len(from) + 1, Len(q))   \* q moved from below one path to below another

\* Some order of the elements of a set.
RECURSIVE Sequenced(_)
Sequenced(S) == IF S = {} THEN <<>> ELSE LET x == CHOOSE x \in S : TRUE IN <<x>> \o Sequenced(S \ {x})

RECURSIVE Follow(_, _, _)
Follow(tree, p, fuel) ==
    LET links == {i \in 1..Len(p) : /\ SubSeq(p, 1, i) \in DOMAIN tree
                                    /\ tree[SubSeq(p, 1, i)].kind = "link"}
    IN IF links = {} THEN p
       ELSE IF fuel = 0 THEN <<>>
       ELSE LET i == CHOOSE i \in links : \A j \in links : i <= j
            IN Follow(tree, Below(SubSeq(p, 1, i), tree[SubSeq(p, 1, i)].to, p), fuel - 1)

\* EvalSymlinks: the path with every link followed.
Real(tree, p) == Follow(tree, p, MaxLinks)

\* The directory entry p names: a link that is the last component is not followed.
EntryOf(tree, p) == Append(Real(tree, Front(p)), Last(p))

\* Stat and Open.
Exists(tree, p) == Real(tree, p) \in DOMAIN tree
IsDir(tree, p)  == Exists(tree, p) /\ tree[Real(tree, p)].kind = "dir"
IsFile(tree, p) == Exists(tree, p) /\ tree[Real(tree, p)].kind = "file"
Bytes(tree, p)  == tree[Real(tree, p)].bytes

\* ReadDir: the paths of a directory's entries.
Entries(tree, p) ==
    {Append(p, Last(q)) : q \in {r \in Under(tree, Real(tree, p)) : Len(r) = Len(Real(tree, p)) + 1}}

\* What an operation on the tree answers.
Done(tree)   == [ok |-> TRUE,  tree |-> tree]
Failed(tree) == [ok |-> FALSE, tree |-> tree]

\* MkdirAll.
MkdirAll(tree, p) ==
    LET above == {SubSeq(Real(tree, p), 1, i) : i \in 1..Len(Real(tree, p))}
    IN IF \E q \in above \intersect DOMAIN tree : tree[q].kind # "dir" THEN Failed(tree)
       ELSE Done(tree @@ [q \in above |-> Dir])

\* Remove of WriteFS: the entry with everything under it, os.RemoveAll.
RemoveAll(tree, p) ==
    LET gone == Under(tree, EntryOf(tree, p)) IN [q \in DOMAIN tree \ gone |-> tree[q]]

\* Create, and the write through the handle: an existing file, also one behind a link, is
\* truncated first.
Create(tree, p, b) ==
    LET r == Real(tree, p)
    IN IF r = <<>> \/ IsDir(tree, r) \/ ~IsDir(tree, Front(r)) THEN Failed(tree)
       ELSE Done((r :> File(b)) @@ tree)

\* Symlink.
Symlink(tree, to, p) ==
    IF EntryOf(tree, p) \in DOMAIN tree \/ ~IsDir(tree, Front(p)) THEN Failed(tree)
    ELSE Done((EntryOf(tree, p) :> Link(to)) @@ tree)

\* Rename: over an existing file or link, never over a directory.
Rename(tree, p, q) ==
    LET from == EntryOf(tree, p)
        to   == EntryOf(tree, q)
    IN IF \/ from \notin DOMAIN tree \/ ~IsDir(tree, Front(q))
          \/ to \in DOMAIN tree /\ (tree[to].kind = "dir" \/ tree[from].kind = "dir")
       THEN Failed(tree)
       ELSE Done([r \in {Below(from, to, x) : x \in Under(tree, from)} |-> tree[Below(to, from, r)]]
                 @@ [r \in DOMAIN tree \ (Under(tree, from) \union {to}) |-> tree[r]])

\* Copying a file, or a directory with what it holds; a link in it is read as a file, and
\* links at the target are written through: a file behind one that leads back to it is
\* truncated before it is read.  (A copy that fails copies nothing here.)
CopyTree(tree, source, target) ==
    LET from    == Real(tree, source)
        nodes   == Under(tree, from)
        at(q)   == Real(tree, Below(from, target, q))
        isDir(q) == tree[q].kind = "dir"
    IN IF \/ from \notin DOMAIN tree \/ ~IsDir(tree, Front(target))
          \/ \E q \in nodes : ~isDir(q) /\ ~IsFile(tree, q)
          \/ \E q \in nodes : at(q) = <<>> \/ (Exists(tree, at(q)) /\ IsDir(tree, at(q)) # isDir(q))
       THEN Failed(tree)
       ELSE Done([p \in {at(q) : q \in nodes} |->
                    LET q == CHOOSE q \in nodes : at(q) = p
                    IN IF isDir(q) THEN Dir
                       ELSE File(IF p = Real(tree, q) THEN "" ELSE Bytes(tree, q))] @@ tree)
=============================================================================
