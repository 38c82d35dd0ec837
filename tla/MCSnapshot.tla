----------------------------- MODULE MCSnapshot -----------------------------
(* A file that may become a directory and back, and a secret file.  Contents   *)
(* but one have the same size, and a filter makes anything of one of them.     *)
EXTENDS Snapshot, TLC

MCOrder == <<".env", "a", "a/b">>
MCAbove == (".env" :> {}) @@ ("a" :> {}) @@ ("a/b" :> {"a"})

MCContents == {"text", "key", "blob", "big", "lf"}
MCSize == ("text" :> 1) @@ ("key" :> 1) @@ ("blob" :> 1) @@ ("big" :> 2) @@ ("lf" :> 1)
MCSanitized == ("text" :> "text") @@ ("key" :> "text") @@ ("blob" :> "skip") @@ ("big" :> "big")
                 @@ ("lf" :> "lf")
MCCheckedOut == [c \in MCContents |-> IF c = "lf" THEN MCContents ELSE {c}]

MCFile(text, ino) == [text |-> text, mode |-> "100644", mtime |-> 0, ino |-> ino]
MCWorkspaces == {[p \in Paths |-> IF p = "a" THEN MCFile("key", 1) ELSE Absent]}
MCElsewhere == {MCFile("text", 9)}
=============================================================================
