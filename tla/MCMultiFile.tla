---------------------------- MODULE MCMultiFile ----------------------------
(* An instance of MultiFile for TLC: a file at the top of the repository   *)
(* and stored on LFS, one in a directory and stored on Xet, and a name the *)
(* repository does not have.                                               *)
EXTENDS MultiFile

FileNames == {"a.gguf", "d/b.gguf", "x.gguf"}

PathParts ==
    [f \in FileNames |-> IF f = "d/b.gguf" THEN {"d", "b.gguf"} ELSE {f}]

(* A star does not match a slash.                                          *)
Glob ==
    [p \in {"*.gguf", "d/*", "d", "a*"} |->
        CASE p = "*.gguf" -> {"a.gguf", "b.gguf", "x.gguf"}
          [] p = "d/*" -> {"d/b.gguf"}
          [] p = "d" -> {"d"}
          [] p = "a*" -> {"a.gguf"}]

Kept == [f \in {"a.gguf", "d/b.gguf"} |-> IF f = "a.gguf" THEN "LFS" ELSE "Xet"]

Select(named, patterns, exclude) == [Files |-> named, Patterns |-> patterns, Exclude |-> exclude]

(* Everything; a name the repository does not have; patterns, one of them  *)
(* malformed; exclusions by path and by part; nothing at all.              *)
Selections == {
    Select({}, <<>>, {}),
    Select({"x.gguf"}, <<"d/*">>, {}),
    Select({}, <<"[", "d/*">>, {"a*"}),
    Select({"d/b.gguf"}, <<"a*">>, {"d", "a*"}),
    Select({}, <<>>, {"d/*"}),
    Select({}, <<"*.gguf">>, {"[", "a*"})}
============================================================================
