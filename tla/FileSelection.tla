---------------------------- MODULE FileSelection ----------------------------
(* Which files of a repository a DownloadSpec selects.  The code decides   *)
(* it twice: FileResolver.Resolve, for MultiFileDownloader, and            *)
(* Manager.resolveFiles, for the downloads the controller starts.          *)
EXTENDS Naturals, Sequences

CONSTANTS
    Names,        \* all file names that occur
    Parts,        \* the parts of a name between its slashes
    Repo,         \* the names the repository lists
    Matches,      \* what a pattern matches: names, and parts of names
    BadPatterns   \* the patterns filepath.Match has an error for

ASSUME NamesAssumption == Repo \subseteq Names /\ DOMAIN Parts = Names

(* filepath.Match: an error counts as no match wherever it is not looked   *)
(* at.                                                                     *)
Match(p, s) == p \notin BadPatterns /\ s \in Matches[p]

SelectsAll(spec) == spec.Files = {} /\ spec.Patterns = <<>>

(* FileResolver.Resolve.  A file that is asked for by its name is selected *)
(* whether the repository has it or not.  The list is sorted in the end,   *)
(* which decides no more than the order in which goroutines are started.   *)
Resolve(spec) ==
    LET matched == {f \in Repo : \E k \in DOMAIN spec.Patterns : Match(spec.Patterns[k], f)}
        chosen == spec.Files \cup matched \cup IF SelectsAll(spec) THEN Repo ELSE {}
    IN {f \in chosen : ~\E p \in spec.Exclude : Match(p, f)}

(* Mutant: the pattern is held against the parts of the path only.         *)
shouldExcludePart(f, spec) ==
    \E p \in spec.Exclude : \E s \in Parts[f] : Match(p, s)

(* The manager excludes a file by its path or by a part of its path.       *)
shouldExclude(f, spec) ==
    \E p \in spec.Exclude : Match(p, f) \/ \E s \in Parts[f] : Match(p, s)

(* The manager reaches a bad pattern before one that matches the file, and *)
(* gives up.                                                               *)
ReachesBadPattern(f, spec) ==
    \E k \in DOMAIN spec.Patterns :
        /\ spec.Patterns[k] \in BadPatterns
        /\ \A j \in 1 .. k - 1 : ~Match(spec.Patterns[j], f)

resolveFilesFails(spec) ==
    \E f \in Repo \ spec.Files : ~shouldExclude(f, spec) /\ ReachesBadPattern(f, spec)

(* Manager.resolveFiles, when it does not fail.                            *)
resolveFiles(spec) ==
    {f \in Repo :
        /\ ~shouldExclude(f, spec)
        /\ \/ f \in spec.Files
           \/ \E k \in DOMAIN spec.Patterns : Match(spec.Patterns[k], f)
           \/ SelectsAll(spec)}
=============================================================================
