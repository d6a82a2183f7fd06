---- MODULE FileDelivery ----
(***************************************************************************)
(* What a fetch of one file promises its caller: while a fetch runs the    *)
(* local file may hold any prefix of the remote one; a fetch that reports  *)
(* success leaves the whole file; and between two fetches the file is not  *)
(* touched.  The specification that FileFetch implements.                  *)
(***************************************************************************)
EXTENDS Integers, Sequences

CONSTANTS FileSize, Absent

VARIABLES file,      \* the local file: Absent or the bytes it holds
          fetching,  \* a fetch runs
          result     \* what the last fetch answered: "none", "ok" or "err"

dvars == <<file, fetching, result>>

\* The first n bytes of the remote file; a byte is named by its offset.
Prefix(n) == [i \in 1..n |-> i - 1]

Whole == Prefix(FileSize)

Honest == {Absent} \cup {Prefix(n) : n \in 0..FileSize}

Init == file = Absent /\ fetching = FALSE /\ result = "none"

Begin ==
    /\ ~fetching
    /\ fetching' = TRUE /\ result' = "none" /\ UNCHANGED file

Progress ==
    /\ fetching
    /\ file' \in Honest
    /\ UNCHANGED <<fetching, result>>

Succeed ==
    /\ fetching
    /\ fetching' = FALSE /\ result' = "ok" /\ file' = Whole

Fail ==
    /\ fetching
    /\ fetching' = FALSE /\ result' = "err" /\ UNCHANGED file

\* The process dies in the middle; the disk keeps what was written.
Die ==
    /\ fetching
    /\ fetching' = FALSE /\ UNCHANGED <<file, result>>

Next == Begin \/ Progress \/ Succeed \/ Fail \/ Die

Spec == Init /\ [][Next]_dvars
====
