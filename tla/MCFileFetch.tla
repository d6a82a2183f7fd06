---- MODULE MCFileFetch ----
EXTENDS FileFetch
====
