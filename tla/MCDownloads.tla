---- MODULE MCDownloads ----
EXTENDS Downloads
====
