---- MODULE MCResultWindow ----
EXTENDS ResultWindow
====
