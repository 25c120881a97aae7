---------------------------- MODULE MCHttpSender ----------------------------
\* Two callers, the values of the cfg: nothing to define.
EXTENDS HttpSender
=============================================================================
