---------------------------- MODULE MCWebClient ----------------------------
EXTENDS WebClient
=============================================================================
