---------------------------- MODULE MCAuthClient ----------------------------
EXTENDS AuthClient
=============================================================================
