------------------------------ MODULE MCLogins ------------------------------
EXTENDS Logins
=============================================================================
