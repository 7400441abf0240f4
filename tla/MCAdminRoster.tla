--------------------------- MODULE MCAdminRoster ---------------------------
EXTENDS AdminRoster
=============================================================================
