--------------------------- MODULE MCRemoteScreen ---------------------------
EXTENDS RemoteScreen

\* Delete is the key of Ctrl+Alt+Delete, the other one is not in windowsVK's table.
MCKeys    == {"Delete", "IntlYen"}
MCUnknown == {"IntlYen"}
=============================================================================
