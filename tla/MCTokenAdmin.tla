----------------------------- MODULE MCTokenAdmin -----------------------------
EXTENDS TokenAdmin

CONSTANTS d1, s1   \* a device and its secret: created, deleted and created again
===============================================================================
