------------------------------ MODULE MCInstall ------------------------------
EXTENDS Install

CONSTANTS a, b
=============================================================================
