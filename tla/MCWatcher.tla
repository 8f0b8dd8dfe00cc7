------------------------------ MODULE MCWatcher ------------------------------
EXTENDS BlueprintWatcher
=============================================================================
