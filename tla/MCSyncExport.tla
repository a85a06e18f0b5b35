---------------------------- MODULE MCSyncExport ----------------------------
\* An instance of SyncExport for TLC: every project has a repository of its own.
EXTENDS SyncExport

MCOwnRepos == [p \in Projects |-> p]

=============================================================================
