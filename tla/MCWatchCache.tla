---- MODULE MCWatchCache ----
\* The instance TLC checks of WatchCache.  The screens are the first three of
\* the five: only Notifications and Music are told apart.
EXTENDS WatchCache

MCHostData == {"host"}
====
