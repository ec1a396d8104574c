------------------------- MODULE MCNotificationStream -------------------------
EXTENDS NotificationStream
CONSTANT p1

\* Three tabs on one pod: pods share nothing but the set of slots, and a pod
\* that is killed comes back empty.
OnePod == [c \in 1 .. 3 |-> p1]
===============================================================================
