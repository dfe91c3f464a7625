------------------------ MODULE MCNotificationService ------------------------
(* NotificationService with a few messages; and with clients who post a    *)
(* notification once and then only retry it (posting the id of an entry    *)
(* again is the same step as retrying it).                                 *)
EXTENDS NotificationService

RetryNext ==
  \E c \in Calls :
    \/ \E n \in Notifications : (Post(c, n) /\ ~log[n].exists) \/ Retry(c, n)
    \/ Progress(c)
    \/ Return(c)

RetrySpec == Init /\ [][RetryNext]_vars /\ \A c \in Calls : WF_vars(Progress(c) \/ Return(c))
===============================================================================
