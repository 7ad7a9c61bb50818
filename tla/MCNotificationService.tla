----------------------- MODULE MCNotificationService -----------------------
(* Instances of NotificationService for TLC. *)
EXTENDS NotificationService

(* Every webhook belongs to one tenant and wants the worker's event; the   *)
(* notices are of any tenant.                                              *)
OneSubscriber == {[client |-> CHOOSE c \in Clients : TRUE, events |-> {RiskCompleted}]}
=============================================================================
