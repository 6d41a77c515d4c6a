----------------------- MODULE MCNotificationDelivery -----------------------
(* The run of NotificationDelivery; its constants are model values *)
EXTENDS NotificationDelivery
=============================================================================
