--------------------------- MODULE MCAnnouncements ---------------------------
(* The run of Announcements; its constants are model values *)
EXTENDS Announcements
=============================================================================
