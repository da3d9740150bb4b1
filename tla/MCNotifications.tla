-------------------------- MODULE MCNotifications --------------------------
(* Two statuses an issue may be set to, and edits that matter to it.        *)
EXTENDS Notifications

McChanges == {"issue.resolved"}
McBodies == {[on |-> FALSE], [events |-> {"issue.resolved"}]}
=============================================================================
