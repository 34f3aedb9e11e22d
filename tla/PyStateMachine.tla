--------------------------- MODULE PyStateMachine ---------------------------
(***************************************************************************)
(* The session states of the Python engine (fixengine/state_machine.py):   *)
(* one operator per State class, which says where an event leads, and the  *)
(* dispatch of StateMachine.on_event.  An event a class does not name      *)
(* leaves the state as it is, and then no subscriber is told.              *)
(***************************************************************************)

Drops == {"disconnect", "force_disconnect"}

Disconnected(event) ==
    CASE event = "initiator_connect_attempt"     -> "CONNECTING"
      [] event = "client_accepted_awaiting_logon" -> "AWAITING_LOGON"
      [] event = "initiate_reconnect"            -> "RECONNECTING"
      [] OTHER                                   -> "DISCONNECTED"

Connecting(event) ==
    CASE event = "connection_established"              -> "LOGON_IN_PROGRESS"
      [] event \in Drops \cup {"connection_failed"}    -> "DISCONNECTED"
      [] OTHER                                         -> "CONNECTING"

LogonInProgress(event) ==
    CASE event = "logon_successful"             -> "ACTIVE"
      [] event \in Drops \cup {"logon_failed"}  -> "DISCONNECTED"
      [] OTHER                                  -> "LOGON_IN_PROGRESS"

AwaitingLogon(event) ==
    CASE event = "logon_received_valid" -> "ACTIVE"
      [] event \in Drops \cup {"invalid_logon_received", "logon_timeout"} -> "DISCONNECTED"
      [] OTHER -> "AWAITING_LOGON"

Active(event) ==
    CASE event = "logout_initiated"   -> "LOGOUT_IN_PROGRESS"
      [] event \in Drops              -> "DISCONNECTED"
      [] event = "initiate_reconnect" -> "RECONNECTING"
      [] OTHER                        -> "ACTIVE"

LogoutInProgress(event) ==
    IF event \in Drops \cup {"logout_confirmed"} THEN "DISCONNECTED"
    ELSE "LOGOUT_IN_PROGRESS"

Reconnecting(event) ==
    CASE event = "connection_established" -> "LOGON_IN_PROGRESS"
      [] event \in Drops \cup {"reconnect_failed_max_retries", "connection_failed"} ->
           "DISCONNECTED"
      [] OTHER -> "RECONNECTING"

States == {"DISCONNECTED", "CONNECTING", "LOGON_IN_PROGRESS", "AWAITING_LOGON",
           "ACTIVE", "LOGOUT_IN_PROGRESS", "RECONNECTING"}

(* StateMachine.on_event: the state after the event.                       *)
OnEvent(state, event) ==
    CASE state = "DISCONNECTED"       -> Disconnected(event)
      [] state = "CONNECTING"         -> Connecting(event)
      [] state = "LOGON_IN_PROGRESS"  -> LogonInProgress(event)
      [] state = "AWAITING_LOGON"     -> AwaitingLogon(event)
      [] state = "ACTIVE"             -> Active(event)
      [] state = "LOGOUT_IN_PROGRESS" -> LogoutInProgress(event)
      [] state = "RECONNECTING"       -> Reconnecting(event)
=============================================================================
