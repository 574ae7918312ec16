----------------------------- MODULE Deliveries -----------------------------
(* What send_message delivers: each message may set the badge of its          *)
(* recipient's workspace (Badge) and wake its pane (WakeDispatcher).          *)
CONSTANT Msgs
=============================================================================
