------------------------------ MODULE MCServer ------------------------------
(* One message for each peer, in and out. *)
EXTENDS ServerCalls

MCOutgoing == {Out("new_url", "text"), Out("generate", "text")}
MCIncoming == {Signal("keepalive"), Signal("status")}

=============================================================================
