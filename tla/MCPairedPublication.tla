------------------------- MODULE MCPairedPublication -------------------------
(***************************************************************************)
(* Two requests, each offered, assigned, canceled, and assigned and        *)
(* canceled in one message.                                                *)
(***************************************************************************)
EXTENDS PairedPublication

MCJobOf(id) == id

Message(message_id, events) == [message_id |-> message_id, events |-> events]

MCDeliveries ==
  UNION {{Message(1, <<Available(id)>>),
          Message(2, <<Assigned(id)>>),
          Message(2, <<Completed(id, None, Canceled)>>),
          Message(2, <<Assigned(id), Completed(id, None, Canceled)>>)} : id \in AttemptIds}
=============================================================================
