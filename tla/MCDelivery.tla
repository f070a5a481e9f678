----------------------------- MODULE MCDelivery -----------------------------
\* Constants for checking Delivery: a message with two events, whose sender is
\* inside the ciphertext, and one whose content cannot be made into events; one
\* handler for the first event of the first, one for every event.
EXTENDS Delivery

CONSTANTS h1, h2

MCHandler    == {h1, h2}
MCRegistered ==
  [c \in Classes |-> CASE c = "TextMessage" -> <<h1>> [] c = "Event" -> <<h2>> [] OTHER -> <<>>]
MCTouched    == {<<"TextMessage", h1>>}

Of(sealed, source, parts) ==
  [type |-> "message", sealed |-> sealed, source |-> source, parts |-> parts]

MCEnvelopes ==
  {Of(TRUE, "missing", {"TextMessage", "Receipt"}), Of(FALSE, "given", {"TextMessage", "badDestination"})}
=============================================================================
