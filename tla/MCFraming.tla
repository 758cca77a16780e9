------------------------------- MODULE MCFraming ------------------------------
(* Framing on a small instance: bytes have three values. *)
EXTENDS Framing, SequencesExt

Mail(t, p) == [Type |-> t, Payload |-> p]

\* Empty and largest payloads, one that is too large and one invalid type.
SomeMessages ==
  {Mail(1, << >>), Mail(1, <<2>>), Mail(1, <<0, 1>>), Mail(1, <<0, 1, 2>>), Mail(2, << >>)}

SomeOutboxes == SeqOf(SomeMessages, 2)

===============================================================================
