------------------------------ MODULE Decoded ------------------------------
(***************************************************************************)
(* A message that Unmarshal has read is written again: the generated code  *)
(* of Unmarshal with the message types and tables of Messages.             *)
(***************************************************************************)
EXTENDS Unmarshal, Messages

CONSTANT Samples    \* for each type, some messages to marshal

\* The type of the message that the outermost call fills.
Type == calls[1].type

----------------------------------------------------------------------------
(* Properties.                                                             *)

\* Size() reserves exactly the bytes MarshalToSizedBuffer writes, for every
\* message that can be received: a byte less and the write panics, a byte more
\* and Marshal returns a buffer that begins with zeros and has lost its end.
Filled == pc = "done" => Fills(Type, Msg)

Encodings == [t \in Types |-> [m \in Samples[t] |-> Marshalled(t, m)]]

\* What Marshal wrote, Unmarshal reads back, field by field: the numbers and
\* wire types in the tags of the writer are those of the reader, and no two
\* messages have the same bytes.
RoundTrip ==
    pc \in Final =>
        \A m \in Samples[Type] : Encodings[Type][m] = dAtA => pc = "done" /\ Msg = m

=============================================================================
