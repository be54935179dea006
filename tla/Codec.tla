------------------------------- MODULE Codec -------------------------------
(***************************************************************************)
(* The generated code as a whole: what Unmarshal makes of the bytes that   *)
(* Marshal wrote, and of any other bytes, compared with a definition of    *)
(* the protobuf wire format that does not read from left to right but says *)
(* which strings are varints, fields, groups and messages.                 *)
(***************************************************************************)
EXTENDS Decoded
LOCAL INSTANCE SequencesExt

----------------------------------------------------------------------------
(* The wire format.                                                        *)

IsVarint(s) ==
    /\ s # <<>> /\ 7 * (Len(s) - 1) < WordBits
    /\ \A j \in 1 .. Len(s) : s[j] >= 128 <=> j < Len(s)

VarintValue(s) ==
    FoldLeftDomain(LAMBDA n, j : (n + (s[j] % 128) * 128 ^ (j - 1)) % Word, 0, s)

\* Where a varint, a field or the rest of a group that starts at i ends: a set
\* of at most one position.
VarintEnds(s, i) == {j \in i .. Len(s) : IsVarint(SubSeq(s, i, j))}

RECURSIVE FieldEnds(_, _), GroupEnds(_, _)

FieldEnds(s, i) ==
    UNION {LET wt == WireType(VarintValue(SubSeq(s, i, e))) IN
           CASE wt = 0 -> VarintEnds(s, e + 1)
             [] wt = 1 -> {e + 8} \cap 1 .. Len(s)
             [] wt = 2 -> {k \in e + 1 .. Len(s) : \E j \in VarintEnds(s, e + 1) :
                             j <= k /\ VarintValue(SubSeq(s, e + 1, j)) = k - j}
             [] wt = 3 -> GroupEnds(s, e + 1)
             [] wt = 5 -> {e + 4} \cap 1 .. Len(s)
             [] OTHER  -> {} : e \in VarintEnds(s, i)}

GroupEnds(s, i) ==
    {e \in VarintEnds(s, i) : WireType(VarintValue(SubSeq(s, i, e))) = 4}
    \cup UNION {GroupEnds(s, j + 1) : j \in FieldEnds(s, i)}

Bad == [ok |-> FALSE]

Good(m) == [ok |-> TRUE, m |-> m]

(***************************************************************************)
(* What the bytes s add to the message m of type t: fields of other        *)
(* numbers are dropped, the last value of a field counts, messages are     *)
(* merged, repeated fields collected.                                      *)
(***************************************************************************)
RECURSIVE Meaning(_, _, _)

Meaning(t, m, s) ==
    IF s = <<>> THEN Good(m)
    ELSE IF FieldEnds(s, 1) = {} THEN Bad
    ELSE LET end  == CHOOSE e \in FieldEnds(s, 1) : TRUE
             tagEnd == CHOOSE e \in VarintEnds(s, 1) : TRUE
             tag  == VarintValue(SubSeq(s, 1, tagEnd))
             n    == FieldNum(tag)
             rest == SubSeq(s, end + 1, Len(s))
             f    == Fields[t][n]
             body == LET e == CHOOSE e \in VarintEnds(s, tagEnd + 1) : TRUE
                     IN  SubSeq(s, e + 1, end)
             with(v) == Meaning(t, [m EXCEPT ![f.name] = v], rest)
             inner == Meaning(f.type, IF f.kind = "repeated" \/ m[f.name] = Nil
                                      THEN Zero[f.type] ELSE m[f.name], body)
         IN CASE n <= 0 -> Bad
              [] n > 0 /\ n \notin DOMAIN Fields[t] -> Meaning(t, m, rest)
              [] n \in DOMAIN Fields[t] /\ WireType(tag) # Expected(f) -> Bad
              [] OTHER ->
                 CASE f.kind = "varint" -> with(VarintValue(SubSeq(s, tagEnd + 1, end)))
                   [] f.kind = "bytes" -> with(body)
                   [] f.kind = "text" /\ body = <<>> -> Meaning(t, m, rest)
                   [] f.kind = "text" /\ body # <<>> -> IF IntText(body) THEN with(body) ELSE Bad
                   [] f.kind = "message" -> IF inner.ok THEN with(inner.m) ELSE Bad
                   [] f.kind = "repeated" ->
                      IF inner.ok THEN with(Append(m[f.name], inner.m)) ELSE Bad

----------------------------------------------------------------------------
(* Properties.                                                             *)

\* Unmarshal accepts exactly the byte strings of the wire format and makes of
\* them what the format says: skipped fields and groups, the last of several
\* values, merged and repeated messages, lengths and tags that do not fit.
AgreesWithFormat ==
    pc \in Final =>
        LET ref == Meaning(Type, Zero[Type], dAtA)
        IN  IF pc = "done" THEN ref = Good(Msg) ELSE ref = Bad

\* Marshalling is canonical: a message that was read, written and read again
\* is written as the same bytes, so that nodes that relay or store what they
\* decoded agree on the bytes whatever encoding they received.
Canonical ==
    pc = "done" =>
        LET bytes == Marshalled(Type, Msg)
            again == Meaning(Type, Zero[Type], bytes)
        IN  again.ok /\ Marshalled(Type, again.m) = bytes

=============================================================================
