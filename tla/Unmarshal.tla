----------------------------- MODULE Unmarshal -----------------------------
(***************************************************************************)
(* The generated Unmarshal methods (types, *.pb.go) as a state machine that*)
(* reads the input byte by byte.  All of them are one loop, which the      *)
(* generator repeats for each message with the fields of that message:     *)
(* read a tag, check it, read the field it announces or skip it, until the *)
(* slice is used up.  A field that is itself a message is read by that     *)
(* message's Unmarshal, on the subslice it occupies; the calls under way   *)
(* are the stack of slices.  The actions are mapped to schedule.pb.go, the *)
(* smallest of the six files; the tables of the fields are in Messages.    *)
(***************************************************************************)
EXTENDS Wire

CONSTANTS
    Types,      \* the message types
    Fields,     \* for each type, the field numbers it knows and what they are
    Zero,       \* for each type, the message Reset() leaves
    Inputs      \* the pairs of a type and the bytes to unmarshal as that type

(***************************************************************************)
(* A field has a name and a kind.  Fields of kind message or repeated hold *)
(* messages of a type; an absent pointer to a message is Nil.  Kind text   *)
(* is a number that its own type reads from the bytes (sdk.Int).           *)
(***************************************************************************)
Kinds == {"varint", "bytes", "text", "message", "repeated"}

ASSUME UnmarshalAssumption ==
    /\ \A in \in Inputs : in \in Types \X Seq(Byte) /\ Len(in[2]) < Half
    /\ \A t \in Types : \A n \in DOMAIN Fields[t] :
          LET f == Fields[t][n] IN
          /\ f.kind \in Kinds
          /\ f.kind \in {"message", "repeated"} => f.type \in Types

VARIABLES
    dAtA,       \* the input
    calls,      \* stack of the slices being unmarshalled, the innermost last
    msgs,       \* stack of the messages they fill, and the field each one is for
    pc,         \* where the innermost call is
    acc,        \* the varint being read
    preIndex,   \* where the current field starts
    field,      \* the current field
    skip,       \* local variables of skipSchedule
    err         \* the error returned, "" if none

vars == <<dAtA, calls, msgs, pc, acc, preIndex, field, skip, err>>

Final == {"done", "failed"}

InSkip == {"skipTag", "skipValue", "skipLength"}

Reading == {"tag", "value", "length"} \cup InSkip

Frame(t, off, l) == [type |-> t, off |-> off, l |-> l, iNdEx |-> 0]

Call == calls[Len(calls)]

Outer(s) == SubSeq(s, 1, Len(s) - 1)

Msg == msgs[Len(msgs)].m

NewVarint == [shift |-> 0, v |-> 0, more |-> TRUE]

\* The index the innermost call reads at, in a slice of Limit bytes that starts
\* at Base of the input.  skipSchedule gets the slice that starts at the field.
Index == IF pc \in InSkip THEN skip.iNdEx ELSE Call.iNdEx

Limit == IF pc \in InSkip THEN Call.l - preIndex ELSE Call.l

Base == IF pc \in InSkip THEN Call.off + preIndex ELSE Call.off

UnmarshalInit(t, data) ==
    /\ dAtA = data
    /\ calls = <<Frame(t, 0, Len(data))>>
    /\ msgs = <<[into |-> Nil, m |-> Zero[t]]>>
    /\ pc = "loop"
    /\ acc = NewVarint
    /\ preIndex = 0
    /\ field = Nil
    /\ skip = [iNdEx |-> 0, depth |-> 0]
    /\ err = ""

Fail(e) ==
    /\ pc' = "failed"
    /\ err' = e
    /\ UNCHANGED <<dAtA, calls, msgs, acc, preIndex, field, skip>>

\* Continue at a label with the current call's index set to i.
GoTo(label, i) ==
    /\ pc' = label
    /\ calls' = [calls EXCEPT ![Len(calls)].iNdEx = i]
    /\ UNCHANGED <<dAtA, err>>

----------------------------------------------------------------------------
(* The varint loop, the same for tags, values and lengths.                 *)

VarintByte ==
    /\ pc \in Reading /\ acc.more
    /\ \/ acc.shift >= WordBits /\ Fail("ErrIntOverflow")
       \/ acc.shift < WordBits /\ Index >= Limit /\ Fail("ErrUnexpectedEOF")
       \/ /\ acc.shift < WordBits /\ Index < Limit
          /\ LET b == dAtA[Base + Index + 1] IN
             acc' = [shift |-> acc.shift + 7, v |-> OrShifted(acc.v, b, acc.shift), more |-> b >= 128]
          /\ IF pc \in InSkip
             THEN skip' = [iNdEx |-> skip.iNdEx + 1, depth |-> skip.depth] /\ UNCHANGED calls
             ELSE calls' = [calls EXCEPT ![Len(calls)].iNdEx = @ + 1] /\ UNCHANGED skip
          /\ UNCHANGED <<dAtA, msgs, pc, preIndex, field, err>>

----------------------------------------------------------------------------
(* The loop of Unmarshal.                                                  *)

\* for iNdEx < l
Loop ==
    /\ pc = "loop" /\ Call.iNdEx < Call.l
    /\ preIndex' = Call.iNdEx
    /\ acc' = NewVarint
    /\ GoTo("tag", Call.iNdEx)
    /\ UNCHANGED <<msgs, field, skip>>

\* The wire type the code expects of a field.
Expected(f) == IF f.kind = "varint" THEN 0 ELSE 2

TagRead ==
    /\ pc = "tag" /\ ~acc.more
    /\ LET n  == FieldNum(acc.v)
           wt == WireType(acc.v)
           known == Fields[Call.type]
       IN \/ wt = 4 /\ Fail("end group for non-group")
          \/ wt # 4 /\ n <= 0 /\ Fail("illegal tag")
          \/ /\ wt # 4 /\ n > 0 /\ n \in DOMAIN known
             /\ wt # Expected(known[n])
             /\ Fail("wrong wireType")
          \/ /\ n > 0 /\ n \in DOMAIN known
             /\ wt = Expected(known[n])
             /\ field' = known[n]
             /\ acc' = NewVarint
             /\ GoTo(IF wt = 0 THEN "value" ELSE "length", Call.iNdEx)
             /\ UNCHANGED <<msgs, preIndex, skip>>
          \/ /\ wt # 4 /\ n > 0 /\ n \notin DOMAIN known
             /\ skip' = [iNdEx |-> 0, depth |-> 0]
             /\ GoTo("skip", preIndex)
             /\ UNCHANGED <<msgs, acc, preIndex, field>>

SetField(v) == msgs' = [msgs EXCEPT ![Len(msgs)].m[field.name] = v]

ValueRead ==
    /\ pc = "value" /\ ~acc.more
    /\ SetField(acc.v)
    /\ GoTo("loop", Call.iNdEx)
    /\ UNCHANGED <<acc, preIndex, field, skip>>

\* sdk.Int takes no text for no change and a decimal digit for a number; the
\* texts of several digits are not told apart from those it refuses.
IntText(bytes) == Len(bytes) = 1 /\ bytes[1] \in 48 .. 57

\* The mutation: a field that occurs again starts from nothing.
InnerNew == Zero[field.type]

\* The message a call for the current field starts from: a repeated field
\* appends a new one, an absent pointer is set to a new one, and otherwise
\* what is there is merged with what is read.
Inner == IF field.kind = "repeated" \/ Msg[field.name] = Nil
         THEN Zero[field.type]
         ELSE Msg[field.name]

\* The mutation: a sum that wraps around is not noticed.
NegativeLength(length, postIndex) == length < 0

BadLength(length, postIndex) == length < 0 \/ postIndex < 0

LengthRead ==
    /\ pc = "length" /\ ~acc.more
    /\ LET length == ToInt(acc.v)
           postIndex == Plus(Call.iNdEx, length)
           bytes == SubSeq(dAtA, Call.off + Call.iNdEx + 1, Call.off + postIndex)
           fits == ~BadLength(length, postIndex) /\ postIndex <= Call.l
       IN \/ BadLength(length, postIndex) /\ Fail("ErrInvalidLength")
          \/ /\ ~BadLength(length, postIndex) /\ postIndex > Call.l
             /\ Fail("ErrUnexpectedEOF")
          \/ /\ fits /\ field.kind = "bytes"
             /\ SetField(bytes)
             /\ GoTo("loop", postIndex)
             /\ UNCHANGED <<acc, preIndex, field, skip>>
          \/ /\ fits /\ field.kind = "text" /\ Len(bytes) > 0 /\ ~IntText(bytes)
             /\ Fail("not a number")
          \/ /\ fits /\ field.kind = "text" /\ (Len(bytes) = 0 \/ IntText(bytes))
             /\ SetField(IF Len(bytes) = 0 THEN Msg[field.name] ELSE bytes)
             /\ GoTo("loop", postIndex)
             /\ UNCHANGED <<acc, preIndex, field, skip>>
          \/ /\ fits /\ field.kind \in {"message", "repeated"}
             /\ calls' = Append(calls, Frame(field.type, Call.off + Call.iNdEx, length))
             /\ msgs' = Append(msgs, [into |-> field, m |-> Inner])
             /\ pc' = "loop"
             /\ UNCHANGED <<dAtA, acc, preIndex, field, skip, err>>

Finish ==
    /\ pc' = "done"
    /\ UNCHANGED <<dAtA, calls, msgs, acc, preIndex, field, skip, err>>

\* The innermost call is at its end: the whole input has been read, or the
\* caller stores the message and goes on behind it.
Return ==
    /\ pc = "loop" /\ Call.iNdEx >= Call.l
    /\ \/ /\ Len(calls) = 1
          /\ IF Call.iNdEx > Call.l THEN Fail("ErrUnexpectedEOF") ELSE Finish
       \/ /\ Len(calls) > 1
          /\ LET n == Len(calls) - 1
                 into == msgs[n + 1].into
             IN /\ calls' = [Outer(calls) EXCEPT ![n].iNdEx = @ + Call.l]
                /\ msgs' = [Outer(msgs) EXCEPT ![n].m[into.name] =
                              IF into.kind = "repeated" THEN Append(@, Msg) ELSE Msg]
          /\ UNCHANGED <<dAtA, pc, acc, preIndex, field, skip, err>>

----------------------------------------------------------------------------
(* skipSchedule: the extent of a field that is not known, groups included. *)

SkipTo(label, i, depth) ==
    /\ pc' = label
    /\ skip' = [iNdEx |-> i, depth |-> depth]
    /\ acc' = NewVarint
    /\ UNCHANGED <<dAtA, calls, msgs, preIndex, field, err>>

\* for iNdEx < l
SkipLoop ==
    /\ pc = "skip"
    /\ \/ skip.iNdEx < Call.l - preIndex /\ SkipTo("skipTag", skip.iNdEx, skip.depth)
       \/ skip.iNdEx >= Call.l - preIndex /\ Fail("ErrUnexpectedEOF")

SkipTagRead ==
    /\ pc = "skipTag" /\ ~acc.more
    /\ LET wt == WireType(acc.v) IN
       \/ wt = 0 /\ SkipTo("skipValue", skip.iNdEx, skip.depth)
       \/ wt = 1 /\ SkipTo("skipped", Plus(skip.iNdEx, 8), skip.depth)
       \/ wt = 2 /\ SkipTo("skipLength", skip.iNdEx, skip.depth)
       \/ wt = 3 /\ SkipTo("skipped", skip.iNdEx, skip.depth + 1)
       \/ wt = 4 /\ IF skip.depth = 0
                    THEN Fail("ErrUnexpectedEndOfGroup")
                    ELSE SkipTo("skipped", skip.iNdEx, skip.depth - 1)
       \/ wt = 5 /\ SkipTo("skipped", Plus(skip.iNdEx, 4), skip.depth)
       \/ wt \in {6, 7} /\ Fail("illegal wireType")

SkipValueRead ==
    /\ pc = "skipValue" /\ ~acc.more
    /\ SkipTo("skipped", skip.iNdEx, skip.depth)

\* The mutation: a negative length is skipped as well.
SkipAnyLength ==
    /\ pc = "skipLength" /\ ~acc.more
    /\ SkipTo("skipped", Plus(skip.iNdEx, ToInt(acc.v)), skip.depth)

SkipLengthRead ==
    /\ pc = "skipLength" /\ ~acc.more
    /\ LET length == ToInt(acc.v) IN
       \/ length < 0 /\ Fail("ErrInvalidLength")
       \/ length >= 0 /\ SkipTo("skipped", Plus(skip.iNdEx, length), skip.depth)

\* The mutation: the index is not advanced.
StayAt(postIndex) == GoTo("loop", preIndex)

\* iNdEx += skippy
GoOnAt(postIndex) == GoTo("loop", postIndex)

\* One field of the extent is skipped.  Outside of every group the extent is
\* complete and Unmarshal goes on behind it.
Skipped ==
    /\ pc = "skipped"
    /\ LET postIndex == Plus(preIndex, skip.iNdEx) IN
       \/ skip.iNdEx < 0 /\ Fail("ErrInvalidLength")
       \/ skip.iNdEx >= 0 /\ skip.depth > 0 /\ SkipTo("skip", skip.iNdEx, skip.depth)
       \/ skip.iNdEx >= 0 /\ skip.depth = 0 /\ postIndex < 0 /\ Fail("ErrInvalidLength")
       \/ skip.iNdEx >= 0 /\ skip.depth = 0 /\ postIndex > Call.l /\ Fail("ErrUnexpectedEOF")
       \/ /\ skip.iNdEx >= 0 /\ skip.depth = 0 /\ postIndex \in 0 .. Call.l
          /\ GoOnAt(postIndex)
          /\ UNCHANGED <<msgs, acc, preIndex, field, skip>>

Step ==
    \/ VarintByte \/ Loop \/ TagRead \/ ValueRead \/ LengthRead \/ Return
    \/ SkipLoop \/ SkipTagRead \/ SkipValueRead \/ SkipLengthRead \/ Skipped

UnmarshalVarsInit == \E in \in Inputs : UnmarshalInit(in[1], in[2])

Spec == UnmarshalVarsInit /\ [][Step]_vars

FairSpec == Spec /\ WF_vars(Step)

----------------------------------------------------------------------------
(* Properties.                                                             *)

Labels == {"loop", "skip", "skipped"} \cup Reading \cup Final

\* Every variable keeps its type; in particular a varint never leaves the word
\* it is read into, whatever the bytes are.
TypeOK ==
    /\ dAtA \in Seq(Byte) /\ Len(dAtA) < Half
    /\ calls \in Seq([type : Types, off : Nat, l : Nat, iNdEx : Int]) /\ calls # <<>>
    /\ pc \in Labels
    /\ acc \in [shift : Nat, v : 0 .. Word - 1, more : BOOLEAN]
    /\ preIndex \in Nat
    /\ pc \in {"value", "length"} =>
          \E t \in Types : \E n \in DOMAIN Fields[t] : field = Fields[t][n]
    /\ skip \in [iNdEx : Int, depth : Nat]

\* The index of every call under way is within its slice, and the slice of a
\* nested message is what its caller has in front of its index.
SlicesNest ==
    /\ \A k \in DOMAIN calls :
          /\ 0 <= calls[k].iNdEx /\ calls[k].iNdEx <= calls[k].l
          /\ calls[k].off + calls[k].l <= Len(dAtA)
    /\ \A k \in DOMAIN calls : k < Len(calls) =>
          /\ calls[k + 1].off = calls[k].off + calls[k].iNdEx
          /\ calls[k].iNdEx + calls[k + 1].l <= calls[k].l

\* No Unmarshal and no skip indexes or slices outside of the bytes it was
\* given, and a byte that is about to be read exists.  Go would panic
\* otherwise, and a panic while a stored call or a query is decoded takes the
\* block or the request with it.
InBounds ==
    /\ SlicesNest
    /\ pc \in Reading /\ acc.more /\ Index < Limit => Base + Index + 1 \in DOMAIN dAtA

(***************************************************************************)
(* What is left to do: the bytes from where the current field starts, the  *)
(* calls under way, the part of the loop's body that is reached, the bytes *)
(* in front of the index, and at an index the part of a field.             *)
(***************************************************************************)
Skipping == pc \in InSkip \cup {"skip", "skipped"}

BytesLeft ==
    IF pc \in Final THEN 0
    ELSE Len(dAtA) + 1 - (Call.off + IF pc = "loop" THEN Call.iNdEx ELSE preIndex)

Part ==
    CASE pc = "loop" -> 2
      [] pc \in Reading \ InSkip -> 1
      [] OTHER -> 0

Unread ==
    LET i == IF Skipping THEN skip.iNdEx ELSE Call.iNdEx
        l == IF Skipping THEN Call.l - preIndex ELSE Call.l
    IN  IF i \in 0 .. l THEN l - i ELSE 0

AtIndex ==
    CASE pc \in Reading /\ ~acc.more -> 3
      [] pc = "skipped" -> 2
      [] pc = "skip" -> 1
      [] OTHER -> 0

Work == <<BytesLeft, Len(calls), Part, Unread, AtIndex>>

\* The order of the tuples by the first number they differ in.
Less(a, b) == \E n \in DOMAIN a : a[n] < b[n] /\ \A m \in 1 .. n - 1 : a[m] = b[m]

\* Every step of Unmarshal leaves less to do, in numbers that are not negative:
\* an unknown field that sends the index back to its tag is skipped as a whole,
\* a group that returns to the head of skipSchedule has consumed a tag, a
\* nested message starts behind its length, and an index that wraps around is
\* not gone on with.  So no input is read for ever.
MovesOn == [][Work' \in [1 .. 5 -> Nat] /\ Less(Work', Work)]_vars

\* Whatever the bytes are, Unmarshal returns: no input makes the decoder of a
\* message, of a query or of a stored call loop or get stuck.
Terminates == <>(pc \in Final)

=============================================================================
