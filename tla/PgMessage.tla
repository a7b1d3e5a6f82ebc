------------------------------ MODULE PgMessage ------------------------------
(***************************************************************************)
(* The cursor of the strict matcher: the Go type message of part_000       *)
(* (lines 47-123), a read position over a fixed payload with a sticky      *)
(* error.  ReadUint32 and ReadString are operators from a message to the   *)
(* record [msg |-> the message after the call, r |-> what it returns], so  *)
(* that the matcher model (PgMatch) can call them inside its actions.      *)
(* The cursor on its own, with any call order, is specified in PgCursor.  *)
(***************************************************************************)
EXTENDS PgWire

MessageType ==
  [data : Seq(Byte), offset : Nat, err : BOOLEAN, lastReadStringStartOffset : Nat]

(* newMessageFromBytes (lines 121-123).                                     *)
NewMessageFromBytes(d) ==
  [data |-> d, offset |-> 0, err |-> FALSE, lastReadStringStartOffset |-> 0]

(* ReadUint32 (lines 58-69).                                                *)
ReadUint32(b) ==
  IF b.err THEN [msg |-> b, r |-> 0]
  ELSE IF b.offset + 4 > Len(b.data)
    THEN [msg |-> [b EXCEPT !.err = TRUE], r |-> 0]
    ELSE [msg |-> [b EXCEPT !.offset = @ + 4],
          r   |-> BigEndianUint32(SubSeq(b.data, b.offset + 1, b.offset + 4))]

(* The scan of lines 99-102: the first index at or after b.offset that     *)
(* holds a null byte, or len(data) when there is none.                     *)
NullScan(b) ==
  CHOOSE e \in b.offset .. Len(b.data) :
    /\ e = Len(b.data) \/ b.data[e + 1] = 0
    /\ \A j \in b.offset .. (e - 1) : b.data[j + 1] # 0

(* Mutant of ReadString: when no terminator is found the offset is set one *)
(* past the end, as the same branch does in matcher.go (line 48).          *)
ReadStringPastEnd(b) ==
  LET start == b.offset
      maximum == Len(b.data)
      rec == [b EXCEPT !.lastReadStringStartOffset = start]
  IN  IF b.err THEN [msg |-> b, r |-> <<>>]
      ELSE IF start = maximum THEN [msg |-> [rec EXCEPT !.err = FALSE], r |-> <<>>]
      ELSE IF start > maximum THEN [msg |-> [rec EXCEPT !.err = TRUE], r |-> <<>>]
      ELSE IF NullScan(b) = maximum
        THEN [msg |-> [rec EXCEPT !.err = TRUE, !.offset = maximum + 1],
              r   |-> SubSeq(b.data, start + 1, maximum)]
        ELSE [msg |-> [rec EXCEPT !.offset = NullScan(b) + 1],
              r   |-> SubSeq(b.data, start + 1, NullScan(b))]

(* Mutant of ReadString: the offset is left on the terminator instead of   *)
(* past it (b.offset = end).                                               *)
ReadStringStayOnNull(b) ==
  LET start == b.offset
      maximum == Len(b.data)
      rec == [b EXCEPT !.lastReadStringStartOffset = start]
  IN  IF b.err THEN [msg |-> b, r |-> <<>>]
      ELSE IF start = maximum THEN [msg |-> [rec EXCEPT !.err = FALSE], r |-> <<>>]
      ELSE IF start > maximum THEN [msg |-> [rec EXCEPT !.err = TRUE], r |-> <<>>]
      ELSE IF NullScan(b) = maximum
        THEN [msg |-> [rec EXCEPT !.err = TRUE, !.offset = maximum],
              r   |-> SubSeq(b.data, start + 1, maximum)]
        ELSE [msg |-> [rec EXCEPT !.offset = NullScan(b)],
              r   |-> SubSeq(b.data, start + 1, NullScan(b))]

(* ReadString (lines 74-118).                                               *)
ReadString(b) ==
  LET start == b.offset
      maximum == Len(b.data)
      rec == [b EXCEPT !.lastReadStringStartOffset = start]
  IN  IF b.err THEN [msg |-> b, r |-> <<>>]
      ELSE IF start = maximum THEN [msg |-> [rec EXCEPT !.err = FALSE], r |-> <<>>]
      ELSE IF start > maximum THEN [msg |-> [rec EXCEPT !.err = TRUE], r |-> <<>>]
      ELSE IF NullScan(b) = maximum
        THEN [msg |-> [rec EXCEPT !.err = TRUE, !.offset = maximum],
              r   |-> SubSeq(b.data, start + 1, maximum)]
        ELSE [msg |-> [rec EXCEPT !.offset = NullScan(b) + 1],
              r   |-> SubSeq(b.data, start + 1, NullScan(b))]

(* The test of line 261: the last ReadString consumed exactly one byte and *)
(* that byte was a null, i.e. it read the empty string that ends the       *)
(* parameter list.                                                         *)
IsTerminatorRead(b) ==
  /\ b.offset > 0
  /\ b.offset - 1 = b.lastReadStringStartOffset
  /\ b.data[b.offset] = 0

=============================================================================
