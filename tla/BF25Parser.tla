----------------------------- MODULE BF25Parser -----------------------------
(* parseBF25 of EsimLpaHooks.kt, the replacement for the vendor's parser of *)
(* a profile's metadata, which looped for ever on a tag it did not know.    *)
(*                                                                          *)
(* The metadata is a sequence of elements (tag, length, value) laid out in  *)
(* a string of hexadecimal digits, which may end before the length of the   *)
(* envelope says.  Offsets and sizes count digits.                          *)
EXTENDS Naturals, Sequences, FiniteSets

CONSTANTS Known,          \* tags the parser has a setter for (one byte each)
          UnknownOneByte, UnknownTwoBytes,   \* tags it skips
          Sizes,          \* how long an element may be, tag and length included: 6 or more
          MaxElements,    \* bound on the elements of an input
          MAX_ITERATIONS

ASSUME ParserAssumption ==
    (\A n \in Sizes : n \in Nat /\ n >= 6) /\ MaxElements \in Nat /\ MAX_ITERATIONS \in Nat

Tags == Known \cup UnknownOneByte \cup UnknownTwoBytes
TagSize(t) == IF t \in UnknownTwoBytes THEN 4 ELSE 2

(* What the vendor's code makes of an element: its fill method throws, or   *)
(* reports no size or one that is too small; or its length is unreadable.   *)
Faults == {"none", "fill", "zero", "short", "length"}
Element == {e \in [tag: Tags, size: Sizes, fault: Faults] :
                e.tag \in Known \/ e.fault \in {"none", "length"}}

VARIABLES data, length,         \* the input: elements, digits that are there
          offset, iterations, fields, running

parserVars == <<data, length, offset, iterations, fields, running>>

(* Where each element begins, with the end of the envelope after the last.  *)
StartOf(d) ==
    LET start[i \in 1 .. Len(d) + 1] == IF i = 1 THEN 0 ELSE start[i - 1] + d[i - 1].size
    IN start
dataEnd == StartOf(data)[Len(data) + 1]

ParserInit ==
    /\ data \in UNION {[1 .. n -> Element] : n \in 0 .. MaxElements}
    /\ length \in {n \in 0 .. dataEnd : n % 2 = 0}
    /\ offset = 0 /\ iterations = 0 /\ fields = {} /\ running = TRUE

-----------------------------------------------------------------------------
(* The element that begins at the offset; between elements, anything.       *)
ElementsHere ==
    LET at == {i \in 1 .. Len(data) : StartOf(data)[i] = offset}
    IN IF at = {} THEN Element ELSE {data[i] : i \in at}

(* The fill method finds all digits of the element; the length its own.     *)
FillWorks(e, o) == /\ e.tag \in Known /\ e.fault \notin {"fill", "length"}
                   /\ o + e.size <= length
LengthReadable(e, o) == /\ e.fault # "length"
                        /\ o + TagSize(e.tag) + 2 <= length

Consumed(e, o) == IF ~ FillWorks(e, o) THEN e.size
                  ELSE CASE e.fault = "zero"  -> 0
                         [] e.fault = "short" -> e.size - 2
                         [] OTHER             -> e.size

LeaveLoop == running' = FALSE /\ UNCHANGED <<data, length, offset>>

(* The end of the data, or too many elements.                               *)
Finish == /\ running
          /\ offset >= dataEnd \/ iterations >= MAX_ITERATIONS
          /\ LeaveLoop /\ UNCHANGED <<iterations, fields>>

InLoop == running /\ offset < dataEnd /\ iterations < MAX_ITERATIONS

(* The tag itself is cut off.                                               *)
StopAtCut(e) == /\ offset + TagSize(e.tag) > length
                /\ LeaveLoop /\ UNCHANGED fields

(* An element that can neither be filled nor skipped, or that seems to take *)
(* no room.  (Mutated forms of a definition, named ..._, stand before it.)  *)
StopAtElement(e) ==
    /\ offset + TagSize(e.tag) <= length
    /\ FillWorks(e, offset) \/ LengthReadable(e, offset) => Consumed(e, offset) = 0
    /\ fields' = IF FillWorks(e, offset) THEN fields \cup {e.tag} ELSE fields
    /\ LeaveLoop

PassElement_OneByteTags(e) ==
    /\ offset + TagSize(e.tag) <= length
    /\ FillWorks(e, offset) \/ LengthReadable(e, offset)
    /\ Consumed(e, offset) > 0
    /\ fields' = IF FillWorks(e, offset) THEN fields \cup {e.tag} ELSE fields
    /\ offset' = offset + Consumed(e, offset) - (TagSize(e.tag) - 2)
    /\ UNCHANGED <<data, length, running>>

PassElement(e) ==
    /\ offset + TagSize(e.tag) <= length
    /\ FillWorks(e, offset) \/ LengthReadable(e, offset)
    /\ Consumed(e, offset) > 0
    /\ fields' = IF FillWorks(e, offset) THEN fields \cup {e.tag} ELSE fields
    /\ offset' = offset + Consumed(e, offset)
    /\ UNCHANGED <<data, length, running>>

ReadElement == /\ InLoop
               /\ \E e \in ElementsHere : StopAtCut(e) \/ StopAtElement(e) \/ PassElement(e)
               /\ iterations' = iterations + 1

ParserNext == Finish \/ ReadElement

ParserSpec == ParserInit /\ [][ParserNext]_parserVars

-----------------------------------------------------------------------------
Begin(i) == StartOf(data)[i]
Fills(i) == FillWorks(data[i], Begin(i))

(* The parser gets past element i.                                          *)
Passable(i) == IF Fills(i) THEN data[i].fault # "zero" ELSE LengthReadable(data[i], Begin(i))

(* What a parser should read: the known fields that can be filled, up to    *)
(* the first element there is no way past.                                  *)
Readable == {i \in 1 .. Len(data) : /\ i <= MAX_ITERATIONS /\ Fills(i)
                                    /\ \A j \in 1 .. i - 1 : Passable(j)}

(* Unknown tags of one or two bytes, and fields the vendor's code fails on, *)
(* do not cost any later field, as long as no size is misreported.          *)
ReadsAllFields ==
    ~ running /\ (\A i \in 1 .. Len(data) : data[i].fault # "short")
        => fields = {data[i].tag : i \in Readable}
=============================================================================
