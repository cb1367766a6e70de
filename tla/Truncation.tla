----------------------------- MODULE Truncation -----------------------------
(***************************************************************************)
(* The worker stores what a step took and gave cut to a size in bytes; it  *)
(* looks for the place to cut by halves.                                   *)
(***************************************************************************)
EXTENDS Integers, Sequences, SequencesExt

CONSTANTS
  MaxBytes,  \* maxBytes of truncatePayload
  MaxUnits   \* bound: code units of a payload

ASSUME BytesAssumption == {MaxBytes, MaxUnits} \subseteq Nat

VARIABLE payload  \* a string that is stored, in UTF-16 code units

payloadVars == <<payload>>

\* An ASCII character, one of two bytes, and the surrogates.
Units == {"narrow", "wide", "hi", "lo"}

-----------------------------------------------------------------------------
(* truncatePayload cuts a string where its UTF-8 bytes reach a size.       *)

\* A surrogate pair begins here.
Pairs(s, n) == s[n] = "hi" /\ n < Len(s) /\ s[n + 1] = "lo"

\* A pair has 4 bytes, which are counted where it begins; a surrogate alone 3.
UnitBytes(s, n) ==
  IF s[n] = "narrow" THEN 1
  ELSE IF s[n] = "wide" THEN 2
  ELSE IF Pairs(s, n) THEN 4
  ELSE IF n > 1 /\ Pairs(s, n - 1) THEN 0
  ELSE 3

BytesUpTo(s) ==
  LET upTo[n \in 0..Len(s)] == IF n = 0 THEN 0 ELSE upTo[n - 1] + UnitBytes(s, n)
  IN  upTo

byteLength(s) == BytesUpTo(s)[Len(s)]

slice(s, n) == SubSeq(s, 1, n)

\* Mutation: the search goes on below a prefix that just fits.
FitsBelow(s, n) == byteLength(slice(s, n)) < MaxBytes

Fits(s, n) == byteLength(slice(s, n)) <= MaxBytes

\* low at the end of the search, by the low and the high that it has come to.
Searched(s) ==
  LET low[w \in (0..Len(s)) \X (0..Len(s))] ==
        LET l == w[1]
            h == w[2]
            mid == (l + h + 1) \div 2
        IN  IF l >= h THEN l
            ELSE IF Fits(s, mid) THEN low[<<mid, h>>] ELSE low[<<l, mid - 1>>]
  IN  low

truncateStringToBytes(s) == slice(s, Searched(s)[<<0, Len(s)>>])

truncatePayload(s) == IF byteLength(s) <= MaxBytes THEN s ELSE truncateStringToBytes(s)

-----------------------------------------------------------------------------
(* Every state is some string.                                             *)

PayloadInit == payload = <<>>

AddUnit(u) ==
  /\ Len(payload) < MaxUnits
  /\ payload' = Append(payload, u)

PayloadNext == \E u \in Units : AddUnit(u)

PayloadSpec == PayloadInit /\ [][PayloadNext]_payloadVars

-----------------------------------------------------------------------------
(* Properties.                                                             *)

\* The binary search over prefixes finds the longest that fits, although the
\* bytes of a prefix that cuts a surrogate pair are not those of its part of
\* the whole.
CutIsLongestPrefix ==
  LET cut == truncatePayload(payload) IN
    /\ IsPrefix(cut, payload)
    /\ byteLength(cut) <= MaxBytes
    /\ cut = payload \/ byteLength(slice(payload, Len(cut) + 1)) > MaxBytes
=============================================================================
