----------------------------- MODULE OutputCap -----------------------------
(***************************************************************************)
(* What of a script's output is stored (execution/executor.py,             *)
(* _cap_output).  A text is the sequence of its characters.  The settings  *)
(* keep the limit between 1024 and 1000000; nothing here depends on that.  *)
(***************************************************************************)
EXTENDS Naturals, Sequences, SequenceTheorems, TLAPS

\* The twenty characters that stand for what is left out.
Marker == [i \in 1 .. 20 |-> "m"]

CapOutput(text, max) ==
    IF Len(text) <= max THEN text
    ELSE IF Len(Marker) + 1 >= max THEN SubSeq(text, 1, max)
    ELSE SubSeq(text, 1, max - Len(Marker) - 1) \o Marker

\* Within the limit; all of the text when it fits; otherwise as much as the limit
\* allows up to one character, whether or not the marker fits.
Bounded(text, max) ==
    /\ Len(CapOutput(text, max)) <= max
    /\ Len(text) <= max => CapOutput(text, max) = text
    /\ Len(text) > max => Len(CapOutput(text, max)) >= max - 1

-----------------------------------------------------------------------------
\* Part of a text is a text, of the length asked for.
LEMMA Prefix ==
    ASSUME NEW S, NEW text \in Seq(S), NEW n \in 0 .. Len(text)
    PROVE  SubSeq(text, 1, n) \in Seq(S) /\ Len(SubSeq(text, 1, n)) = n
<1>1. Len(text) \in Nat /\ n \in Nat
  BY LenProperties
<1>2. \A i \in 1 .. n : text[i] \in S
  BY <1>1, ElementOfSeq
<1>3. /\ SubSeq(text, 1, n) \in Seq(S)
      /\ Len(SubSeq(text, 1, n)) = IF 1 <= n THEN n - 1 + 1 ELSE 0
  BY <1>1, <1>2, SubSeqProperties
<1>4. \A k \in Nat : (IF 1 <= k THEN k - 1 + 1 ELSE 0) = k
  OBVIOUS
<1> QED
  BY <1>1, <1>3, <1>4, Zenon

\* The marker is a text of twenty characters.
LEMMA MarkerLength ==
    ASSUME NEW Characters, "m" \in Characters
    PROVE  Marker \in Seq(Characters) /\ Len(Marker) = 20
<1>1. Marker \in [1 .. 20 -> Characters]
  BY DEF Marker
<1>2. Marker \in UNION {[1 .. n -> Characters] : n \in Nat}
  BY <1>1
<1>3. Marker \in Seq(Characters)
  BY <1>2, SeqDef
<1> QED
  BY <1>1, <1>3, LenProperties

\* For every text and every limit, what is stored stays within the limit.
THEOREM OutputIsBounded ==
    ASSUME NEW Characters, "m" \in Characters, NEW text \in Seq(Characters), NEW max \in Nat
    PROVE  Bounded(text, max)
<1>1. Len(text) \in Nat /\ Marker \in Seq(Characters) /\ Len(Marker) = 20
  BY LenProperties, MarkerLength
<1>2. CASE Len(text) <= max
  BY <1>1, <1>2 DEF Bounded, CapOutput
<1>3. CASE Len(text) > max /\ Len(Marker) + 1 >= max
  <2>1. Len(SubSeq(text, 1, max)) = max
    BY <1>1, <1>3, Prefix
  <2>2. CapOutput(text, max) = SubSeq(text, 1, max)
    BY <1>1, <1>3 DEF CapOutput
  <2> QED
    BY <1>1, <1>3, <2>1, <2>2 DEF Bounded
<1>4. CASE Len(text) > max /\ ~(Len(Marker) + 1 >= max)
  <2> DEFINE kept == SubSeq(text, 1, max - Len(Marker) - 1)
  <2>1. max - Len(Marker) - 1 \in 0 .. Len(text)
    BY <1>1, <1>4
  <2>2. kept \in Seq(Characters) /\ Len(kept) = max - 21
    BY <1>1, <2>1, Prefix
  <2>3. Len(kept \o Marker) = Len(kept) + Len(Marker)
    <3> HIDE DEF kept
    <3> QED
      BY <1>1, <2>2, ConcatProperties, Zenon
  <2>4. Len(kept \o Marker) = max - 1
    BY <1>1, <1>4, <2>2, <2>3
  <2>5. CapOutput(text, max) = kept \o Marker
    BY <1>1, <1>4 DEF CapOutput
  <2> QED
    BY <1>1, <1>4, <2>4, <2>5 DEF Bounded
<1> QED
  BY <1>1, <1>2, <1>3, <1>4
=============================================================================
