------------------------------ MODULE VvTokens ------------------------------
(***************************************************************************)
(* The tokens of VaptVupt (emit_seq and the parser of vv_encoder.c,         *)
(* decode_block_tokens_impl of vv_decoder.c).  They look like those of      *)
(* Zupt-LZ, with three differences: the shortest match and the bytes of an  *)
(* offset depend on the frame, and a length must end before the stream.     *)
(* Which matches the finders choose is left open: their tables only suggest *)
(* candidates, whose bytes they compare.                                    *)
(***************************************************************************)
EXTENDS LzCodec

\* Frames of the second format take matches one byte shorter.
VvMinMatch(v2) == IF v2 THEN MinMatch ELSE MinMatch + 1

-----------------------------------------------------------------------------
(* Writing *)

\* What a finder may answer at a position of a block that ends at "end": it
\* looks back over earlier blocks of the frame, less far than the window is long.
VvMatches(src, pos, end, window, least, most) ==
  {m \in [len : least .. most, off : 1 .. window - 1] :
     /\ m.off <= pos /\ pos + m.len <= end
     /\ \A k \in 0 .. m.len - 1 : src[pos + k + 1] = src[pos + k + 1 - m.off]}

OffsetBytes(off, n) == [k \in 1 .. n |-> (off \div Byte^(k - 1)) % Byte]

\* emit_seq
Token(s, least, offBytes) ==
  LET rest == s.len - least
  IN << Half(Len(s.lits)) * Nibble + (IF s.len = 0 THEN 0 ELSE Half(rest)) >>
     \o Extra(Len(s.lits)) \o s.lits
     \o IF s.len = 0 THEN << >> ELSE OffsetBytes(s.off, offBytes) \o Extra(rest)

TokenBytes(seqs, least, offBytes) == FlattenSeq([k \in DOMAIN seqs |-> Token(seqs[k], least, offBytes)])

\* extract_literals: the tokens without the bytes of the literals.
Stripped(seqs, least, offBytes) ==
  FlattenSeq([k \in DOMAIN seqs |->
    LET s == seqs[k]
        all == Token(s, least, offBytes)
        head == 1 + Len(Extra(Len(s.lits)))
    IN SubSeq(all, 1, head) \o SubSeq(all, head + Len(s.lits) + 1, Len(all))])

AllLiterals(seqs) == FlattenSeq([k \in DOMAIN seqs |-> seqs[k].lits])

-----------------------------------------------------------------------------
(* Reading: a decoder ends with what it has written, or with an error.      *)

Wrote(out) == [rc |-> "OK", out |-> out]
Error(rc) == [rc |-> rc, out |-> << >>]

\* read_ext_len: a length whose last byte is missing is an error.
VvLength(src, ip, half, base) ==
  LET read == ReadLength(src, ip, half, base)
  IN [len |-> read.len, ip |-> read.ip,
      ended |-> half < Nibble - 1 \/ (read.ip \in 1 .. Len(src) /\ read.ip > ip /\ src[read.ip] < Byte - 1)]

\* The checks of a match and its copy, in tokens and in sequences.
Matched(out, limit, off, len, maxOffset) ==
  IF off = 0 \/ off > maxOffset \/ off > Len(out) THEN Error("CORRUPT")
  ELSE IF Len(out) + len > limit THEN Error("OVERFLOW")
  ELSE Wrote(CopyMatch(out, off, len))

\* decode_block_tokens_impl and decode_stripped_tokens_impl.  "lits" says where
\* the literals are: between the tokens, or in a buffer of their own from
\* lits[1] on.  The output before "out" is the history of the frame.
RECURSIVE DecodeTokens(_, _, _, _, _, _)
DecodeTokens(src, ip, lits, out, limit, frame) ==
  LET run == VvLength(src, ip + 1, src[ip + 1] \div Nibble, 0)
      apart == lits.apart
      from == IF apart THEN lits.bytes ELSE SubSeq(src, run.ip + 1, Len(src))
      at == IF apart THEN run.ip ELSE run.ip + run.len
      read == out \o SubSeq(from, 1, run.len)
      left == [lits EXCEPT !.bytes = SubSeq(@, run.len + 1, Len(@))]
      offset == MapThenSumSet(LAMBDA k : src[at + k] * Byte^(k - 1), 1 .. frame.offBytes)
      match == VvLength(src, at + frame.offBytes, src[ip + 1] % Nibble, frame.least)
      next == Matched(read, limit, offset, match.len, frame.maxOffset)
  IN IF ip >= Len(src) THEN Wrote(out)
     ELSE IF ~run.ended \/ run.len > Len(from) THEN Error("CORRUPT")
     ELSE IF Len(out) + run.len > limit THEN Error("OVERFLOW")
     ELSE IF at >= Len(src) THEN Wrote(read)
     ELSE IF at + frame.offBytes > Len(src) \/ ~match.ended THEN Error("CORRUPT")
     ELSE IF next.rc # "OK" THEN next
     ELSE DecodeTokens(src, match.ip, IF apart THEN left ELSE lits, next.out, limit, frame)

Between == [apart |-> FALSE, bytes |-> << >>]
Apart(bytes) == [apart |-> TRUE, bytes |-> bytes]
=============================================================================
