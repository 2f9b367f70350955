------------------------------ MODULE XZFormat ------------------------------
(***************************************************************************)
(* The pieces of an xz file and their sizes (format.go, bits.go).  A file  *)
(* is a sequence of pieces; each knows its length in bytes, whether its    *)
(* own magic, CRC or check holds (ok) and whether the file ends inside it  *)
(* (cut), so its contents are fields rather than bytes.                    *)
(***************************************************************************)
EXTENDS Integers, Sequences

HeaderLen == 12
FooterLen == 12
BlockHeaderLen == 12   (* the header writeHeader marshals: one LZMA2 filter *)
MinBlockSize == 12

padLen(n) == IF n % 4 > 0 THEN 4 - (n % 4) ELSE 0

(* putUvarint: seven bits to a byte.                                       *)
UvarintLen(x) == CHOOSE k \in 1 .. 4 : x < 128 ^ k /\ (k > 1 => x >= 128 ^ (k - 1))

(* writeIndex and readIndexBody: indicator, count, records, padding, CRC.  *)
RecordLen(rec) == UvarintLen(rec.unpadded) + UvarintLen(rec.size)
IndexLen(recs) ==
  LET upTo[i \in 0 .. Len(recs)] ==
        IF i = 0 THEN 1 + UvarintLen(Len(recs)) ELSE upTo[i - 1] + RecordLen(recs[i])
      n == upTo[Len(recs)]
  IN  n + padLen(n) + 4

Record(clen, check, size) ==
  [unpadded |-> BlockHeaderLen + clen + check, size |-> size]

Header(flags) == [kind |-> "header", len |-> HeaderLen, ok |-> TRUE, cut |-> FALSE,
                  flags |-> flags]
BlockHeader(c, u) == [kind |-> "bheader", len |-> BlockHeaderLen, ok |-> TRUE,
                      cut |-> FALSE, csize |-> c, usize |-> u]
Data(clen, from, to) == [kind |-> "data", len |-> clen, ok |-> TRUE, cut |-> FALSE,
                         from |-> from, to |-> to]
Check(clen, check) == [kind |-> "check", len |-> padLen(clen) + check, ok |-> TRUE,
                       cut |-> FALSE]
Index(recs) == [kind |-> "index", len |-> IndexLen(recs), ok |-> TRUE, cut |-> FALSE,
                recs |-> recs]
Footer(flags, size) == [kind |-> "footer", len |-> FooterLen, ok |-> TRUE,
                        cut |-> FALSE, flags |-> flags, isize |-> size]
Padding(n) == [kind |-> "pad", len |-> n, ok |-> TRUE, cut |-> n # 4]

(* The file ends half way through the piece; the piece's own check fails.  *)
Cut(piece) == [piece EXCEPT !.cut = TRUE, !.len = @ \div 2]
Bad(piece) == [piece EXCEPT !.ok = FALSE]
=============================================================================
