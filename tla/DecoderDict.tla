---------------------------- MODULE DecoderDict -----------------------------
(***************************************************************************)
(* The decoder dictionary of lzma/decoderdict.go on the circular buffer of *)
(* lzma/buffer.go.  The buffer starts at Initial bytes and doubles towards *)
(* DictCap before a write would wrap it; once it has reached DictCap it    *)
(* wraps and recycles.  A buffer of capacity cap has cap + 1 cells, 0 ..   *)
(* cap, and is empty when front = rear.                                    *)
(***************************************************************************)
EXTENDS Integers, Sequences

CONSTANTS
  Byte,         (* byte values; 0 is among them (make zeroes)              *)
  DictCap,      (* the capacity the stream declares                        *)
  Initial,      (* initialDictCap                                          *)
  MaxMatchLen,  (* maxMatchLen                                             *)
  MaxInt,       (* maxInt: more than any index                             *)
  MaxHead,      (* bound: bytes written since the last reset               *)
  MaxWrite      (* bound: bytes in one Write                               *)

ASSUME DictAssumption ==
  /\ 0 \in Byte
  /\ DictCap \in Nat \ {0} /\ Initial \in 1 .. DictCap
  /\ MaxMatchLen \in Nat \ {0}
  /\ MaxHead \in Nat /\ MaxWrite \in Nat
  /\ MaxInt \in Nat /\ MaxInt > 2 * DictCap + MaxMatchLen

VARIABLES data, cap, front, rear,  (* the buffer                           *)
          head, growAt,            (* decoderDict                          *)
          res                      (* what the last operation returned     *)

vars == <<data, cap, front, rear, head, growAt, res>>

Min(a, b) == IF a < b THEN a ELSE b
Max(a, b) == IF a < b THEN b ELSE a

(* Index arithmetic on a buffer of capacity c.                             *)
Wrap(i, c) == IF i < 0 THEN i + c + 1 ELSE i
addIndex(i, n, c) == Wrap(i + n - (c + 1), c)
Buffered(f, r, c) == Wrap(f - r, c)
Available(f, r, c) == Wrap(r - 1 - f, c)

(* Go's copy into d[at:], for n bytes of the function s that maps an       *)
(* offset to the byte copied.                                              *)
Copied(d, at, n, s) ==
  [i \in DOMAIN d |-> IF i \in at .. at + n - 1 THEN s[i - at] ELSE d[i]]
Slice(d, at, n) == [j \in 0 .. n - 1 |-> d[at + j]]

(* buffer.Write of n bytes that fit: up to the physical end, then from 0.  *)
BufWrite(d, f, n, s, c) ==
  LET k == Min(n, c + 1 - f)
  IN  Copied(Copied(d, f, k, s), 0, n - k, [j \in 0 .. n - k - 1 |-> s[k + j]])

(* Mutant: grow only once the buffer is past full.                         *)
setGrowAtLate(c) == IF c >= DictCap THEN MaxInt ELSE c + 1

setGrowAt(c) == IF c >= DictCap THEN MaxInt ELSE c

(* Mutant: doubling is not capped at the declared capacity.                *)
NewCapUncapped(n) == Max(cap, Max(2 * cap, front + n))

(* grow: the capacity for n more bytes, and the prefix copy of buf.grow.   *)
NewCap(n) == Max(cap, Min(Max(2 * cap, front + n), DictCap))
Grown(c) == IF c <= cap THEN data
            ELSE [i \in 0 .. c |-> IF i < front THEN data[i] ELSE 0]

dictLen(c) == IF head >= c THEN c ELSE head

byteAt(dist) ==
  IF dist \in 1 .. dictLen(cap) THEN data[Wrap(front - dist, cap)] ELSE 0
-----------------------------------------------------------------------------
Init ==
  /\ cap = Initial /\ data = [i \in 0 .. Initial |-> 0]
  /\ front = 0 /\ rear = 0 /\ head = 0
  /\ growAt = setGrowAt(Initial)
  /\ res = <<"none">>

WriteByte(b) ==
  LET c == IF front >= growAt THEN NewCap(1) ELSE cap
      d == Grown(c)
  IN  /\ head < MaxHead
      /\ cap' = c /\ growAt' = setGrowAt(c)
      /\ IF Available(front, rear, c) < 1
         THEN res' = <<"nospace">> /\ data' = d /\ UNCHANGED <<front, head>>
         ELSE /\ data' = [d EXCEPT ![front] = b]
              /\ front' = addIndex(front, 1, c)
              /\ head' = head + 1
              /\ res' = <<"ok">>
      /\ UNCHANGED rear

Write(p) ==
  LET c == IF front + Len(p) > growAt THEN NewCap(Len(p)) ELSE cap
      n == Min(Len(p), Available(front, rear, c))
  IN  /\ head + Len(p) <= MaxHead
      /\ cap' = c /\ growAt' = setGrowAt(c)
      /\ data' = BufWrite(Grown(c), front, n, [j \in 0 .. n - 1 |-> p[j + 1]], c)
      /\ front' = addIndex(front, n, c)
      /\ head' = head + n
      /\ res' = IF n < Len(p) THEN <<"nospace">> ELSE <<"ok">>
      /\ UNCHANGED rear

(* Mutant: one copy even when source and target overlap.                   *)
FastCopyOnce(d, dist, length) == Copied(d, front, length, Slice(d, front - dist, length))

(* The fast path of writeMatch: neither run crosses the physical end.  The *)
(* overlapping case copies the pattern once and then doubles it; D[m] is   *)
(* the buffer after m doublings, and length doublings are enough.          *)
FastCopy(d, dist, length) ==
  LET i == front - dist
      D[m \in 0 .. length] ==
        IF m = 0
        THEN Copied(d, front, Min(dist, length), Slice(d, i, Min(dist, length)))
        ELSE LET k == Min(dist * 2 ^ (m - 1), length)
                 n == Min(k, length - k)
             IN  Copied(D[m - 1], front + k, n, Slice(D[m - 1], front, n))
  IN  D[length]

(* The slow path: runs up to the physical end or to front, each written    *)
(* with buf.Write.  L[m] is the state of the loop after m rounds, and      *)
(* length rounds are enough, since every round writes at least a byte.     *)
SlowCopy(d, dist, length, c) ==
  LET Round(s) ==
        LET i == Wrap(s.i, c)
            toEnd == i >= s.front
            n == Min(IF toEnd THEN c + 1 - i ELSE s.front - i, s.left)
            fits == n <= Available(s.front, rear, c)
        IN  IF s.left = 0 \/ ~s.ok THEN s
            ELSE [data  |-> BufWrite(s.data, s.front, n, Slice(s.data, i, n), c),
                  front |-> addIndex(s.front, n, c),
                  i     |-> IF toEnd THEN 0 ELSE s.front,
                  left  |-> s.left - n, ok |-> fits]
      L[m \in 0 .. length] ==
        IF m = 0 THEN [data |-> d, front |-> front, i |-> front - dist,
                       left |-> length, ok |-> TRUE]
        ELSE Round(L[m - 1])
  IN  L[length]

writeMatch(dist, length) ==
  LET c == IF front + length > growAt THEN NewCap(length) ELSE cap
      d == Grown(c)
      slow == SlowCopy(d, dist, length, c)
  IN  /\ head + length <= MaxHead
      /\ UNCHANGED rear
      /\ IF length \notin 1 .. MaxMatchLen
         THEN res' = <<"corrupt">> /\ UNCHANGED <<data, cap, growAt, front, head>>
         ELSE /\ cap' = c /\ growAt' = setGrowAt(c)
              /\ IF dist \notin 1 .. dictLen(c)
                 THEN res' = <<"corrupt">> /\ data' = d /\ UNCHANGED <<front, head>>
                 ELSE IF length > Available(front, rear, c)
                 THEN res' = <<"nospace">> /\ data' = d /\ UNCHANGED <<front, head>>
                 ELSE /\ head' = head + length
                      /\ IF front - dist >= 0 /\ front + length <= c + 1
                         THEN /\ data' = FastCopy(d, dist, length)
                              /\ front' = IF front + length = c + 1 THEN 0
                                          ELSE front + length
                              /\ res' = <<"ok">>
                         ELSE /\ data' = slow.data /\ front' = slow.front
                              /\ res' = IF slow.ok /\ slow.left = 0
                                        THEN <<"ok">> ELSE <<"panic">>

(* buffer.Read: Peek takes up to the physical end and then from 0.         *)
Read(n) ==
  LET k == Min(n, Buffered(front, rear, cap))
      toEnd == Min(k, cap + 1 - rear)
  IN  /\ res' = <<"read", [j \in 1 .. k |->
                     IF j <= toEnd THEN data[rear + j - 1] ELSE data[j - 1 - toEnd]]>>
      /\ rear' = addIndex(rear, k, cap)
      /\ UNCHANGED <<data, cap, front, head, growAt>>

Reset ==
  /\ head' = 0 /\ res' = <<"none">>
  /\ UNCHANGED <<data, cap, front, rear, growAt>>

Strings(n) == UNION {[1 .. k -> Byte] : k \in 0 .. n}

Next ==
  \/ \E b \in Byte : WriteByte(b)
  \/ \E p \in Strings(MaxWrite) : Write(p)
  \/ \E dist \in 0 .. DictCap + 1, length \in 0 .. MaxMatchLen + 1 :
        writeMatch(dist, length)
  \/ \E n \in 0 .. DictCap : Read(n)
  \/ Reset

Spec == Init /\ [][Next]_vars
-----------------------------------------------------------------------------
TypeOK ==
  /\ cap \in Initial .. DictCap
  /\ data \in [0 .. cap -> Byte]
  /\ front \in 0 .. cap /\ rear \in 0 .. cap
  /\ head \in 0 .. MaxHead
  /\ growAt = setGrowAt(cap)
  /\ res[1] \in {"none", "ok", "nospace", "corrupt", "panic", "read"}

(* buf.grow's precondition, at every moment the dictionary could still     *)
(* grow: nothing has wrapped, and the whole history since the last reset   *)
(* lies behind front, so a plain prefix copy keeps every index valid.      *)
NotWrappedWhileGrowing == cap < DictCap => rear <= front /\ head <= front

(* Growing on demand is invisible: every operation returns what a          *)
(* dictionary of the declared capacity would return, the bytes a match can *)
(* reach and the bytes a Read returns are the same, and the slow path of   *)
(* writeMatch never panics.                                                *)
Window == [j \in 1 .. dictLen(cap) |-> byteAt(dictLen(cap) - j + 1)]
Unread == [j \in 1 .. Buffered(front, rear, cap) |->
             data[IF rear + j - 1 > cap THEN rear + j - 1 - (cap + 1) ELSE rear + j - 1]]
Eager == INSTANCE Dictionary WITH window <- Window, unread <- Unread
ActsAsEagerDictionary == Eager!Spec
=============================================================================
